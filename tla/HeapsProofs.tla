----------------------------- MODULE HeapsProofs ----------------------------
(***************************************************************************)
(* The heaps of hw4 and of the model answer: for heaps of any size, any    *)
(* names, types and numbers of members, the accounts of what is used agree *)
(* and every value is what was entered.                                    *)
(***************************************************************************)
EXTENDS MCHeaps, SequencesExt, SequenceTheorems, NaturalsInduction,
        WellFoundedInduction, TLAPS
-----------------------------------------------------------------------------
(***************************************************************************)
(* What the operators of SeqSums compute, by induction over the positions, *)
(* and what RemoveAt of the community modules leaves of a sequence.  First *)
(* of all: induction over sets of numbers.                                 *)
(***************************************************************************)
LEMMA Least ==
  ASSUME NEW T \in SUBSET Nat, T # {}
  PROVE  \E n \in T : \A m \in T : n <= m
<1> DEFINE R == OpToRel(<, Nat)
<1>1. IsWellFoundedOn(R, Nat)
  BY NatLessThanWellFounded
<1>2. \A x, y \in Nat : <<y, x>> \in R <=> y < x
  BY DEF OpToRel
<1> HIDE DEF R
<1>3. \E x \in T : \A y \in T : ~ (<<y, x>> \in R)
  BY <1>1, WFMin
<1>4. PICK n \in T : \A m \in T : ~ (<<m, n>> \in R)
  BY <1>3
<1>5. ASSUME NEW m \in T PROVE n <= m
  <2>1. ~ (m < n)
    BY <1>2, <1>4
  <2> QED BY <2>1
<1> QED BY <1>5

LEMMA Induct ==
  ASSUME NEW T \in SUBSET Nat, 0 \in T, \A n \in T : n + 1 \in T
  PROVE  T = Nat
<1> SUFFICES ASSUME T # Nat PROVE FALSE
  OBVIOUS
<1>1. Nat \ T \in SUBSET Nat /\ Nat \ T # {}
  OBVIOUS
<1>2. PICK n \in Nat \ T : \A m \in Nat \ T : n <= m
  BY <1>1, Least
<1>3. n - 1 \in Nat /\ n - 1 \in T
  BY <1>2
<1>4. n - 1 + 1 \in T
  BY <1>3
<1> QED BY <1>2, <1>4

(* From 0 up to a bound.                                                   *)
LEMMA InductTo ==
  ASSUME NEW b \in Nat, NEW T, 0 \in T, \A n \in 0 .. b - 1 : n \in T => n + 1 \in T
  PROVE  \A n \in 0 .. b : n \in T
<1> DEFINE U == {n \in Nat : n <= b => n \in T}
<1>1. 0 \in U
  OBVIOUS
<1>2. ASSUME NEW n \in U PROVE n + 1 \in U
  OBVIOUS
<1>3. U \in SUBSET Nat
  OBVIOUS
<1> HIDE DEF U
<1>4. U = Nat
  BY <1>1, <1>2, <1>3, Induct
<1> QED BY <1>4 DEF U

(***************************************************************************)
(* Recursive functions over the positions of a sequence                    *)
(***************************************************************************)

(* The functions from a on whose next value is g's of the one before.      *)
Recursions(n, A, a, g) ==
  {f \in [0 .. n -> A] : f[0] = a /\ \A i \in 1 .. n : f[i] = g[i][f[i - 1]]}

LEMMA RecursionExists ==
  ASSUME NEW n \in Nat, NEW A, NEW a \in A, NEW g \in [1 .. n -> [A -> A]]
  PROVE  Recursions(n, A, a, g) # {}
<1> DEFINE Fun(b) == {f \in [0 .. b -> A] : f[0] = a /\ \A i \in 1 .. b : f[i] = g[i][f[i - 1]]}
           T == {b \in 0 .. n : Fun(b) # {}}
<1>1. 0 \in T
  <2>1. [i \in 0 .. 0 |-> a] \in Fun(0)
    OBVIOUS
  <2> QED BY <2>1
<1>2. ASSUME NEW b \in 0 .. n - 1, b \in T PROVE b + 1 \in T
  <2>1. PICK f \in [0 .. b -> A] : f[0] = a /\ \A i \in 1 .. b : f[i] = g[i][f[i - 1]]
    BY <1>2
  <2>2. PICK h : h = [i \in 0 .. b + 1 |-> IF i <= b THEN f[i] ELSE g[b + 1][f[b]]]
    OBVIOUS
  <2>3. f[b] \in A /\ g[b + 1][f[b]] \in A
    OBVIOUS
  <2>4. h \in [0 .. b + 1 -> A] /\ h[0] = a
    BY <2>1, <2>2, <2>3
  <2>5. ASSUME NEW i \in 1 .. b + 1 PROVE h[i] = g[i][h[i - 1]]
    <3>1. CASE i <= b
      BY <2>1, <2>2, <3>1
    <3>2. CASE ~ (i <= b)
      <4>1. i = b + 1 /\ i - 1 = b
        BY <3>2
      <4> QED BY <2>2, <4>1
    <3> QED BY <3>1, <3>2
  <2>6. h \in Fun(b + 1) /\ b + 1 \in 0 .. n
    BY <2>4, <2>5
  <2> HIDE DEF Fun
  <2> QED BY <2>6
<1> HIDE DEF T
<1>3. \A b \in 0 .. n : b \in T
  BY <1>1, <1>2, InductTo
<1>4. n \in T
  BY <1>3
<1> QED BY <1>4 DEF T, Recursions

LEMMA SumExists ==
  ASSUME NEW n \in Nat, NEW s \in [1 .. n -> Nat]
  PROVE  \E f : f = [i \in 0 .. n |-> IF i = 0 THEN 0 ELSE f[i - 1] + s[i]]
<1>1. PICK g : g = [i \in 1 .. n |-> [x \in Nat |-> x + s[i]]]
  OBVIOUS
<1>2. PICK A, a : A = Nat /\ a = 0
  OBVIOUS
<1>3. g \in [1 .. n -> [A -> A]] /\ a \in A
  BY <1>1, <1>2
<1>4. Recursions(n, A, a, g) # {}
  BY <1>3, RecursionExists
<1>5. PICK f \in [0 .. n -> Nat] : f[0] = 0 /\ \A i \in 1 .. n : f[i] = g[i][f[i - 1]]
  BY <1>2, <1>4 DEF Recursions
<1>6. \A i \in 0 .. n : f[i] = IF i = 0 THEN 0 ELSE f[i - 1] + s[i]
  <2> SUFFICES ASSUME NEW i \in 0 .. n, i # 0 PROVE f[i] = f[i - 1] + s[i]
    BY <1>5
  <2>1. i \in 1 .. n /\ f[i - 1] \in Nat
    OBVIOUS
  <2> QED BY <1>1, <1>5, <2>1
<1>7. f = [i \in 0 .. n |-> f[i]]
  OBVIOUS
<1>8. f = [i \in 0 .. n |-> IF i = 0 THEN 0 ELSE f[i - 1] + s[i]]
  BY <1>6, <1>7
<1> QED BY <1>8

LEMMA PrefixSumsProperties ==
  ASSUME NEW s \in Seq(Nat)
  PROVE  /\ PrefixSums(s) \in [0 .. Len(s) -> Nat]
         /\ PrefixSums(s)[0] = 0
         /\ \A i \in 1 .. Len(s) : PrefixSums(s)[i] = PrefixSums(s)[i - 1] + s[i]
<1> DEFINE IsSum(f) == f = [i \in 0 .. Len(s) |-> IF i = 0 THEN 0 ELSE f[i - 1] + s[i]]
<1>1. Len(s) \in Nat /\ s \in [1 .. Len(s) -> Nat]
  OBVIOUS
<1>2. \E f : IsSum(f)
  BY <1>1, SumExists
<1>3. IsSum(PrefixSums(s))
  BY <1>2 DEF PrefixSums
<1>4. PICK f : f = PrefixSums(s)
  OBVIOUS
<1>5. DOMAIN f = 0 .. Len(s) /\ f[0] = 0 /\ \A i \in 1 .. Len(s) : f[i] = f[i - 1] + s[i]
  <2>1. f = [i \in 0 .. Len(s) |-> IF i = 0 THEN 0 ELSE f[i - 1] + s[i]]
    BY <1>3, <1>4
  <2>2. 0 \in 0 .. Len(s) /\ \A i \in 1 .. Len(s) : i \in 0 .. Len(s) /\ i # 0
    BY <1>1
  <2> QED BY <2>1, <2>2
<1>6. \A i \in 0 .. Len(s) : i \in {k \in 0 .. Len(s) : f[k] \in Nat}
  <2> DEFINE T == {k \in 0 .. Len(s) : f[k] \in Nat}
  <2>1. 0 \in T
    BY <1>1, <1>5
  <2>2. ASSUME NEW i \in 0 .. Len(s) - 1, i \in T PROVE i + 1 \in T
    <3>1. i + 1 \in 1 .. Len(s) /\ i + 1 - 1 = i /\ s[i + 1] \in Nat
      BY <1>1
    <3> QED BY <1>5, <2>2, <3>1
  <2> HIDE DEF T
  <2>3. \A i \in 0 .. Len(s) : i \in T
    BY <1>1, <2>1, <2>2, InductTo
  <2> QED BY <2>3 DEF T
<1>7. f \in [0 .. Len(s) -> Nat]
  <2>1. f = [i \in 0 .. Len(s) |-> f[i]]
    BY <1>3, <1>4
  <2> QED BY <1>6, <2>1
<1> QED BY <1>4, <1>5, <1>7

(* Sums of natural numbers only grow, ...                                  *)
LEMMA PrefixSumsGrow ==
  ASSUME NEW s \in Seq(Nat)
  PROVE  \A j \in 0 .. Len(s) : \A i \in 0 .. j : PrefixSums(s)[i] <= PrefixSums(s)[j]
<1>1. PICK n, f : n = Len(s) /\ n \in Nat /\ f = PrefixSums(s)
  OBVIOUS
<1>2. /\ \A i \in 0 .. n : f[i] \in Nat
      /\ \A i \in 1 .. n : f[i] = f[i - 1] + s[i] /\ s[i] \in Nat
  BY <1>1, PrefixSumsProperties, ElementOfSeq
<1> DEFINE T == {j \in 0 .. n : \A i \in 0 .. j : f[i] <= f[j]}
<1>3. 0 \in T
  BY <1>1, <1>2
<1>4. ASSUME NEW j \in 0 .. n - 1, j \in T PROVE j + 1 \in T
  <2>1. j + 1 \in 1 .. n /\ j + 1 \in 0 .. n /\ j + 1 - 1 = j /\ j \in 0 .. n
    BY <1>1
  <2>2. f[j + 1] = f[j] + s[j + 1] /\ s[j + 1] \in Nat /\ f[j] \in Nat
    BY <1>2, <2>1
  <2>3. ASSUME NEW i \in 0 .. j + 1 PROVE f[i] <= f[j + 1]
    <3>1. i \in 0 .. n /\ (i \in 0 .. j \/ i = j + 1)
      BY <1>1, <2>1
    <3>2. f[i] \in Nat /\ (i \in 0 .. j => f[i] <= f[j])
      BY <1>2, <1>4, <3>1
    <3> QED BY <2>2, <3>1, <3>2
  <2> QED BY <2>1, <2>3
<1> HIDE DEF T
<1>5. \A j \in 0 .. n : j \in T
  BY <1>1, <1>3, <1>4, InductTo
<1> QED BY <1>1, <1>5 DEF T

(* ... by one and more at a time if none of the numbers is zero.           *)
LEMMA PrefixSumsAtLeast ==
  ASSUME NEW s \in Seq(Nat), NEW m \in 0 .. Len(s), \A i \in 1 .. m : s[i] # 0
  PROVE  m <= PrefixSums(s)[m]
<1>1. PICK n, f : n = Len(s) /\ n \in Nat /\ f = PrefixSums(s) /\ m \in 0 .. n /\ m \in Nat
  OBVIOUS
<1>2. /\ f[0] = 0 /\ \A i \in 0 .. n : f[i] \in Nat
      /\ \A i \in 1 .. n : f[i] = f[i - 1] + s[i] /\ s[i] \in Nat
  BY <1>1, PrefixSumsProperties, ElementOfSeq
<1> DEFINE T == {i \in 0 .. m : i <= f[i]}
<1>3. 0 \in T
  BY <1>1, <1>2
<1>4. ASSUME NEW j \in 0 .. m - 1, j \in T PROVE j + 1 \in T
  <2>1. j + 1 \in 1 .. n /\ j + 1 \in 1 .. m /\ j + 1 \in 0 .. m /\ j + 1 - 1 = j /\ j \in 0 .. n
    BY <1>1
  <2>2. f[j + 1] = f[j] + s[j + 1] /\ s[j + 1] \in Nat /\ f[j] \in Nat /\ s[j + 1] # 0 /\ j <= f[j]
    BY <1>2, <1>4, <2>1
  <2>3. j + 1 <= f[j + 1]
    BY <2>1, <2>2
  <2> QED BY <2>1, <2>3
<1> HIDE DEF T
<1>5. \A j \in 0 .. m : j \in T
  BY <1>1, <1>3, <1>4, InductTo
<1>6. m \in T
  BY <1>1, <1>5
<1> QED BY <1>1, <1>6 DEF T

(* Sequences that begin alike have the same sums there.                    *)
LEMMA PrefixSumsAgree ==
  ASSUME NEW s \in Seq(Nat), NEW t \in Seq(Nat), NEW m \in Nat, m <= Len(s), m <= Len(t),
         \A i \in 1 .. m : t[i] = s[i]
  PROVE  \A i \in 0 .. m : PrefixSums(t)[i] = PrefixSums(s)[i]
<1>1. PICK f, g : f = PrefixSums(s) /\ g = PrefixSums(t)
  OBVIOUS
<1>2. f[0] = 0 /\ g[0] = 0
  BY <1>1, PrefixSumsProperties
<1>3. \A i \in 1 .. m : f[i] = f[i - 1] + s[i] /\ g[i] = g[i - 1] + t[i]
  <2>1. \A i \in 1 .. m : i \in 1 .. Len(s) /\ i \in 1 .. Len(t)
    OBVIOUS
  <2> QED BY <1>1, <2>1, PrefixSumsProperties
<1> DEFINE T == {i \in 0 .. m : g[i] = f[i]}
<1>4. 0 \in T
  BY <1>2
<1>5. ASSUME NEW j \in 0 .. m - 1, j \in T PROVE j + 1 \in T
  <2>1. j + 1 \in 1 .. m /\ j + 1 \in 0 .. m /\ j + 1 - 1 = j
    OBVIOUS
  <2>2. g[j + 1] = f[j + 1]
    BY <1>3, <1>5, <2>1
  <2> QED BY <2>1, <2>2
<1> HIDE DEF T
<1>6. \A j \in 0 .. m : j \in T
  BY <1>4, <1>5, InductTo
<1> QED BY <1>1, <1>6 DEF T

(* Without one of its numbers a sequence has smaller sums behind it.       *)
LEMMA PrefixSumsShift ==
  ASSUME NEW s \in Seq(Nat), NEW t \in Seq(Nat), NEW m \in Nat, NEW r \in 1 .. m,
         m <= Len(s), m - 1 <= Len(t),
         \A i \in 1 .. r - 1 : t[i] = s[i],
         \A i \in r .. m - 1 : t[i] = s[i + 1]
  PROVE  \A i \in 0 .. m - 1 :
           PrefixSums(t)[i] = IF i < r THEN PrefixSums(s)[i] ELSE PrefixSums(s)[i + 1] - s[r]
<1>1. PICK f, g, b : f = PrefixSums(s) /\ g = PrefixSums(t) /\ b = m - 1 /\ b \in Nat
  OBVIOUS
<1>2. PICK x : x = s[r] /\ x \in Nat
  <2>1. r \in 1 .. Len(s)
    OBVIOUS
  <2> QED BY <2>1, ElementOfSeq
<1>3. f[0] = 0 /\ g[0] = 0
  BY <1>1, PrefixSumsProperties
<1>4. /\ \A i \in 1 .. m : f[i] = f[i - 1] + s[i] /\ f[i] \in Nat /\ f[i - 1] \in Nat /\ s[i] \in Nat
      /\ \A i \in 1 .. b : g[i] = g[i - 1] + t[i]
  <2>1. /\ \A i \in 1 .. m : i \in 1 .. Len(s) /\ i \in 0 .. Len(s) /\ i - 1 \in 0 .. Len(s)
        /\ \A i \in 1 .. b : i \in 1 .. Len(t)
    BY <1>1
  <2> QED BY <1>1, <2>1, PrefixSumsProperties, ElementOfSeq
<1> DEFINE T == {i \in 0 .. b : g[i] = IF i < r THEN f[i] ELSE f[i + 1] - x}
<1>5. 0 \in T
  BY <1>1, <1>3
<1>6. ASSUME NEW j \in 0 .. b - 1, j \in T PROVE j + 1 \in T
  <2>1. /\ j + 1 \in 1 .. b /\ j + 1 \in 0 .. b /\ j + 1 - 1 = j /\ j + 1 \in 1 .. m
        /\ j + 1 + 1 \in 1 .. m /\ j + 1 + 1 - 1 = j + 1
    BY <1>1
  <2>2. g[j + 1] = g[j] + t[j + 1] /\ g[j] = IF j < r THEN f[j] ELSE f[j + 1] - x
    BY <1>4, <1>6, <2>1
  <2>3. /\ f[j + 1] = f[j] + s[j + 1] /\ f[j + 1 + 1] = f[j + 1] + s[j + 1 + 1]
        /\ f[j] \in Nat /\ f[j + 1] \in Nat /\ f[j + 1 + 1] \in Nat /\ s[j + 1] \in Nat /\ s[j + 1 + 1] \in Nat
    BY <1>4, <2>1
  <2>4. CASE j + 1 < r
    <3>1. j < r /\ j + 1 \in 1 .. r - 1
      BY <2>1, <2>4
    <3>2. t[j + 1] = s[j + 1]
      BY <3>1
    <3> QED BY <2>1, <2>2, <2>3, <2>4, <3>1, <3>2
  <2>5. CASE j + 1 = r
    <3>1. j < r /\ ~ (j + 1 < r) /\ j + 1 \in r .. m - 1
      BY <1>1, <2>1, <2>5
    <3>2. t[j + 1] = s[j + 1 + 1] /\ s[j + 1] = x
      BY <1>2, <2>5, <3>1
    <3>3. g[j + 1] = f[j + 1 + 1] - x
      <4>1. PICK a, c, d, y, z :
              a = f[j] /\ c = f[j + 1] /\ d = s[j + 1 + 1] /\ y = f[j + 1 + 1] /\ z = g[j + 1]
        OBVIOUS
      <4>2. a \in Nat /\ d \in Nat /\ x \in Nat /\ c = a + x /\ y = c + d /\ z = a + d
        BY <1>2, <2>2, <2>3, <3>1, <3>2, <4>1
      <4>3. z = y - x
        BY ONLY <4>2
      <4> QED BY <4>1, <4>3
    <3> QED BY <2>1, <3>1, <3>3
  <2>6. CASE j + 1 > r
    <3>1. ~ (j < r) /\ ~ (j + 1 < r) /\ j + 1 \in r .. m - 1
      BY <1>1, <2>1, <2>6
    <3>2. t[j + 1] = s[j + 1 + 1]
      BY <3>1
    <3>3. g[j + 1] = f[j + 1 + 1] - x
      <4>1. PICK c, d, y, z :
              c = f[j + 1] /\ d = s[j + 1 + 1] /\ y = f[j + 1 + 1] /\ z = g[j + 1]
        OBVIOUS
      <4>2. c \in Nat /\ d \in Nat /\ y = c + d /\ z = c - x + d
        BY <2>2, <2>3, <3>1, <3>2, <4>1
      <4>3. z = y - x
        BY <1>2, <4>2
      <4> QED BY <4>1, <4>3
    <3> QED BY <2>1, <3>1, <3>3
  <2> QED BY <2>1, <2>4, <2>5, <2>6
<1> HIDE DEF T
<1>7. \A j \in 0 .. b : j \in T
  BY <1>1, <1>5, <1>6, InductTo
<1> QED BY <1>1, <1>2, <1>7 DEF T

IsKept(f, n, s, keep) ==
  f = [i \in 0 .. n |-> IF i = 0 THEN <<>>
                        ELSE IF keep[i] THEN Append(f[i - 1], s[i]) ELSE f[i - 1]]

LEMMA KeptExists ==
  ASSUME NEW S, NEW n \in Nat, NEW s \in [1 .. n -> S], NEW keep
  PROVE  \E f : IsKept(f, n, s, keep)
<1>1. PICK g : g = [i \in 1 .. n |-> [x \in Seq(S) |-> IF keep[i] THEN Append(x, s[i]) ELSE x]]
  OBVIOUS
<1>2. PICK A, a : A = Seq(S) /\ a = <<>>
  OBVIOUS
<1>3. g \in [1 .. n -> [A -> A]] /\ a \in A
  BY <1>1, <1>2
<1>4. Recursions(n, A, a, g) # {}
  BY <1>3, RecursionExists
<1>5. PICK f \in [0 .. n -> Seq(S)] : f[0] = <<>> /\ \A i \in 1 .. n : f[i] = g[i][f[i - 1]]
  BY <1>2, <1>4 DEF Recursions
<1>6. \A i \in 0 .. n : f[i] = IF i = 0 THEN <<>>
                               ELSE IF keep[i] THEN Append(f[i - 1], s[i]) ELSE f[i - 1]
  <2> SUFFICES ASSUME NEW i \in 0 .. n, i # 0
               PROVE  f[i] = IF keep[i] THEN Append(f[i - 1], s[i]) ELSE f[i - 1]
    BY <1>5
  <2>1. i \in 1 .. n /\ f[i - 1] \in Seq(S)
    OBVIOUS
  <2> QED BY <1>1, <1>5, <2>1
<1>7. f = [i \in 0 .. n |-> f[i]]
  OBVIOUS
<1>8. IsKept(f, n, s, keep)
  BY <1>6, <1>7 DEF IsKept
<1> QED BY <1>8

(* A selection is the last of the sequences that the positions give.       *)
Selections(S, s, n, keep) ==
  {f \in [0 .. n -> Seq(S)] :
     /\ f[0] = <<>>
     /\ \A i \in 1 .. n : f[i] = IF keep[i] THEN Append(f[i - 1], s[i]) ELSE f[i - 1]
     /\ Select(s, keep) = f[n]}

LEMMA SelectSteps ==
  ASSUME NEW S, NEW s \in Seq(S), NEW keep, NEW n, n = Len(s)
  PROVE  Selections(S, s, n, keep) # {}
<1>1. Len(s) \in Nat /\ s \in [1 .. Len(s) -> S]
  OBVIOUS
<1>2. \E f : IsKept(f, Len(s), s, keep)
  BY <1>1, KeptExists
<1>3. PICK f : IsKept(f, Len(s), s, keep) /\ Select(s, keep) = f[Len(s)]
  BY <1>2 DEF Select, IsKept
<1>4. f[0] = <<>> /\ \A i \in 1 .. Len(s) : f[i] = IF keep[i] THEN Append(f[i - 1], s[i]) ELSE f[i - 1]
  <2>1. 0 \in 0 .. Len(s) /\ \A i \in 1 .. Len(s) : i \in 0 .. Len(s) /\ i # 0
    BY <1>1
  <2> QED BY <1>3, <2>1 DEF IsKept
<1> DEFINE T == {k \in 0 .. Len(s) : f[k] \in Seq(S)}
<1>5. 0 \in T
  <2>1. 0 \in 0 .. Len(s) /\ <<>> \in Seq(S)
    BY <1>1
  <2> QED BY <1>4, <2>1
<1>6. ASSUME NEW i \in 0 .. Len(s) - 1, i \in T PROVE i + 1 \in T
  <2>1. i + 1 \in 1 .. Len(s) /\ i + 1 - 1 = i /\ s[i + 1] \in S /\ f[i] \in Seq(S)
    BY <1>1, <1>6
  <2>2. f[i + 1] = IF keep[i + 1] THEN Append(f[i], s[i + 1]) ELSE f[i]
    BY <1>4, <2>1
  <2>3. i + 1 \in 0 .. Len(s) /\ Append(f[i], s[i + 1]) \in Seq(S)
    BY <2>1, AppendProperties
  <2>4. f[i + 1] \in Seq(S)
    BY <2>1, <2>2, <2>3
  <2> QED BY <2>3, <2>4
<1> HIDE DEF T
<1>7. \A i \in 0 .. Len(s) : i \in T
  BY <1>1, <1>5, <1>6, InductTo
<1>8. f \in [0 .. Len(s) -> Seq(S)]
  <2>1. f = [i \in 0 .. Len(s) |-> f[i]]
    BY <1>3 DEF IsKept
  <2> QED BY <1>7, <2>1 DEF T
<1> QED BY <1>3, <1>4, <1>8 DEF Selections

LEMMA SelectType ==
  ASSUME NEW S, NEW s \in Seq(S), NEW keep
  PROVE  Select(s, keep) \in Seq(S)
<1>1. PICK n : n = Len(s)
  OBVIOUS
<1>2. PICK f \in Selections(S, s, n, keep) : TRUE
  BY <1>1, SelectSteps
<1>3. f \in [0 .. n -> Seq(S)] /\ Select(s, keep) = f[n] /\ n \in 0 .. n
  BY <1>1 DEF Selections
<1> QED BY <1>3

(* What is kept of a sequence goes on when the sequence does.              *)
LEMMA SelectAppend ==
  ASSUME NEW S, NEW s \in Seq(S), NEW x \in S, NEW keep, NEW also,
         \A i \in 1 .. Len(s) : also[i] = keep[i]
  PROVE  Select(Append(s, x), also) =
           IF also[Len(s) + 1] THEN Append(Select(s, keep), x) ELSE Select(s, keep)
<1>1. PICK n : n = Len(s) /\ n \in Nat
  OBVIOUS
<1>2. PICK t : t = Append(s, x)
  OBVIOUS
<1>3. /\ t \in Seq(S) /\ Len(t) = n + 1 /\ t[n + 1] = x
      /\ \A i \in 1 .. n : t[i] = s[i]
  BY <1>1, <1>2, AppendProperties
<1>4. PICK f \in [0 .. n -> Seq(S)] :
        /\ f[0] = <<>>
        /\ \A i \in 1 .. n : f[i] = IF keep[i] THEN Append(f[i - 1], s[i]) ELSE f[i - 1]
        /\ Select(s, keep) = f[n]
  <2>1. Selections(S, s, n, keep) # {}
    BY <1>1, SelectSteps
  <2> QED BY <2>1 DEF Selections
<1>5. PICK h \in [0 .. n + 1 -> Seq(S)] :
        /\ h[0] = <<>>
        /\ \A i \in 1 .. n + 1 : h[i] = IF also[i] THEN Append(h[i - 1], t[i]) ELSE h[i - 1]
        /\ Select(t, also) = h[n + 1]
  <2>1. Selections(S, t, n + 1, also) # {}
    BY <1>1, <1>3, SelectSteps
  <2> QED BY <2>1 DEF Selections
<1> DEFINE T == {i \in 0 .. n : h[i] = f[i]}
<1>6. 0 \in T
  BY <1>1, <1>4, <1>5
<1>7. ASSUME NEW i \in 0 .. n - 1, i \in T PROVE i + 1 \in T
  <2>1. i + 1 \in 1 .. n /\ i + 1 \in 1 .. n + 1 /\ i + 1 - 1 = i /\ h[i] = f[i]
    BY <1>1, <1>7
  <2>2. h[i + 1] = f[i + 1]
    <3>1. f[i + 1] = IF keep[i + 1] THEN Append(f[i], s[i + 1]) ELSE f[i]
      BY <1>4, <2>1
    <3>2. h[i + 1] = IF also[i + 1] THEN Append(h[i], t[i + 1]) ELSE h[i]
      BY <1>5, <2>1
    <3>3. also[i + 1] = keep[i + 1] /\ t[i + 1] = s[i + 1]
      BY <1>1, <1>3, <2>1
    <3> QED BY <2>1, <3>1, <3>2, <3>3
  <2> QED BY <2>1, <2>2
<1> HIDE DEF T
<1>8. \A i \in 0 .. n : i \in T
  BY <1>1, <1>6, <1>7, InductTo
<1>9. h[n] = f[n] /\ n + 1 - 1 = n /\ n + 1 \in 1 .. n + 1
  BY <1>1, <1>8 DEF T
<1> QED BY <1>1, <1>2, <1>3, <1>4, <1>5, <1>9

(* What is not kept can as well be removed.                                *)
LEMMA RemoveAtProperties ==
  ASSUME NEW S, NEW s \in Seq(S), NEW r \in 1 .. Len(s)
  PROVE  /\ RemoveAt(s, r) \in Seq(S)
         /\ Len(RemoveAt(s, r)) = Len(s) - 1
         /\ \A i \in 1 .. Len(s) - 1 : RemoveAt(s, r)[i] = IF i < r THEN s[i] ELSE s[i + 1]
<1>1. PICK a, b : a = SubSeq(s, 1, r - 1) /\ b = SubSeq(s, r + 1, Len(s))
  OBVIOUS
<1>2. /\ Len(s) \in Nat /\ r \in Int /\ r - 1 \in Int /\ r + 1 \in Int /\ 1 \in Int
      /\ \A i \in 1 .. r - 1 : s[i] \in S
      /\ \A i \in r + 1 .. Len(s) : s[i] \in S
  BY ElementOfSeq
<1>3. a \in Seq(S) /\ Len(a) = r - 1 /\ \A i \in 1 .. r - 1 : a[i] = s[i]
  <2>1. /\ a \in Seq(S) /\ Len(a) = IF 1 <= r - 1 THEN r - 1 - 1 + 1 ELSE 0
        /\ \A i \in 1 .. r - 1 - 1 + 1 : a[i] = s[1 + i - 1]
    BY <1>1, <1>2, SubSeqProperties
  <2> QED BY <1>2, <2>1
<1>4. b \in Seq(S) /\ Len(b) = Len(s) - r /\ \A i \in 1 .. Len(s) - r : b[i] = s[r + i]
  <2>1. /\ b \in Seq(S) /\ Len(b) = IF r + 1 <= Len(s) THEN Len(s) - (r + 1) + 1 ELSE 0
        /\ \A i \in 1 .. Len(s) - (r + 1) + 1 : b[i] = s[r + 1 + i - 1]
    BY <1>1, <1>2, SubSeqProperties
  <2> QED BY <1>2, <2>1
<1>5. /\ a \o b \in Seq(S) /\ Len(a \o b) = Len(a) + Len(b)
      /\ \A i \in 1 .. Len(a) + Len(b) : (a \o b)[i] = IF i <= Len(a) THEN a[i] ELSE b[i - Len(a)]
  BY <1>3, <1>4, ConcatProperties
<1>6. RemoveAt(s, r) = a \o b
  BY <1>1 DEF RemoveAt
<1>7. ASSUME NEW i \in 1 .. Len(s) - 1 PROVE (a \o b)[i] = IF i < r THEN s[i] ELSE s[i + 1]
  <2>1. i \in 1 .. Len(a) + Len(b) /\ (i < r <=> i <= Len(a))
    BY <1>2, <1>3, <1>4
  <2>2. CASE i < r
    BY <1>2, <1>3, <1>5, <2>1, <2>2
  <2>3. CASE ~ (i < r)
    <3>1. i - Len(a) \in 1 .. Len(s) - r /\ r + (i - Len(a)) = i + 1
      BY <1>2, <1>3, <2>3
    <3> QED BY <1>4, <1>5, <2>1, <2>3, <3>1
  <2> QED BY <2>2, <2>3
<1>8. Len(a) + Len(b) = Len(s) - 1
  BY <1>2, <1>3, <1>4
<1> QED BY <1>5, <1>6, <1>7, <1>8

LEMMA SelectRemoveAt ==
  ASSUME NEW S, NEW s \in Seq(S), NEW r \in 1 .. Len(s), NEW keep, NEW also,
         ~keep[r],
         \A i \in 1 .. Len(s) - 1 : also[i] = IF i < r THEN keep[i] ELSE keep[i + 1]
  PROVE  Select(RemoveAt(s, r), also) = Select(s, keep)
<1>1. PICK n : n = Len(s) /\ n \in Nat
  OBVIOUS
<1>2. PICK t : t = RemoveAt(s, r)
  OBVIOUS
<1>3. t \in Seq(S) /\ Len(t) = n - 1 /\ \A i \in 1 .. n - 1 : t[i] = IF i < r THEN s[i] ELSE s[i + 1]
  BY <1>1, <1>2, RemoveAtProperties
<1>4. PICK f \in [0 .. n -> Seq(S)] :
        /\ f[0] = <<>>
        /\ \A i \in 1 .. n : f[i] = IF keep[i] THEN Append(f[i - 1], s[i]) ELSE f[i - 1]
        /\ Select(s, keep) = f[n]
  <2>1. Selections(S, s, n, keep) # {}
    BY <1>1, SelectSteps
  <2> QED BY <2>1 DEF Selections
<1>5. PICK h \in [0 .. n - 1 -> Seq(S)] :
        /\ h[0] = <<>>
        /\ \A i \in 1 .. n - 1 : h[i] = IF also[i] THEN Append(h[i - 1], t[i]) ELSE h[i - 1]
        /\ Select(t, also) = h[n - 1]
  <2>1. Selections(S, t, n - 1, also) # {}
    BY <1>1, <1>3, SelectSteps
  <2> QED BY <2>1 DEF Selections
<1>6. f[r] = f[r - 1] /\ r \in 1 .. n
  BY <1>1, <1>4
<1> DEFINE T == {i \in 0 .. n - 1 : h[i] = IF i < r THEN f[i] ELSE f[i + 1]}
<1>7. 0 \in T
  BY <1>1, <1>4, <1>5, <1>6
<1>8. ASSUME NEW i \in 0 .. n - 1 - 1, i \in T PROVE i + 1 \in T
  <2>1. /\ i + 1 \in 1 .. n - 1 /\ i + 1 - 1 = i /\ h[i] = IF i < r THEN f[i] ELSE f[i + 1]
        /\ i + 2 \in 1 .. n /\ i + 2 - 1 = i + 1 /\ i + 1 \in 1 .. n /\ i + 1 + 1 = i + 2
    BY <1>1, <1>8
  <2>2. h[i + 1] = IF also[i + 1] THEN Append(h[i], t[i + 1]) ELSE h[i]
    BY <1>5, <2>1
  <2>3. CASE i + 1 < r
    <3>1. h[i] = f[i] /\ also[i + 1] = keep[i + 1] /\ t[i + 1] = s[i + 1]
      BY <1>1, <1>3, <2>1, <2>3
    <3>2. f[i + 1] = IF keep[i + 1] THEN Append(f[i], s[i + 1]) ELSE f[i]
      BY <1>4, <2>1
    <3> QED BY <1>1, <2>1, <2>2, <2>3, <3>1, <3>2
  <2>4. CASE ~ (i + 1 < r)
    <3>1. h[i] = f[i + 1]
      <4>1. CASE i < r
        <5>1. r = i + 1
          BY <2>4, <4>1
        <5> QED BY <1>6, <2>1, <4>1, <5>1
      <4>2. CASE ~ (i < r)
        BY <2>1, <4>2
      <4> QED BY <4>1, <4>2
    <3>2. also[i + 1] = keep[i + 2] /\ t[i + 1] = s[i + 2]
      BY <1>1, <1>3, <2>1, <2>4
    <3>3. f[i + 2] = IF keep[i + 2] THEN Append(f[i + 1], s[i + 2]) ELSE f[i + 1]
      BY <1>4, <2>1
    <3> QED BY <1>1, <2>1, <2>2, <2>4, <3>1, <3>2, <3>3
  <2> QED BY <2>3, <2>4
<1> HIDE DEF T
<1>9. \A i \in 0 .. n - 1 : i \in T
  <2>1. PICK b : b = n - 1 /\ b \in Nat
    BY <1>1, <1>6
  <2>2. \A i \in 0 .. b - 1 : i \in T => i + 1 \in T
    BY <1>8, <2>1
  <2> QED BY <1>7, <2>1, <2>2, InductTo
<1>10. h[n - 1] = f[n]
  <2>1. h[n - 1] = IF n - 1 < r THEN f[n - 1] ELSE f[n - 1 + 1]
    BY <1>1, <1>6, <1>9 DEF T
  <2>2. n - 1 + 1 = n /\ (n - 1 < r => r = n)
    BY <1>1, <1>6
  <2> QED BY <1>6, <2>1, <2>2
<1> QED BY <1>2, <1>4, <1>5, <1>10

(* If only the first are kept, they are what is kept.                      *)
LEMMA SelectFirst ==
  ASSUME NEW S, NEW s \in Seq(S), NEW keep, NEW m \in 0 .. Len(s),
         \A i \in 1 .. Len(s) : keep[i] <=> i <= m
  PROVE  Select(s, keep) = SubSeq(s, 1, m)
<1>1. PICK n : n = Len(s) /\ n \in Nat
  OBVIOUS
<1>2. PICK f \in [0 .. n -> Seq(S)] :
        /\ f[0] = <<>>
        /\ \A i \in 1 .. n : f[i] = IF keep[i] THEN Append(f[i - 1], s[i]) ELSE f[i - 1]
        /\ Select(s, keep) = f[n]
  <2>1. Selections(S, s, n, keep) # {}
    BY <1>1, SelectSteps
  <2> QED BY <2>1 DEF Selections
<1> DEFINE T == {i \in 0 .. n : f[i] = SubSeq(s, 1, IF i < m THEN i ELSE m)}
<1>3. 0 \in T
  <2>1. SubSeq(s, 1, 0) = <<>> /\ (IF 0 < m THEN 0 ELSE m) = 0
    BY <1>1, SubSeqEmpty
  <2> QED BY <1>1, <1>2, <2>1
<1>4. ASSUME NEW i \in 0 .. n - 1, i \in T PROVE i + 1 \in T
  <2>1. /\ i + 1 \in 1 .. n /\ i + 1 - 1 = i
        /\ f[i + 1] = IF keep[i + 1] THEN Append(f[i], s[i + 1]) ELSE f[i]
    BY <1>1, <1>2
  <2>2. CASE i + 1 <= m
    <3>1. f[i] = SubSeq(s, 1, i) /\ (IF i + 1 < m THEN i + 1 ELSE m) = i + 1 /\ keep[i + 1]
      BY <1>1, <1>4, <2>1, <2>2
    <3>2. SubSeq(s, 1, i + 1) = SubSeq(s, 1, i + 1 - 1) \o <<s[i + 1]>>
      <4>1. 1 \in 1 .. Len(s) /\ i + 1 \in 1 .. Len(s)
        BY <1>1, <2>1
      <4> QED BY <4>1, SubSeqRecursiveSecond
    <3>3. Append(f[i], s[i + 1]) = f[i] \o <<s[i + 1]>>
      <4>1. f[i] \in Seq(S) /\ s[i + 1] \in S
        BY <1>1, <2>1, ElementOfSeq
      <4> QED BY <4>1, AppendIsConcat
    <3>4. f[i + 1] = SubSeq(s, 1, i + 1)
      BY <2>1, <3>1, <3>2, <3>3
    <3> QED BY <2>1, <3>1, <3>4
  <2>3. CASE ~ (i + 1 <= m)
    <3>1. (IF i + 1 < m THEN i + 1 ELSE m) = m /\ (IF i < m THEN i ELSE m) = m /\ ~keep[i + 1]
      BY <1>1, <2>1, <2>3
    <3> QED BY <1>4, <2>1, <3>1
  <2> QED BY <2>2, <2>3
<1> HIDE DEF T
<1>5. \A i \in 0 .. n : i \in T
  BY <1>1, <1>3, <1>4, InductTo
<1>6. f[n] = SubSeq(s, 1, IF n < m THEN n ELSE m) /\ ~ (n < m)
  BY <1>1, <1>5 DEF T
<1> QED BY <1>2, <1>6

LEMMA SubSeqFirst ==
  ASSUME NEW S, NEW s \in Seq(S), NEW m \in 0 .. Len(s)
  PROVE  SubSeq(s, 1, m) = [i \in 1 .. m |-> s[i]]
<1>1. \A i \in 1 .. m : s[i] \in S
  <2>1. \A i \in 1 .. m : i \in 1 .. Len(s)
    OBVIOUS
  <2> QED BY <2>1, ElementOfSeq
<1>2. PICK u : u = SubSeq(s, 1, m)
  OBVIOUS
<1>3. m \in Int /\ 1 \in Int
  OBVIOUS
<1>4. u \in Seq(S) /\ Len(u) = (IF 1 <= m THEN m - 1 + 1 ELSE 0) /\ \A i \in 1 .. m - 1 + 1 : u[i] = s[1 + i - 1]
  BY <1>1, <1>2, <1>3, SubSeqProperties
<1>5. Len(u) = m /\ \A i \in 1 .. m : i \in 1 .. m - 1 + 1 /\ 1 + i - 1 = i
  BY <1>4
<1>6. u = [i \in 1 .. m |-> u[i]]
  BY <1>4, <1>5
<1>7. \A i \in 1 .. m : u[i] = s[i]
  BY <1>4, <1>5
<1> QED BY <1>2, <1>6, <1>7

(* All of it is kept.                                                      *)
LEMMA SelectAll ==
  ASSUME NEW S, NEW s \in Seq(S), NEW keep, \A i \in 1 .. Len(s) : keep[i]
  PROVE  Select(s, keep) = s
<1>1. PICK n : n = Len(s) /\ n \in Nat
  OBVIOUS
<1>2. n \in 0 .. n /\ \A i \in 1 .. n : keep[i] <=> i <= n
  BY <1>1
<1>3. Select(s, keep) = SubSeq(s, 1, n)
  BY <1>1, <1>2, SelectFirst
<1>4. SubSeq(s, 1, n) = s
  <2>1. s = [i \in 1 .. n |-> s[i]]
    BY <1>1
  <2>2. SubSeq(s, 1, n) = [i \in 1 .. n |-> s[i]]
    BY <1>1, SubSeqFirst
  <2> QED BY <2>1, <2>2
<1> QED BY <1>3, <1>4

(* What is kept is of the kind of what was to be kept.                     *)
LEMMA SelectElements ==
  ASSUME NEW S, NEW s \in Seq(S), NEW keep, NEW Good,
         \A i \in 1 .. Len(s) : keep[i] => s[i] \in Good
  PROVE  Select(s, keep) \in Seq(Good)
<1>1. PICK n : n = Len(s) /\ n \in Nat
  OBVIOUS
<1>2. PICK f \in [0 .. n -> Seq(S)] :
        /\ f[0] = <<>>
        /\ \A i \in 1 .. n : f[i] = IF keep[i] THEN Append(f[i - 1], s[i]) ELSE f[i - 1]
        /\ Select(s, keep) = f[n]
  <2>1. Selections(S, s, n, keep) # {}
    BY <1>1, SelectSteps
  <2> QED BY <2>1 DEF Selections
<1> DEFINE T == {i \in 0 .. n : f[i] \in Seq(Good)}
<1>3. 0 \in T
  BY <1>1, <1>2
<1>4. ASSUME NEW i \in 0 .. n - 1, i \in T PROVE i + 1 \in T
  <2>1. /\ i + 1 \in 1 .. n /\ i + 1 - 1 = i
        /\ f[i + 1] = IF keep[i + 1] THEN Append(f[i], s[i + 1]) ELSE f[i]
        /\ f[i] \in Seq(Good)
    BY <1>1, <1>2, <1>4
  <2>2. CASE keep[i + 1]
    <3>1. s[i + 1] \in Good
      BY <1>1, <2>1, <2>2
    <3>2. Append(f[i], s[i + 1]) \in Seq(Good)
      BY <2>1, <3>1, AppendProperties
    <3>3. f[i + 1] \in Seq(Good) /\ i + 1 \in 0 .. n
      BY <1>1, <2>1, <2>2, <3>2
    <3> QED BY <3>3
  <2>3. CASE ~keep[i + 1]
    BY <2>1, <2>3
  <2> QED BY <2>2, <2>3
<1> HIDE DEF T
<1>5. \A i \in 0 .. n : i \in T
  BY <1>1, <1>3, <1>4, InductTo
<1>6. f[n] \in Seq(Good)
  BY <1>1, <1>5 DEF T
<1> QED BY <1>2, <1>6

(* The elements of t that are in Good.                                     *)
KeptIn(t, Good) == Select(t, [i \in DOMAIN t |-> t[i] \in Good])

(* Keeping some of what is kept.                                           *)
LEMMA SelectTwice ==
  ASSUME NEW S, NEW s \in Seq(S), NEW keep, NEW both, NEW Good,
         \A i \in 1 .. Len(s) : both[i] <=> keep[i] /\ s[i] \in Good
  PROVE  KeptIn(Select(s, keep), Good) = Select(s, both)
<1> DEFINE Kept(t) == Select(t, [k \in DOMAIN t |-> t[k] \in Good])
<1>1. PICK n : n = Len(s) /\ n \in Nat
  OBVIOUS
<1>2. PICK f \in [0 .. n -> Seq(S)] :
        /\ f[0] = <<>>
        /\ \A i \in 1 .. n : f[i] = IF keep[i] THEN Append(f[i - 1], s[i]) ELSE f[i - 1]
        /\ Select(s, keep) = f[n]
  <2>1. Selections(S, s, n, keep) # {}
    BY <1>1, SelectSteps
  <2> QED BY <2>1 DEF Selections
<1>3. PICK h \in [0 .. n -> Seq(S)] :
        /\ h[0] = <<>>
        /\ \A i \in 1 .. n : h[i] = IF both[i] THEN Append(h[i - 1], s[i]) ELSE h[i - 1]
        /\ Select(s, both) = h[n]
  <2>1. Selections(S, s, n, both) # {}
    BY <1>1, SelectSteps
  <2> QED BY <2>1 DEF Selections
<1>4. ASSUME NEW t \in Seq(S), NEW x \in S
      PROVE  Kept(Append(t, x)) = IF x \in Good THEN Append(Kept(t), x) ELSE Kept(t)
  <2>1. PICK u : u = Append(t, x)
    OBVIOUS
  <2>2. /\ u \in Seq(S) /\ Len(u) = Len(t) + 1 /\ u[Len(t) + 1] = x /\ Len(t) \in Nat
        /\ \A i \in 1 .. Len(t) : u[i] = t[i]
        /\ DOMAIN u = 1 .. Len(t) + 1 /\ DOMAIN t = 1 .. Len(t)
    BY <2>1, AppendProperties
  <2>3. PICK g, l : /\ g = [k \in DOMAIN t |-> t[k] \in Good]
                    /\ l = [k \in DOMAIN u |-> u[k] \in Good]
    OBVIOUS
  <2>4. /\ \A i \in 1 .. Len(t) : l[i] = g[i]
        /\ l[Len(t) + 1] = (x \in Good)
    BY <2>2, <2>3
  <2>5. Select(Append(t, x), l) = IF l[Len(t) + 1] THEN Append(Select(t, g), x) ELSE Select(t, g)
    BY <2>4, SelectAppend
  <2> QED BY <2>1, <2>3, <2>4, <2>5
<1>5. Kept(<<>>) = <<>>
  <2>1. PICK g : g = [k \in DOMAIN <<>> |-> <<>>[k] \in Good]
    OBVIOUS
  <2>2. Select(<<>>, g) \in Seq({})
    <3>1. PICK t : t = <<>> /\ t \in Seq(S) /\ Len(t) = 0
      BY EmptySeq
    <3>2. \A i \in 1 .. Len(t) : g[i] => t[i] \in {}
      BY <3>1
    <3> QED BY <3>1, <3>2, SelectElements
  <2>3. \A q \in Seq({}) : q = <<>>
    <3> SUFFICES ASSUME NEW q \in Seq({}), q # <<>> PROVE FALSE
      OBVIOUS
    <3>1. 1 \in 1 .. Len(q)
      BY EmptySeq
    <3>2. q[1] \in {}
      BY <3>1, ElementOfSeq
    <3> QED BY <3>2
  <2> QED BY <2>1, <2>2, <2>3
<1> HIDE DEF Kept
<1> DEFINE T == {i \in 0 .. n : Kept(f[i]) = h[i]}
<1>6. 0 \in T
  BY <1>1, <1>2, <1>3, <1>5
<1>7. ASSUME NEW i \in 0 .. n - 1, i \in T PROVE i + 1 \in T
  <2>1. /\ i + 1 \in 1 .. n /\ i + 1 - 1 = i /\ f[i] \in Seq(S) /\ Kept(f[i]) = h[i]
        /\ i + 1 \in 1 .. Len(s) /\ i + 1 \in 0 .. n
    BY <1>1, <1>7
  <2>2. /\ f[i + 1] = IF keep[i + 1] THEN Append(f[i], s[i + 1]) ELSE f[i]
        /\ h[i + 1] = IF both[i + 1] THEN Append(h[i], s[i + 1]) ELSE h[i]
    BY <1>2, <1>3, <2>1
  <2>3. s[i + 1] \in S /\ (both[i + 1] <=> keep[i + 1] /\ s[i + 1] \in Good)
    BY <2>1, ElementOfSeq
  <2>4. Kept(Append(f[i], s[i + 1])) = IF s[i + 1] \in Good THEN Append(Kept(f[i]), s[i + 1]) ELSE Kept(f[i])
    BY <1>4, <2>1, <2>3
  <2>5. Kept(f[i + 1]) = h[i + 1]
    BY <2>1, <2>2, <2>3, <2>4
  <2> QED BY <2>1, <2>5
<1> HIDE DEF T
<1>8. \A i \in 0 .. n : i \in T
  BY <1>1, <1>6, <1>7, InductTo
<1>9. Kept(f[n]) = h[n]
  BY <1>1, <1>8 DEF T
<1> QED BY <1>2, <1>3, <1>9 DEF Kept, KeptIn

(* Sequences one after the other are a sequence.                           *)
IsFlat(f, n, seqs) == f = [i \in 1 .. n |-> IF i = 1 THEN seqs[i] ELSE f[i - 1] \o seqs[i]]

LEMMA FlatExists ==
  ASSUME NEW S, NEW n \in Nat, NEW seqs \in [1 .. n -> Seq(S)]
  PROVE  \E f : IsFlat(f, n, seqs)
<1>1. PICK g : g = [i \in 1 .. n |-> [x \in Seq(S) |-> x \o seqs[i]]]
  OBVIOUS
<1>2. PICK A, a : A = Seq(S) /\ a = <<>>
  OBVIOUS
<1>3. g \in [1 .. n -> [A -> A]] /\ a \in A
  BY <1>1, <1>2
<1>4. Recursions(n, A, a, g) # {}
  BY <1>3, RecursionExists
<1>5. PICK f \in [0 .. n -> Seq(S)] : f[0] = <<>> /\ \A i \in 1 .. n : f[i] = g[i][f[i - 1]]
  BY <1>2, <1>4 DEF Recursions
<1>6. PICK h : h = [i \in 1 .. n |-> f[i]]
  OBVIOUS
<1>7. \A i \in 1 .. n : h[i] = IF i = 1 THEN seqs[i] ELSE h[i - 1] \o seqs[i]
  <2> SUFFICES ASSUME NEW i \in 1 .. n
               PROVE  h[i] = IF i = 1 THEN seqs[i] ELSE h[i - 1] \o seqs[i]
    OBVIOUS
  <2>1. h[i] = f[i - 1] \o seqs[i] /\ f[i - 1] \in Seq(S) /\ seqs[i] \in Seq(S)
    <3>1. f[i - 1] \in Seq(S) /\ h[i] = g[i][f[i - 1]]
      BY <1>5, <1>6, SMTT(30)
    <3> QED BY <1>1, <3>1
  <2>2. CASE i = 1
    <3>1. f[i - 1] = <<>>
      BY <1>5, <2>2
    <3>2. <<>> \o seqs[i] = seqs[i]
      BY <2>1, ConcatEmptySeq
    <3> QED BY <2>1, <2>2, <3>1, <3>2
  <2>3. CASE i # 1
    <3>1. i - 1 \in 1 .. n
      BY <2>3
    <3>2. h[i - 1] = f[i - 1]
      BY <1>6, <3>1
    <3> QED BY <2>1, <2>3, <3>2
  <2> QED BY <2>2, <2>3
<1>8. IsFlat(h, n, seqs)
  <2>1. h = [i \in 1 .. n |-> h[i]]
    BY <1>6
  <2> QED BY <1>7, <2>1 DEF IsFlat
<1> QED BY <1>8

LEMMA FlattenType ==
  ASSUME NEW S, NEW seqs \in Seq(Seq(S))
  PROVE  FlattenSeq(seqs) \in Seq(S)
<1>1. PICK n : n = Len(seqs) /\ n \in Nat
  OBVIOUS
<1>2. seqs \in [1 .. n -> Seq(S)]
  BY <1>1
<1>3. CASE n = 0
  <2>1. seqs = <<>>
    BY <1>1, <1>3, EmptySeq
  <2> QED BY <1>1, <1>3, <2>1 DEF FlattenSeq
<1>4. CASE n # 0
  <2>1. \E f : IsFlat(f, n, seqs)
    BY <1>1, <1>2, FlatExists
  <2>2. PICK f : IsFlat(f, n, seqs) /\ FlattenSeq(seqs) = f[n]
    BY <1>1, <1>4, <2>1 DEF IsFlat, FlattenSeq
  <2>3. \A i \in 1 .. n : f[i] = IF i = 1 THEN seqs[i] ELSE f[i - 1] \o seqs[i]
    BY <2>2 DEF IsFlat
  <2> DEFINE T == {i \in 0 .. n : i # 0 => f[i] \in Seq(S)}
  <2>4. 0 \in T
    BY <1>1
  <2>5. ASSUME NEW i \in 0 .. n - 1, i \in T PROVE i + 1 \in T
    <3>1. /\ i + 1 \in 1 .. n /\ i + 1 \in 0 .. n /\ i + 1 - 1 = i /\ seqs[i + 1] \in Seq(S)
          /\ f[i + 1] = IF i + 1 = 1 THEN seqs[i + 1] ELSE f[i] \o seqs[i + 1]
          /\ i # 0 => f[i] \in Seq(S)
      <4>1. i + 1 \in 1 .. n /\ i + 1 \in 0 .. n /\ i + 1 - 1 = i
        BY <1>1
      <4> QED BY <1>2, <2>3, <2>5, <4>1
    <3>2. f[i + 1] \in Seq(S)
      <4>1. CASE i = 0
        BY <3>1, <4>1
      <4>2. CASE i # 0
        <5>1. f[i] \o seqs[i + 1] \in Seq(S)
          BY <3>1, <4>2, ConcatProperties
        <5>2. i + 1 # 1
          BY <4>2
        <5> QED BY <3>1, <5>1, <5>2
      <4> QED BY <4>1, <4>2
    <3> QED BY <3>1, <3>2
  <2> HIDE DEF T
  <2>6. \A i \in 0 .. n : i \in T
    BY <1>1, <2>4, <2>5, InductTo
  <2>7. f[n] \in Seq(S)
    BY <1>1, <1>4, <2>6 DEF T
  <2> QED BY <2>2, <2>7
<1> QED BY <1>3, <1>4

(* A sequence without its first element.                                   *)
LEMMA TailIs ==
  ASSUME NEW S, NEW s \in Seq(S), Len(s) # 0
  PROVE  /\ Tail(s) \in Seq(S) /\ Len(s) - 1 \in Nat /\ Len(Tail(s)) = Len(s) - 1
         /\ \A i \in 1 .. Len(s) - 1 : Tail(s)[i] = s[i + 1]
OBVIOUS

-----------------------------------------------------------------------------
(***************************************************************************)
(* hw4: the inductive invariant                                            *)
(***************************************************************************)
Node == [name : Name, address : 0 .. BYTE_SIZE, size : {1, 4, 8}]

HeapType ==
  /\ nodes \in Seq(Node)
  /\ now \in 0 .. BYTE_SIZE /\ total_size = now
  /\ memory \in [1 .. BYTE_SIZE + 1 -> Nat]
  /\ stored \in Seq(Seq(Nat)) /\ Len(stored) = Len(nodes)

(* Where the values lie: each right behind the one before, the last one    *)
(* right before now.                                                       *)
Placed ==
  /\ Len(nodes) = 0 => now = 0
  /\ \A i \in 1 .. Len(nodes) :
       /\ i = 1 => nodes[i].address = 0
       /\ i = Len(nodes) => nodes[i].address + nodes[i].size = now
       /\ nodes[i].address + nodes[i].size <= now
       /\ \A j \in 1 .. Len(nodes) :
            /\ i < j => nodes[i].address + nodes[i].size <= nodes[j].address
            /\ j = i + 1 => nodes[j].address = nodes[i].address + nodes[i].size

Kept ==
  \A i \in 1 .. Len(nodes) :
    /\ Len(stored[i]) = nodes[i].size
    /\ \A k \in 1 .. nodes[i].size : memory[nodes[i].address + k] = stored[i][k]

HeapInv == HeapType /\ Placed /\ Kept

JobType ==
  job \in {Idle} \cup [op : {"struct"}, name : Name, left : Nat]
                 \cup [op : {"remove"}, name : Name]

(* The members of a struct that is being read are the last nodes.          *)
StructLast ==
  job.op = "struct" =>
    \E m \in 0 .. Len(nodes) : \A i \in 1 .. Len(nodes) : nodes[i].name # job.name <=> i <= m

IInv == HeapInv /\ JobType /\ StructLast
-----------------------------------------------------------------------------
(***************************************************************************)
(* hw4: the operators of the model                                         *)
(***************************************************************************)
LEMMA ValueType ==
  ASSUME NEW n \in Nat, NEW member \in Nat, NEW size \in Nat
  PROVE  Value(n, member, size) \in Seq(Nat) /\ Len(Value(n, member, size)) = size
BY DEF Value

LEMMA PutProperties ==
  ASSUME NEW b \in Nat, NEW m \in [1 .. b -> Nat], NEW at \in Nat, NEW bytes \in Seq(Nat)
  PROVE  /\ Put(m, at, bytes) \in [1 .. b -> Nat]
         /\ \A k \in 1 .. Len(bytes) : at + k <= b => Put(m, at, bytes)[at + k] = bytes[k]
         /\ \A p \in 1 .. b : p <= at \/ at + Len(bytes) < p => Put(m, at, bytes)[p] = m[p]
<1>1. Len(bytes) \in Nat /\ \A p \in (at + 1) .. (at + Len(bytes)) : bytes[p - at] \in Nat
  <2> SUFFICES ASSUME NEW p \in (at + 1) .. (at + Len(bytes)) PROVE bytes[p - at] \in Nat
    OBVIOUS
  <2>1. p - at \in 1 .. Len(bytes)
    OBVIOUS
  <2> QED BY <2>1, ElementOfSeq
<1>2. ASSUME NEW k \in 1 .. Len(bytes), at + k <= b PROVE Put(m, at, bytes)[at + k] = bytes[k]
  <2>1. at + k \in 1 .. b /\ at + k \in (at + 1) .. (at + Len(bytes)) /\ at + k - at = k
    BY <1>1, <1>2
  <2> QED BY <2>1 DEF Put
<1>3. ASSUME NEW p \in 1 .. b, p <= at \/ at + Len(bytes) < p PROVE Put(m, at, bytes)[p] = m[p]
  <2>1. ~ (p \in (at + 1) .. (at + Len(bytes)))
    BY <1>1, <1>3
  <2> QED BY <2>1 DEF Put
<1>4. Put(m, at, bytes) \in [1 .. b -> Nat]
  BY <1>1 DEF Put
<1> QED BY <1>2, <1>3, <1>4

(* findNode finds the first node of the name.                              *)
LEMMA FindNodeProperties ==
  ASSUME NEW n, nodes \in Seq(Node), Found(n)
  PROVE  FindNode(n) \in 1 .. Len(nodes) /\ nodes[FindNode(n)].name = n
<1> DEFINE T == {i \in 1 .. Len(nodes) : nodes[i].name = n}
<1>1. T \in SUBSET Nat /\ T # {} /\ DOMAIN nodes = 1 .. Len(nodes)
  BY DEF Found
<1>2. PICK i \in T : \A k \in T : i <= k
  <2> HIDE DEF T
  <2> QED BY <1>1, Least
<1>3. nodes[i].name = n /\ \A k \in 1 .. i - 1 : nodes[k].name # n
  BY <1>2
<1> QED BY <1>1, <1>2, <1>3 DEF FindNode

(* getSizeBeforeMe computes the address.                                   *)
LEMMA SizeBeforeMeIs ==
  ASSUME HeapInv
  PROVE  /\ \A i \in 1 .. Len(nodes) : SizeBeforeMe(i) = nodes[i].address
         /\ SizeBeforeMe(Len(nodes) + 1) = now
<1>1. PICK n : n = Len(nodes) /\ n \in Nat
  BY DEF HeapInv, HeapType
<1>2. PICK s : s = [i \in DOMAIN nodes |-> nodes[i].size]
  OBVIOUS
<1>3. DOMAIN nodes = 1 .. n /\ \A i \in 1 .. n : nodes[i] \in Node
  BY <1>1, ElementOfSeq DEF HeapInv, HeapType
<1>4. s \in Seq(Nat) /\ Len(s) = n /\ \A i \in 1 .. n : s[i] = nodes[i].size
  BY <1>1, <1>2, <1>3 DEF Node
<1>5. PICK f : f = PrefixSums(s)
  OBVIOUS
<1>6. f[0] = 0 /\ \A i \in 1 .. n : f[i] = f[i - 1] + s[i]
  BY <1>4, <1>5, PrefixSumsProperties
<1> DEFINE T == {k \in 0 .. n : IF k = n THEN f[k] = now ELSE f[k] = nodes[k + 1].address}
<1>7. 0 \in T
  BY <1>1, <1>6 DEF HeapInv, Placed
<1>8. ASSUME NEW k \in 0 .. n - 1, k \in T PROVE k + 1 \in T
  <2>1. /\ k + 1 \in 1 .. n /\ k + 1 \in 0 .. n /\ k + 1 - 1 = k /\ f[k] = nodes[k + 1].address
        /\ f[k + 1] = f[k] + nodes[k + 1].size
    BY <1>1, <1>4, <1>6, <1>8
  <2>2. CASE k + 1 = n
    <3>1. nodes[k + 1].address + nodes[k + 1].size = now
      BY <1>1, <2>1, <2>2 DEF HeapInv, Placed
    <3> QED BY <2>1, <2>2, <3>1
  <2>3. CASE k + 1 # n
    <3>1. k + 1 + 1 \in 1 .. n
      BY <1>1, <2>1, <2>3
    <3>2. nodes[k + 1 + 1].address = nodes[k + 1].address + nodes[k + 1].size
      BY <1>1, <2>1, <3>1 DEF HeapInv, Placed
    <3> QED BY <2>1, <2>3, <3>2
  <2> QED BY <2>2, <2>3
<1> HIDE DEF T
<1>9. \A k \in 0 .. n : k \in T
  BY <1>1, <1>7, <1>8, InductTo
<1>10. \A i \in 1 .. n : f[i - 1] = nodes[i].address
  <2> SUFFICES ASSUME NEW i \in 1 .. n PROVE f[i - 1] = nodes[i].address
    OBVIOUS
  <2>1. i - 1 \in 0 .. n /\ i - 1 # n /\ i - 1 + 1 = i
    BY <1>1
  <2>2. i - 1 \in T
    BY <1>9, <2>1
  <2> QED BY <2>1, <2>2 DEF T
<1>11. f[n] = now /\ n + 1 - 1 = n
  BY <1>1, <1>9 DEF T
<1> QED BY <1>1, <1>2, <1>5, <1>10, <1>11 DEF SizeBeforeMe
-----------------------------------------------------------------------------
(***************************************************************************)
(* hw4: the steps keep the invariant                                       *)
(***************************************************************************)

(* A value goes behind the others.                                         *)
LEMMA InsertInv ==
  ASSUME HeapInv, NEW n \in Name, NEW member \in Nat, NEW size \in {1, 4, 8},
         IsItValid(size), Insert(n, member, size)
  PROVE  HeapInv'
<1>1. PICK len : len = Len(nodes) /\ len \in Nat
  BY DEF HeapInv, HeapType
<1>2. PICK v : v = Value(n, member, size)
  OBVIOUS
<1>3. v \in Seq(Nat) /\ Len(v) = size
  <2>1. n \in Nat /\ size \in Nat
    BY NameAssumption
  <2> QED BY <1>2, <2>1, ValueType
<1>4. PICK r : r = [name |-> n, address |-> now, size |-> size]
  OBVIOUS
<1>5. /\ now \in Nat /\ now + size \in 0 .. BYTE_SIZE /\ BYTE_SIZE + 1 \in Nat
      /\ now \in 0 .. BYTE_SIZE /\ size \in Nat /\ BYTE_SIZE \in Nat
  BY ByteSizeAssumption DEF IsItValid, HeapInv, HeapType
<1>6. r \in Node
  BY <1>4, <1>5 DEF Node
<1>7. /\ nodes' \in Seq(Node) /\ Len(nodes') = len + 1 /\ nodes'[len + 1] = r
      /\ \A i \in 1 .. len : nodes'[i] = nodes[i]
  BY <1>1, <1>4, <1>6, AppendProperties DEF Insert, HeapInv, HeapType
<1>8. /\ stored' \in Seq(Seq(Nat)) /\ Len(stored') = len + 1 /\ stored'[len + 1] = v
      /\ \A i \in 1 .. len : stored'[i] = stored[i]
  BY <1>1, <1>2, <1>3, AppendProperties DEF Insert, HeapInv, HeapType
<1>9. /\ memory' \in [1 .. BYTE_SIZE + 1 -> Nat]
      /\ \A k \in 1 .. size : memory'[now + k] = v[k]
      /\ \A p \in 1 .. now : memory'[p] = memory[p]
  <2>1. memory' = Put(memory, now, v)
    BY <1>2 DEF Insert
  <2>2. PICK b, m, at : b = BYTE_SIZE + 1 /\ m = memory /\ at = now
    OBVIOUS
  <2>3. b \in Nat /\ m \in [1 .. b -> Nat] /\ at \in Nat /\ at + size < b
    BY <1>5, <2>2 DEF HeapInv, HeapType
  <2>4. /\ Put(m, at, v) \in [1 .. b -> Nat]
        /\ \A k \in 1 .. Len(v) : at + k <= b => Put(m, at, v)[at + k] = v[k]
        /\ \A p \in 1 .. b : p <= at \/ at + Len(v) < p => Put(m, at, v)[p] = m[p]
    BY <1>3, <2>3, PutProperties
  <2>5. \A k \in 1 .. size : Put(m, at, v)[at + k] = v[k]
    BY <1>3, <1>5, <2>3, <2>4
  <2>6. \A p \in 1 .. at : Put(m, at, v)[p] = m[p]
    BY <1>5, <2>3, <2>4
  <2> QED BY <2>1, <2>2, <2>4, <2>5, <2>6
<1>10. HeapType'
  <2>1. now' \in 0 .. BYTE_SIZE /\ total_size' = now'
    BY <1>5 DEF Insert, HeapInv, HeapType
  <2> QED BY <1>7, <1>8, <1>9, <2>1 DEF HeapType
<1>11. \A i \in 1 .. len : nodes[i] \in Node
  BY <1>1, ElementOfSeq DEF HeapInv, HeapType
<1>12. Placed'
  <2>1. now' = now + size /\ r.address = now /\ r.size = size
    BY <1>4 DEF Insert
  <2>2. ASSUME NEW i \in 1 .. len + 1
        PROVE  /\ i = 1 => nodes'[i].address = 0
               /\ i = len + 1 => nodes'[i].address + nodes'[i].size = now'
               /\ nodes'[i].address + nodes'[i].size <= now'
               /\ \A j \in 1 .. len + 1 :
                    /\ i < j => nodes'[i].address + nodes'[i].size <= nodes'[j].address
                    /\ j = i + 1 => nodes'[j].address = nodes'[i].address + nodes'[i].size
    <3>1. CASE i = len + 1
      <4>1. i = 1 => now = 0
        BY <1>1, <3>1 DEF HeapInv, Placed
      <4>2. nodes'[i].address = now /\ nodes'[i].size = size
        BY <1>7, <2>1, <3>1
      <4>3. \A j \in 1 .. len + 1 : ~ (i < j) /\ j # i + 1
        BY <1>1, <3>1
      <4> QED BY <1>5, <2>1, <4>1, <4>2, <4>3
    <3>2. CASE i # len + 1
      <4>1. i \in 1 .. len /\ nodes'[i] = nodes[i] /\ nodes[i].address \in Nat /\ nodes[i].size \in Nat
        BY <1>1, <1>7, <1>11, <3>2 DEF Node
      <4>2. /\ i = 1 => nodes[i].address = 0
            /\ i = len => nodes[i].address + nodes[i].size = now
            /\ nodes[i].address + nodes[i].size <= now
            /\ \A j \in 1 .. len :
                 /\ i < j => nodes[i].address + nodes[i].size <= nodes[j].address
                 /\ j = i + 1 => nodes[j].address = nodes[i].address + nodes[i].size
        BY <1>1, <4>1 DEF HeapInv, Placed
      <4>3. nodes[i].address + nodes[i].size <= now + size
        BY <1>5, <4>1, <4>2
      <4>4. ASSUME NEW j \in 1 .. len + 1
            PROVE  /\ i < j => nodes'[i].address + nodes'[i].size <= nodes'[j].address
                   /\ j = i + 1 => nodes'[j].address = nodes'[i].address + nodes'[i].size
        <5>1. CASE j \in 1 .. len
          BY <1>7, <4>1, <4>2, <5>1
        <5>2. CASE j = len + 1
          <6>1. nodes'[j].address = now /\ (j = i + 1 => i = len)
            BY <1>1, <1>7, <2>1, <5>2
          <6> QED BY <4>1, <4>2, <6>1
        <5> QED BY <1>1, <5>1, <5>2
      <4> QED BY <2>1, <3>2, <4>1, <4>2, <4>3, <4>4
    <3> QED BY <3>1, <3>2
  <2>3. Len(nodes') # 0
    BY <1>1, <1>7
  <2> QED BY <1>7, <2>2, <2>3 DEF Placed
<1>13. Kept'
  <2> SUFFICES ASSUME NEW i \in 1 .. len + 1
               PROVE  /\ Len(stored'[i]) = nodes'[i].size
                      /\ \A k \in 1 .. nodes'[i].size : memory'[nodes'[i].address + k] = stored'[i][k]
    BY <1>7 DEF Kept
  <2>1. CASE i = len + 1
    <3>1. nodes'[i].address = now /\ nodes'[i].size = size /\ stored'[i] = v
      BY <1>4, <1>7, <1>8, <2>1
    <3> QED BY <1>3, <1>9, <3>1
  <2>2. CASE i # len + 1
    <3>1. /\ i \in 1 .. len /\ nodes'[i] = nodes[i] /\ stored'[i] = stored[i]
          /\ nodes[i].address \in Nat /\ nodes[i].size \in Nat
      <4>1. i \in 1 .. len
        BY <1>1, <2>2
      <4>2. nodes[i] \in Node
        BY <1>11, <4>1
      <4>3. nodes[i].address \in Nat /\ nodes[i].size \in Nat
        BY <4>2 DEF Node
      <4> QED BY <1>7, <1>8, <4>1, <4>3
    <3>2. /\ Len(stored[i]) = nodes[i].size
          /\ \A k \in 1 .. nodes[i].size : memory[nodes[i].address + k] = stored[i][k]
          /\ nodes[i].address + nodes[i].size <= now
      BY <1>1, <3>1 DEF HeapInv, Kept, Placed
    <3>3. ASSUME NEW k \in 1 .. nodes[i].size
          PROVE  memory'[nodes[i].address + k] = memory[nodes[i].address + k]
      <4>1. PICK a, s : a = nodes[i].address /\ s = nodes[i].size
        OBVIOUS
      <4>2. a \in Nat /\ s \in Nat /\ k \in 1 .. s /\ a + s <= now
        BY <3>1, <3>2, <4>1
      <4>3. a + k \in 1 .. now
        BY <1>5, <4>2
      <4> QED BY <1>9, <4>1, <4>3
    <3> QED BY <3>1, <3>2, <3>3
  <2> QED BY <2>1, <2>2
<1> QED BY <1>10, <1>12, <1>13 DEF HeapInv

(* Removing closes the gap in the memory.                                  *)
LEMMA CompactedProperties ==
  ASSUME HeapInv, NEW r \in 1 .. Len(nodes)
  PROVE  /\ Compacted(r) \in [1 .. BYTE_SIZE + 1 -> Nat]
         /\ \A p \in 1 .. nodes[r].address : Compacted(r)[p] = memory[p]
         /\ r # Len(nodes) =>
              \A p \in nodes[r].address + 1 .. BYTE_SIZE :
                p + nodes[r].size <= BYTE_SIZE => Compacted(r)[p] = memory[p + nodes[r].size]
<1>1. PICK a, size, b : a = nodes[r].address /\ size = nodes[r].size /\ b = BYTE_SIZE
  OBVIOUS
<1>2. /\ a \in Nat /\ size \in {1, 4, 8} /\ b \in Nat /\ b + 1 \in Nat /\ a + size <= b
      /\ memory \in [1 .. b + 1 -> Nat]
  <2>1. nodes[r] \in Node /\ nodes[r].address + nodes[r].size <= now /\ now \in 0 .. BYTE_SIZE
    BY ElementOfSeq DEF HeapInv, HeapType, Placed
  <2> QED BY <1>1, <2>1, ByteSizeAssumption, SMTT(30) DEF Node, HeapInv, HeapType
<1>5. ASSUME NEW s \in Seq(Nat)
      PROVE  /\ Put(memory, a, s) \in [1 .. b + 1 -> Nat]
             /\ \A k \in 1 .. Len(s) : a + k <= b + 1 => Put(memory, a, s)[a + k] = s[k]
             /\ \A p \in 1 .. b + 1 : p <= a => Put(memory, a, s)[p] = memory[p]
  <2>1. PICK c, m : c = b + 1 /\ m = memory /\ c \in Nat /\ m \in [1 .. c -> Nat]
    BY <1>2
  <2>2. /\ Put(m, a, s) \in [1 .. c -> Nat]
        /\ \A k \in 1 .. Len(s) : a + k <= c => Put(m, a, s)[a + k] = s[k]
        /\ \A p \in 1 .. c : p <= a \/ a + Len(s) < p => Put(m, a, s)[p] = m[p]
    <3>1. a \in Nat /\ c \in Nat /\ m \in [1 .. c -> Nat]
      BY <1>2, <2>1
    <3> QED BY <3>1, PutProperties
  <2> QED BY <2>1, <2>2
<1>3. CASE r = Len(nodes)
  <2>1. PICK z : z = [i \in 1 .. size |-> 0]
    OBVIOUS
  <2>2. z \in Seq(Nat)
    BY <1>2, <2>1
  <2>3. Compacted(r) = Put(memory, a, z)
    BY <1>1, <1>3, <2>1 DEF Compacted
  <2>4. Put(memory, a, z) \in [1 .. b + 1 -> Nat] /\ \A p \in 1 .. a : Put(memory, a, z)[p] = memory[p]
    BY <1>2, <1>5, <2>2
  <2> QED BY <1>1, <1>3, <2>3, <2>4
<1>4. CASE r # Len(nodes)
  <2>1. /\ r + 1 \in 1 .. Len(nodes)
        /\ SizeBeforeMe(r) = a /\ nodes[r + 1].address = a + size
    <3>1. r + 1 \in 1 .. Len(nodes)
      BY <1>4 DEF HeapInv, HeapType
    <3> QED BY <1>1, <3>1, SizeBeforeMeIs DEF HeapInv, Placed
  <2>2. PICK s : s = [i \in 1 .. b |-> IF i <= b - (a + size) THEN memory[a + size + i] ELSE 0]
    OBVIOUS
  <2>3. s \in Seq(Nat) /\ Len(s) = b
    <3>1. \A i \in 1 .. b : (IF i <= b - (a + size) THEN memory[a + size + i] ELSE 0) \in Nat
      BY <1>2
    <3> QED BY <1>2, <2>2, <3>1
  <2>4. PICK t : t = SubSeq(s, 1, b - a)
    OBVIOUS
  <2>5. t \in Seq(Nat) /\ Len(t) = b - a /\ \A i \in 1 .. b - a : t[i] = s[i]
    <3>1. 1 \in Int /\ b - a \in Int /\ \A i \in 1 .. b - a : s[i] \in Nat
      BY <1>2, <2>3, ElementOfSeq
    <3>2. /\ t \in Seq(Nat) /\ Len(t) = IF 1 <= b - a THEN b - a - 1 + 1 ELSE 0
          /\ \A i \in 1 .. b - a - 1 + 1 : t[i] = s[1 + i - 1]
      BY <2>4, <3>1, SubSeqProperties
    <3> QED BY <1>2, <3>2, SMTT(30)
  <2>6. Compacted(r) = Put(memory, a, t)
    BY <1>1, <1>4, <2>1, <2>2, <2>4 DEF Compacted
  <2>7. /\ Put(memory, a, t) \in [1 .. b + 1 -> Nat]
        /\ \A k \in 1 .. b - a : Put(memory, a, t)[a + k] = t[k]
        /\ \A p \in 1 .. a : Put(memory, a, t)[p] = memory[p]
    <3>1. /\ Put(memory, a, t) \in [1 .. b + 1 -> Nat]
          /\ \A k \in 1 .. Len(t) : a + k <= b + 1 => Put(memory, a, t)[a + k] = t[k]
          /\ \A p \in 1 .. b + 1 : p <= a => Put(memory, a, t)[p] = memory[p]
      BY <1>5, <2>5
    <3>2. /\ \A k \in 1 .. b - a : k \in 1 .. Len(t) /\ a + k <= b + 1
          /\ \A p \in 1 .. a : p \in 1 .. b + 1 /\ p <= a
      BY <1>2, <2>5
    <3> QED BY <3>1, <3>2
  <2>8. \A p \in 1 .. a : Compacted(r)[p] = memory[p]
    BY <2>6, <2>7
  <2>9. ASSUME NEW p \in a + 1 .. b, p + size <= b PROVE Compacted(r)[p] = memory[p + size]
    <3>1. PICK k : k = p - a
      OBVIOUS
    <3>2. /\ k \in 1 .. b - a /\ k \in 1 .. b /\ k <= b - (a + size)
          /\ a + k = p /\ a + size + k = p + size
      BY <1>2, <2>9, <3>1
    <3>3. Put(memory, a, t)[a + k] = s[k]
      BY <2>5, <2>7, <3>2
    <3>4. s[k] = memory[a + size + k]
      BY <2>2, <3>2
    <3> QED BY <2>6, <3>2, <3>3, <3>4
  <2> QED BY <1>1, <2>6, <2>7, <2>8, <2>9
<1> QED BY <1>3, <1>4

LEMMA UnlinkedProperties ==
  ASSUME HeapInv, NEW r \in 1 .. Len(nodes)
  PROVE  /\ Unlinked(r) \in Seq(Node)
         /\ Len(Unlinked(r)) = Len(nodes) - 1
         /\ \A i \in 1 .. Len(nodes) - 1 :
              /\ i < r => Unlinked(r)[i] = nodes[i]
              /\ r <= i => /\ Unlinked(r)[i].name = nodes[i + 1].name
                           /\ Unlinked(r)[i].size = nodes[i + 1].size
                           /\ Unlinked(r)[i].address = nodes[i + 1].address - nodes[r].size
<1>1. PICK n, size : n = Len(nodes) /\ size = nodes[r].size
  OBVIOUS
<1>2. n \in Nat /\ DOMAIN nodes = 1 .. n /\ r \in 1 .. n /\ \A i \in 1 .. n : nodes[i] \in Node
  BY <1>1, ElementOfSeq DEF HeapInv, HeapType
<1>3. size \in {1, 4, 8}
  BY <1>1, <1>2 DEF Node
<1>4. PICK S : S = [name : Name, address : Int, size : {1, 4, 8}]
  OBVIOUS
<1>5. PICK m : m = Moved(r)
  OBVIOUS
<1>6. /\ m = [i \in 1 .. n |-> m[i]]
      /\ \A i \in 1 .. n : m[i] = IF i >= r /\ r # n THEN [nodes[i] EXCEPT !.address = @ - size] ELSE nodes[i]
  BY <1>1, <1>2, <1>5 DEF Moved
<1>7. ASSUME NEW i \in 1 .. n
      PROVE  /\ m[i] \in S
             /\ i < r => m[i] = nodes[i]
             /\ r < i => m[i] = [name |-> nodes[i].name, address |-> nodes[i].address - size,
                                 size |-> nodes[i].size]
  <2>1. nodes[i] \in Node
    BY <1>2
  <2>2. CASE i >= r /\ r # n
    <3>1. m[i] = [name |-> nodes[i].name, address |-> nodes[i].address - size, size |-> nodes[i].size]
      BY <1>6, <2>1, <2>2 DEF Node
    <3>2. nodes[i].name \in Name /\ nodes[i].address - size \in Int /\ nodes[i].size \in {1, 4, 8}
      BY <1>3, <2>1 DEF Node
    <3>3. ~ (i < r)
      BY <1>2, <2>2
    <3> QED BY <1>4, <3>1, <3>2, <3>3
  <2>3. CASE ~ (i >= r /\ r # n)
    <3>1. m[i] = nodes[i] /\ ~ (r < i)
      BY <1>2, <1>6, <2>3
    <3> QED BY <1>4, <2>1, <3>1 DEF Node
  <2> QED BY <2>2, <2>3
<1>8. m \in Seq(S) /\ Len(m) = n
  <2>1. m \in [1 .. n -> S]
    BY <1>6, <1>7
  <2> QED BY <1>2, <2>1
<1>9. PICK u : u = Unlinked(r)
  OBVIOUS
<1>10. u \in Seq(S) /\ Len(u) = n - 1 /\ \A i \in 1 .. n - 1 : u[i] = IF i < r THEN m[i] ELSE m[i + 1]
  BY <1>2, <1>5, <1>8, <1>9, RemoveAtProperties DEF Unlinked
<1>11. ASSUME NEW i \in 1 .. n - 1
       PROVE  /\ u[i] \in Node
              /\ i < r => u[i] = nodes[i]
              /\ r <= i => /\ u[i].name = nodes[i + 1].name
                           /\ u[i].size = nodes[i + 1].size
                           /\ u[i].address = nodes[i + 1].address - size
  <2>1. i \in 1 .. n /\ i + 1 \in 1 .. n
    BY <1>2
  <2>2. CASE i < r
    <3>1. u[i] = m[i]
      BY <1>10, <2>2
    <3>2. m[i] = nodes[i]
      BY <1>7, <2>1, <2>2
    <3>3. ~ (r <= i)
      BY <1>2, <2>1, <2>2
    <3> QED BY <1>2, <2>1, <3>1, <3>2, <3>3
  <2>3. CASE ~ (i < r)
    <3>1. r < i + 1 /\ r <= i
      BY <1>2, <2>3
    <3>2. u[i] = [name |-> nodes[i + 1].name, address |-> nodes[i + 1].address - size,
                  size |-> nodes[i + 1].size]
      BY <1>7, <1>10, <2>1, <2>3, <3>1
    <3>3. nodes[r].address + size <= nodes[i + 1].address
      BY <1>1, <2>1, <3>1 DEF HeapInv, Placed
    <3>4. nodes[i + 1] \in Node /\ nodes[r] \in Node
      BY <1>2, <2>1
    <3>5. /\ nodes[i + 1].name \in Name /\ nodes[i + 1].size \in {1, 4, 8}
          /\ nodes[i + 1].address - size \in 0 .. BYTE_SIZE
      BY <1>3, <3>3, <3>4, ByteSizeAssumption DEF Node
    <3> QED BY <2>3, <3>2, <3>5 DEF Node
  <2> QED BY <2>2, <2>3
<1>12. u \in Seq(Node)
  <2>1. n - 1 \in Nat
    BY <1>2
  <2> QED BY <1>10, <1>11, <2>1
<1> QED BY <1>1, <1>9, <1>10, <1>11, <1>12

(* One turn of removeAsName leaves the other values in place.              *)
LEMMA RemoveInv ==
  ASSUME HeapInv, NEW r \in 1 .. Len(nodes),
         memory' = Compacted(r), nodes' = Unlinked(r), stored' = RemoveAt(stored, r),
         now' = now - nodes[r].size, total_size' = total_size - nodes[r].size
  PROVE  HeapInv'
<1>1. PICK n, a, size : n = Len(nodes) /\ a = nodes[r].address /\ size = nodes[r].size
  OBVIOUS
<1>2. /\ n \in Nat /\ r \in 1 .. n /\ \A i \in 1 .. n : nodes[i] \in Node
      /\ now \in Nat /\ now <= BYTE_SIZE /\ BYTE_SIZE \in Nat
  BY <1>1, ElementOfSeq, ByteSizeAssumption DEF HeapInv, HeapType
<1>3. a \in Nat /\ size \in {1, 4, 8} /\ a + size <= now
  BY <1>1, <1>2 DEF Node, HeapInv, Placed
<1>4. PICK ad, sz : /\ ad = [i \in 1 .. n |-> nodes[i].address]
                    /\ sz = [i \in 1 .. n |-> nodes[i].size]
  OBVIOUS
<1>5. ad \in [1 .. n -> Nat] /\ sz \in [1 .. n -> Nat] /\ ad[r] = a /\ sz[r] = size
  BY <1>1, <1>2, <1>4 DEF Node
<1>6. \A i \in 1 .. n :
        /\ i = 1 => ad[i] = 0
        /\ i = n => ad[i] + sz[i] = now
        /\ ad[i] + sz[i] <= now
        /\ \A j \in 1 .. n : /\ i < j => ad[i] + sz[i] <= ad[j]
                             /\ j = i + 1 => ad[j] = ad[i] + sz[i]
  BY <1>1, <1>4 DEF HeapInv, Placed
<1>7. /\ nodes' \in Seq(Node) /\ Len(nodes') = n - 1
      /\ \A i \in 1 .. n - 1 :
           /\ i < r => nodes'[i].address = ad[i] /\ nodes'[i].size = sz[i]
           /\ r <= i => nodes'[i].address = ad[i + 1] - size /\ nodes'[i].size = sz[i + 1]
  <2>1. \A i \in 1 .. n - 1 : i \in 1 .. n /\ i + 1 \in 1 .. n
    BY <1>2
  <2> QED BY <1>1, <1>4, <2>1, UnlinkedProperties
<1>8. /\ stored' \in Seq(Seq(Nat)) /\ Len(stored') = n - 1
      /\ \A i \in 1 .. n - 1 : stored'[i] = IF i < r THEN stored[i] ELSE stored[i + 1]
  <2>1. stored \in Seq(Seq(Nat)) /\ Len(stored) = n
    BY <1>1 DEF HeapInv, HeapType
  <2> QED BY <1>2, <2>1, RemoveAtProperties
<1>9. HeapType'
  <2>1. now' \in 0 .. BYTE_SIZE /\ total_size' = now'
    <3>1. now' = now - size /\ total_size' = now - size
      BY <1>1 DEF HeapInv, HeapType
    <3>2. now - size \in 0 .. BYTE_SIZE
      BY <1>2, <1>3
    <3> QED BY <3>1, <3>2
  <2>2. memory' \in [1 .. BYTE_SIZE + 1 -> Nat]
    BY CompactedProperties
  <2> QED BY <1>7, <1>8, <2>1, <2>2 DEF HeapType
<1>10. Placed'
  <2>1. now' = now - size
    BY <1>1
  <2>2. n - 1 = 0 => now - size = 0
    <3> SUFFICES ASSUME n - 1 = 0 PROVE now - size = 0
      OBVIOUS
    <3>1. r = 1 /\ r = n
      BY <1>2
    <3> QED BY <1>2, <1>3, <1>5, <1>6, <3>1
  <2>3. PICK ae, se : /\ ae = [i \in 1 .. n - 1 |-> IF i < r THEN ad[i] ELSE ad[i + 1] - size]
                      /\ se = [i \in 1 .. n - 1 |-> IF i < r THEN sz[i] ELSE sz[i + 1]]
    OBVIOUS
  <2>4. \A i \in 1 .. n - 1 : nodes'[i].address = ae[i] /\ nodes'[i].size = se[i]
    <3> SUFFICES ASSUME NEW i \in 1 .. n - 1 PROVE nodes'[i].address = ae[i] /\ nodes'[i].size = se[i]
      OBVIOUS
    <3>1. i < r \/ r <= i
      BY <1>2
    <3> QED BY <1>7, <2>3, <3>1
  <2>5. ASSUME NEW i \in 1 .. n - 1
        PROVE  /\ i = 1 => ae[i] = 0
               /\ i = n - 1 => ae[i] + se[i] = now - size
               /\ ae[i] + se[i] <= now - size
    <3>1. i \in 1 .. n /\ i + 1 \in 1 .. n
      BY <1>2
    <3>2. CASE i < r
      <4>1. ae[i] = ad[i] /\ se[i] = sz[i]
        BY <2>3, <3>2
      <4>2. ad[i] + sz[i] <= ad[r] /\ (i = 1 => ad[i] = 0)
        BY <1>2, <1>6, <3>1, <3>2
      <4>3. i = n - 1 => ad[i] + sz[i] = now - size
        <5> SUFFICES ASSUME i = n - 1 PROVE ad[i] + sz[i] = now - size
          OBVIOUS
        <5>1. r = n /\ r = i + 1
          BY <1>2, <3>2
        <5>2. ad[r] = ad[i] + sz[i] /\ ad[r] + sz[r] = now
          BY <1>2, <1>6, <3>1, <5>1
        <5> QED BY <1>2, <1>3, <1>5, <3>1, <5>2, SMTT(30)
      <4>4. ad[i] \in Nat /\ sz[i] \in Nat
        BY <1>5, <3>1
      <4>5. ad[i] + sz[i] <= now - size
        <5>1. PICK x : x = ad[i] + sz[i]
          OBVIOUS
        <5>2. x \in Nat /\ x <= a
          BY <1>5, <4>2, <4>4, <5>1
        <5>3. x <= now - size
          BY <1>2, <1>3, <5>2
        <5> QED BY <5>1, <5>3
      <4> QED BY <4>1, <4>2, <4>3, <4>5
    <3>3. CASE ~ (i < r)
      <4>1. ae[i] = ad[i + 1] - size /\ se[i] = sz[i + 1]
        BY <2>3, <3>3
      <4>2. /\ ad[i + 1] \in Nat /\ sz[i + 1] \in Nat /\ ad[i + 1] + sz[i + 1] <= now
            /\ i + 1 = n => ad[i + 1] + sz[i + 1] = now
        BY <1>5, <1>6, <3>1
      <4>3. i = 1 => ad[i + 1] = size
        <5> SUFFICES ASSUME i = 1 PROVE ad[i + 1] = size
          OBVIOUS
        <5>1. r = 1
          BY <1>2, <3>3
        <5>2. ad[r] = 0 /\ ad[i + 1] = ad[r] + sz[r]
          BY <1>6, <3>1, <5>1
        <5> QED BY <1>3, <1>5, <5>2
      <4>4. PICK x, s : x = ad[i + 1] /\ s = sz[i + 1]
        OBVIOUS
      <4>5. x \in Nat /\ s \in Nat /\ x + s <= now /\ (i + 1 = n => x + s = now) /\ (i = 1 => x = size)
        BY <4>2, <4>3, <4>4
      <4>6. /\ i = 1 => x - size = 0
            /\ i = n - 1 => x - size + s = now - size
            /\ x - size + s <= now - size
        BY <1>2, <1>3, <3>1, <4>5
      <4> QED BY <4>1, <4>4, <4>6
    <3> QED BY <3>2, <3>3
  <2>6. ASSUME NEW i \in 1 .. n - 1, NEW j \in 1 .. n - 1
        PROVE  /\ i < j => ae[i] + se[i] <= ae[j]
               /\ j = i + 1 => ae[j] = ae[i] + se[i]
    <3>1. /\ i \in 1 .. n /\ i + 1 \in 1 .. n /\ j \in 1 .. n /\ j + 1 \in 1 .. n
          /\ ad[i] \in Nat /\ sz[i] \in Nat /\ ad[i + 1] \in Nat /\ sz[i + 1] \in Nat
          /\ ad[j] \in Nat /\ ad[j + 1] \in Nat
      BY <1>2, <1>5
    <3>2. CASE j < r
      <4>1. ae[j] = ad[j] /\ (i < j => i < r) /\ (j = i + 1 => i < r)
        BY <1>2, <2>3, <3>1, <3>2
      <4>2. i < r => ae[i] = ad[i] /\ se[i] = sz[i]
        BY <2>3
      <4> QED BY <1>6, <3>1, <4>1, <4>2
    <3>3. CASE ~ (j < r) /\ i < r
      <4>1. ae[i] = ad[i] /\ se[i] = sz[i] /\ ae[j] = ad[j + 1] - size
        BY <2>3, <3>3
      <4>2. ad[i] + sz[i] <= ad[r] /\ ad[r] + sz[r] <= ad[j + 1]
        BY <1>2, <1>6, <3>1, <3>3
      <4>3. j = i + 1 => ad[j + 1] = ad[i] + sz[i] + size
        <5> SUFFICES ASSUME j = i + 1 PROVE ad[j + 1] = ad[i] + sz[i] + size
          OBVIOUS
        <5>1. r = j
          BY <1>2, <3>1, <3>3
        <5>2. ad[j + 1] = ad[r] + sz[r] /\ ad[r] = ad[i] + sz[i]
          BY <1>6, <3>1, <5>1
        <5> QED BY <1>5, <5>2
      <4>4. PICK x, y : x = ad[i] + sz[i] /\ y = ad[j + 1]
        OBVIOUS
      <4>5. x \in Nat /\ y \in Nat /\ x <= a /\ a + size <= y /\ (j = i + 1 => y = x + size)
        BY <1>5, <3>1, <4>2, <4>3, <4>4
      <4>6. x <= y - size /\ (j = i + 1 => y - size = x)
        BY <1>3, <4>5
      <4> QED BY <4>1, <4>4, <4>6
    <3>4. CASE ~ (j < r) /\ ~ (i < r)
      <4>1. ae[i] = ad[i + 1] - size /\ se[i] = sz[i + 1] /\ ae[j] = ad[j + 1] - size
        BY <2>3, <3>4
      <4>2. /\ i + 1 < j + 1 => ad[i + 1] + sz[i + 1] <= ad[j + 1]
            /\ j + 1 = i + 1 + 1 => ad[j + 1] = ad[i + 1] + sz[i + 1]
        BY <1>6, <3>1
      <4>3. (i < j => i + 1 < j + 1) /\ (j = i + 1 => j + 1 = i + 1 + 1)
        BY <3>1
      <4>4. PICK x, s, y : x = ad[i + 1] /\ s = sz[i + 1] /\ y = ad[j + 1]
        OBVIOUS
      <4>5. /\ x \in Nat /\ s \in Nat /\ y \in Nat
            /\ (i < j => x + s <= y) /\ (j = i + 1 => y = x + s)
        BY <3>1, <4>2, <4>3, <4>4
      <4>6. (i < j => x - size + s <= y - size) /\ (j = i + 1 => y - size = x - size + s)
        BY <1>3, <4>5
      <4> QED BY <4>1, <4>4, <4>6
    <3> QED BY <3>2, <3>3, <3>4
  <2> QED BY <1>7, <2>1, <2>2, <2>4, <2>5, <2>6 DEF Placed
<1>11. Kept'
  <2> SUFFICES ASSUME NEW i \in 1 .. n - 1
               PROVE  /\ Len(stored'[i]) = nodes'[i].size
                      /\ \A k \in 1 .. nodes'[i].size : memory'[nodes'[i].address + k] = stored'[i][k]
    BY <1>7 DEF Kept
  <2>1. \A j \in 1 .. n :
          /\ Len(stored[j]) = sz[j]
          /\ \A k \in 1 .. sz[j] : memory[ad[j] + k] = stored[j][k]
    BY <1>1, <1>4 DEF HeapInv, Kept
  <2>2. /\ i \in 1 .. n /\ i + 1 \in 1 .. n
        /\ ad[i] \in Nat /\ sz[i] \in Nat /\ ad[i + 1] \in Nat /\ sz[i + 1] \in Nat
    BY <1>2, <1>5
  <2>3. /\ \A p \in 1 .. a : memory'[p] = memory[p]
        /\ r # n => \A p \in a + 1 .. BYTE_SIZE :
                      p + size <= BYTE_SIZE => memory'[p] = memory[p + size]
    BY <1>1, CompactedProperties
  <2>4. CASE i < r
    <3>1. nodes'[i].address = ad[i] /\ nodes'[i].size = sz[i] /\ stored'[i] = stored[i]
      BY <1>7, <1>8, <2>4
    <3>2. ad[i] + sz[i] <= a
      BY <1>2, <1>5, <1>6, <2>2, <2>4
    <3>3. ASSUME NEW k \in 1 .. sz[i] PROVE memory'[ad[i] + k] = memory[ad[i] + k]
      <4>1. ad[i] + k \in 1 .. a
        BY <1>3, <2>2, <3>2, SMTT(30)
      <4> QED BY <2>3, <4>1
    <3>4. Len(stored[i]) = sz[i] /\ \A k \in 1 .. sz[i] : memory'[ad[i] + k] = stored[i][k]
      BY <2>1, <2>2, <3>3
    <3> QED BY <3>1, <3>4
  <2>5. CASE ~ (i < r)
    <3>1. r <= i /\ r # n
      BY <1>2, <2>5
    <3>2. /\ nodes'[i].address = ad[i + 1] - size /\ nodes'[i].size = sz[i + 1]
          /\ stored'[i] = stored[i + 1]
      BY <1>7, <1>8, <2>5, <3>1
    <3>3. a + size <= ad[i + 1] /\ ad[i + 1] + sz[i + 1] <= now
      <4>1. r < i + 1
        BY <1>2, <3>1
      <4> QED BY <1>2, <1>5, <1>6, <2>2, <4>1
    <3>4. ASSUME NEW k \in 1 .. sz[i + 1]
          PROVE  memory'[ad[i + 1] - size + k] = memory[ad[i + 1] + k]
      <4>1. PICK p : p = ad[i + 1] - size + k
        OBVIOUS
      <4>2. PICK x, s : x = ad[i + 1] /\ s = sz[i + 1]
        OBVIOUS
      <4>3. x \in Nat /\ s \in Nat /\ k \in 1 .. s /\ a + size <= x /\ x + s <= now /\ p = x - size + k
        BY <2>2, <3>3, <4>1, <4>2
      <4>4. p \in a + 1 .. BYTE_SIZE /\ p + size <= BYTE_SIZE /\ p + size = x + k
        BY <1>2, <1>3, <4>3
      <4> QED BY <2>3, <3>1, <4>1, <4>2, <4>4
    <3>5. /\ Len(stored[i + 1]) = sz[i + 1]
          /\ \A k \in 1 .. sz[i + 1] : memory'[ad[i + 1] - size + k] = stored[i + 1][k]
      BY <2>1, <2>2, <3>4
    <3> QED BY <3>2, <3>5
  <2> QED BY <2>4, <2>5
<1> QED BY <1>9, <1>10, <1>11 DEF HeapInv

(* A member that is refused is written where nothing lies.                 *)
LEMMA RefusedInv ==
  ASSUME HeapInv, NEW bytes \in Seq(Nat), memory' = Put(memory, now, bytes),
         UNCHANGED <<nodes, total_size, now, stored>>
  PROVE  HeapInv'
<1>1. PICK b, m, at : b = BYTE_SIZE + 1 /\ m = memory /\ at = now
  OBVIOUS
<1>2. b \in Nat /\ m \in [1 .. b -> Nat] /\ at \in Nat /\ at <= b
  BY <1>1, ByteSizeAssumption DEF HeapInv, HeapType
<1>3. Put(m, at, bytes) \in [1 .. b -> Nat] /\ \A p \in 1 .. at : Put(m, at, bytes)[p] = m[p]
  <2>1. /\ Put(m, at, bytes) \in [1 .. b -> Nat]
        /\ \A p \in 1 .. b : p <= at \/ at + Len(bytes) < p => Put(m, at, bytes)[p] = m[p]
    BY <1>2, PutProperties
  <2>2. \A p \in 1 .. at : p \in 1 .. b /\ p <= at
    BY <1>2
  <2> QED BY <2>1, <2>2
<1>4. memory' \in [1 .. BYTE_SIZE + 1 -> Nat] /\ \A p \in 1 .. now : memory'[p] = memory[p]
  BY <1>1, <1>3
<1>5. HeapType' /\ Placed'
  BY <1>4 DEF HeapInv, HeapType, Placed
<1>6. Kept'
  <2> SUFFICES ASSUME NEW i \in 1 .. Len(nodes), NEW k \in 1 .. nodes[i].size
               PROVE  memory'[nodes[i].address + k] = memory[nodes[i].address + k]
    BY DEF HeapInv, Kept
  <2>1. PICK a, s : a = nodes[i].address /\ s = nodes[i].size
    OBVIOUS
  <2>2. a \in Nat /\ s \in Nat /\ k \in 1 .. s /\ a + s <= now /\ now \in Nat
    <3>1. nodes[i] \in Node
      BY ElementOfSeq DEF HeapInv, HeapType
    <3> QED BY <2>1, <3>1, <1>1, <1>2 DEF Node, HeapInv, Placed
  <2>3. a + k \in 1 .. now
    BY <2>2
  <2> QED BY <1>4, <2>1, <2>3
<1> QED BY <1>5, <1>6 DEF HeapInv

LEMMA InitInv == Init => IInv
<1> SUFFICES ASSUME Init PROVE IInv
  OBVIOUS
<1>1. nodes = <<>> /\ Len(nodes) = 0 /\ stored = <<>> /\ Len(stored) = 0 /\ now = 0 /\ total_size = 0
  BY DEF Init
<1>2. memory \in [1 .. BYTE_SIZE + 1 -> Nat]
  BY DEF Init
<1>3. nodes \in Seq(Node) /\ stored \in Seq(Seq(Nat)) /\ now \in 0 .. BYTE_SIZE
  BY <1>1, ByteSizeAssumption
<1>4. HeapInv
  BY <1>1, <1>2, <1>3 DEF HeapInv, HeapType, Placed, Kept
<1>5. JobType /\ StructLast
  BY DEF Init, Idle, JobType, StructLast
<1> QED BY <1>4, <1>5 DEF IInv

LEMMA SizeType == \A t \in Type : Size[t] \in {1, 4, 8}
BY TypeAssumption DEF Size

LEMMA StepInv ==
  ASSUME IInv, [Next]_vars
  PROVE  IInv'
<1>1. HeapInv /\ JobType /\ StructLast
  BY DEF IInv
<1>2. UNCHANGED heapVars => HeapInv'
  BY <1>1, ZenonT(60) DEF heapVars, HeapInv, HeapType, Placed, Kept
<1>3. UNCHANGED vars => IInv'
  <2> SUFFICES ASSUME UNCHANGED vars PROVE IInv'
    OBVIOUS
  <2>1. JobType' /\ StructLast'
    BY <1>1 DEF vars, heapVars, JobType, StructLast
  <2> QED BY <1>2, <2>1 DEF vars, IInv
<1>4. ASSUME NEW n \in Name, StartRemoving(n) PROVE JobType' /\ StructLast'
  BY <1>4 DEF StartRemoving, JobType, StructLast
<1>5. ASSUME job' = Idle PROVE JobType' /\ StructLast'
  BY <1>5 DEF Idle, JobType, StructLast
<1>6. Len(nodes) \in Nat
  BY <1>1 DEF HeapInv, HeapType
<1>7. job.op = "struct" => job \in [op : {"struct"}, name : Name, left : Nat]
  BY <1>1 DEF JobType, Idle
<1>8. job.op = "remove" => job \in [op : {"remove"}, name : Name]
  BY <1>1 DEF JobType, Idle
<1>9. ASSUME NEW n \in Name, AlreadyExists(n) PROVE IInv'
  BY <1>3, <1>9 DEF AlreadyExists
<1>10. ASSUME NEW n \in Name, NEW t \in Type, AllocateValue(n, t) PROVE IInv'
  <2>1. HeapInv'
    <3>1. CASE IsItValid(Size[t])
      <4>1. Insert(n, 0, Size[t])
        BY <1>10, <3>1 DEF AllocateValue
      <4>2. PICK s : s = Size[t]
        OBVIOUS
      <4>3. s \in {1, 4, 8} /\ IsItValid(s) /\ Insert(n, 0, s)
        BY <3>1, <4>1, <4>2, SizeType
      <4> QED BY <1>1, <4>3, InsertInv
    <3>2. CASE ~ IsItValid(Size[t])
      BY <1>2, <1>10, <3>2 DEF AllocateValue
    <3> QED BY <3>1, <3>2
  <2>2. job' = Idle
    BY <1>10 DEF AllocateValue
  <2> QED BY <1>5, <2>1, <2>2 DEF IInv
<1>11. ASSUME NEW n \in Name, NEW howMany \in 0 .. MaxMembers, AllocateStruct(n, howMany) PROVE IInv'
  <2>1. HeapInv' /\ nodes' = nodes
    BY <1>2, <1>11 DEF AllocateStruct, heapVars
  <2>2. job' = [op |-> "struct", name |-> n, left |-> howMany] /\ howMany \in Nat
    BY <1>11, MembersAssumption DEF AllocateStruct
  <2>3. JobType'
    BY <2>2 DEF JobType
  <2>4. StructLast'
    <3>1. \A i \in 1 .. Len(nodes) : nodes[i].name # n
      <4>1. DOMAIN nodes = 1 .. Len(nodes)
        BY <1>1 DEF HeapInv, HeapType
      <4> QED BY <1>11, <4>1 DEF AllocateStruct, Found
    <3>2. Len(nodes) \in 0 .. Len(nodes) /\ \A i \in 1 .. Len(nodes) : i <= Len(nodes)
      BY <1>6
    <3> QED BY <2>1, <2>2, <3>1, <3>2 DEF StructLast
  <2> QED BY <2>1, <2>3, <2>4 DEF IInv
<1>12. ASSUME NEW n \in Name, Deallocate(n) PROVE IInv'
  <2>1. HeapInv'
    BY <1>2, <1>12 DEF Deallocate
  <2>2. job' = Idle \/ StartRemoving(n)
    BY <1>12 DEF Deallocate
  <2> QED BY <1>4, <1>5, <2>1, <2>2 DEF IInv
<1>13. ASSUME NEW t \in Type, Member(t) PROVE IInv'
  <2>1. PICK n, left, size : n = job.name /\ left = job.left /\ size = Size[t]
    OBVIOUS
  <2>2. /\ job \in [op : {"struct"}, name : Name, left : Nat]
        /\ n \in Name /\ left \in Nat /\ left > 0 /\ size \in {1, 4, 8}
    BY <1>7, <1>13, <2>1, SizeType DEF Member
  <2>3. CASE IsItValid(Size[t])
    <3>1. Insert(n, left, size) /\ IsItValid(size)
      BY <1>13, <2>1, <2>3 DEF Member
    <3>2. HeapInv'
      BY <1>1, <2>2, <3>1, InsertInv
    <3>3. job' = [op |-> "struct", name |-> n, left |-> left - 1] /\ left - 1 \in Nat
      BY <1>13, <2>1, <2>2, <2>3 DEF Member
    <3>4. JobType'
      BY <2>2, <3>3 DEF JobType
    <3>5. StructLast'
      <4>1. PICK r, len : r = [name |-> n, address |-> now, size |-> size] /\ len = Len(nodes)
        OBVIOUS
      <4>2. nodes' = Append(nodes, r) /\ nodes \in Seq(Node) /\ len \in Nat
        BY <1>1, <1>6, <3>1, <4>1 DEF Insert, HeapInv, HeapType
      <4>3. /\ Len(nodes') = len + 1 /\ nodes'[len + 1] = r
            /\ \A i \in 1 .. len : nodes'[i] = nodes[i]
        BY <4>1, <4>2
      <4>4. PICK m \in 0 .. len : \A i \in 1 .. len : nodes[i].name # n <=> i <= m
        BY <1>1, <1>13, <2>1, <4>1 DEF Member, StructLast
      <4>5. m \in 0 .. len + 1 /\ \A i \in 1 .. len + 1 : nodes'[i].name # n <=> i <= m
        <5>3. m \in 0 .. len + 1
          BY <4>2
        <5> SUFFICES ASSUME NEW i \in 1 .. len + 1 PROVE nodes'[i].name # n <=> i <= m
          BY <5>3
        <5>1. CASE i = len + 1
          BY <4>1, <4>2, <4>3, <5>1
        <5>2. CASE i # len + 1
          <6>1. i \in 1 .. len
            BY <4>2, <5>2
          <6> QED BY <4>3, <4>4, <6>1
        <5> QED BY <5>1, <5>2
      <4> QED BY <3>3, <4>3, <4>5 DEF StructLast
    <3> QED BY <3>2, <3>4, <3>5 DEF IInv
  <2>4. CASE ~ IsItValid(Size[t])
    <3>1. PICK v : v = Value(n, left, size)
      OBVIOUS
    <3>2. v \in Seq(Nat)
      <4>1. n \in Nat /\ size \in Nat
        BY <2>2, NameAssumption
      <4> QED BY <2>2, <3>1, <4>1, ValueType
    <3>3. memory' = Put(memory, now, v) /\ UNCHANGED <<nodes, total_size, now, stored>> /\ StartRemoving(n)
      BY <1>13, <2>1, <2>4, <3>1 DEF Member
    <3>4. HeapInv'
      BY <1>1, <3>2, <3>3, RefusedInv
    <3> QED BY <1>4, <2>2, <3>3, <3>4 DEF IInv
  <2> QED BY <2>3, <2>4
<1>14. ASSUME WrongMember PROVE IInv'
  <2>1. HeapInv' /\ job.name \in Name /\ StartRemoving(job.name)
    BY <1>2, <1>7, <1>14 DEF WrongMember
  <2> QED BY <1>4, <2>1 DEF IInv
<1>15. ASSUME StructDone \/ RemoveDone PROVE IInv'
  BY <1>2, <1>5, <1>15 DEF StructDone, RemoveDone, IInv
<1>16. ASSUME RemoveNode PROVE IInv'
  <2>1. PICK r : r = FindNode(job.name)
    OBVIOUS
  <2>2. r \in 1 .. Len(nodes)
    <3>1. PICK n : n = job.name
      OBVIOUS
    <3>2. Found(n) /\ nodes \in Seq(Node)
      BY <1>1, <1>16, <3>1 DEF RemoveNode, HeapInv, HeapType
    <3> QED BY <2>1, <3>1, <3>2, FindNodeProperties
  <2>3. HeapInv'
    <3>1. /\ memory' = Compacted(r) /\ nodes' = Unlinked(r) /\ stored' = RemoveAt(stored, r)
          /\ now' = now - nodes[r].size /\ total_size' = total_size - nodes[r].size
      BY <1>16, <2>1 DEF RemoveNode
    <3> QED BY <1>1, <2>2, <3>1, RemoveInv
  <2>4. JobType' /\ StructLast'
    BY <1>8, <1>16 DEF RemoveNode, JobType, StructLast
  <2> QED BY <2>3, <2>4 DEF IInv
<1>17. ASSUME WrongType PROVE IInv'
  BY <1>3, <1>17 DEF WrongType
<1> QED
  BY <1>3, <1>9, <1>10, <1>11, <1>12, <1>13, <1>14, <1>15, <1>16, <1>17 DEF Next

LEMMA InvMeans == IInv => TypeOK /\ Contiguous /\ ValuesIntact
<1> SUFFICES ASSUME IInv PROVE TypeOK /\ Contiguous /\ ValuesIntact
  OBVIOUS
<1>1. HeapInv
  BY DEF IInv
<1>2. DOMAIN nodes = 1 .. Len(nodes) /\ \A i \in 1 .. Len(nodes) : nodes[i] \in Node
  BY <1>1, ElementOfSeq DEF HeapInv, HeapType
<1>3. TypeOK
  <2>1. job.op \in {"none", "struct", "remove"}
    BY DEF IInv, JobType, Idle
  <2> QED BY <1>1, <2>1 DEF TypeOK, HeapInv, HeapType, Node
<1>4. Contiguous
  BY <1>1, <1>2, SizeBeforeMeIs DEF Contiguous, HeapInv, HeapType
<1>5. ValuesIntact
  <2> SUFFICES ASSUME NEW i \in 1 .. Len(nodes)
               PROVE  stored[i] = SubSeq(memory, nodes[i].address + 1, nodes[i].address + nodes[i].size)
    BY <1>2 DEF ValuesIntact
  <2>1. PICK a, s, v : a = nodes[i].address /\ s = nodes[i].size /\ v = stored[i]
    OBVIOUS
  <2>2. a \in Nat /\ s \in Nat /\ a + s <= BYTE_SIZE /\ BYTE_SIZE \in Nat
    <3>1. nodes[i] \in Node /\ a + s <= now /\ now \in 0 .. BYTE_SIZE
      BY <1>1, <1>2, <2>1 DEF HeapInv, HeapType, Placed
    <3>2. a \in Nat /\ s \in Nat
      BY <2>1, <3>1 DEF Node
    <3> QED BY <3>1, <3>2, ByteSizeAssumption
  <2>3. v \in Seq(Nat) /\ Len(v) = s /\ \A k \in 1 .. s : memory[a + k] = v[k]
    BY <1>1, <2>1, ElementOfSeq DEF HeapInv, HeapType, Kept
  <2>4. PICK u : u = SubSeq(memory, a + 1, a + s)
    OBVIOUS
  <2>5. u = [k \in 1 .. s |-> memory[a + k]]
    <3>1. a + s - (a + 1) + 1 = s /\ \A k \in 1 .. s : a + 1 + k - 1 = a + k
      BY <2>2
    <3> QED BY <2>2, <2>4, <3>1 DEF SubSeq
  <2>6. v = [k \in 1 .. s |-> v[k]]
    BY <2>3
  <2> QED BY <2>1, <2>3, <2>4, <2>5, <2>6
<1> QED BY <1>3, <1>4, <1>5
-----------------------------------------------------------------------------
(***************************************************************************)
(* The model answer: the inductive invariant                               *)
(***************************************************************************)
Row == [name : AnswerName \cup {0}, size : 0 .. BUFMAX]

(* The sizes in the table, and where each value begins.                    *)
Sizes == [i \in 1 .. BUFMAX |-> info_table[i - 1].size]
Begin == PrefixSums(Sizes)

TableType ==
  /\ mem \in [1 .. BUFMAX -> Nat]
  /\ cur_point \in 0 .. BUFMAX /\ data_index \in 0 .. BUFMAX
  /\ info_table \in [0 .. BUFMAX - 1 -> Row]
  /\ answerStored \in Seq(Seq(Nat)) /\ Len(answerStored) = data_index

Unused ==
  /\ \A i \in 0 .. BUFMAX - 1 : i >= data_index => info_table[i] = [name |-> 0, size |-> 0]
  /\ \A p \in 1 .. BUFMAX : cur_point < p => mem[p] = 0

AnswerKept ==
  /\ Begin[data_index] = cur_point
  /\ \A i \in 1 .. data_index :
       /\ Len(answerStored[i]) = Sizes[i]
       /\ \A k \in 1 .. Sizes[i] : mem[Begin[i - 1] + k] = answerStored[i][k]

(* A name stands for one entry, among those that are not empty.            *)
NamesDiffer ==
  \A i \in 0 .. BUFMAX - 1, j \in 0 .. BUFMAX - 1 :
    info_table[i].size # 0 /\ info_table[j].size # 0 /\ info_table[i].name = info_table[j].name => i = j

AnswerInv == TableType /\ Unused /\ AnswerKept /\ NamesDiffer
-----------------------------------------------------------------------------
(***************************************************************************)
(* The model answer: the operators of the model                            *)
(***************************************************************************)
OneAfterTheOther ==
  /\ Sizes \in Seq(Nat) /\ Len(Sizes) = BUFMAX
  /\ \A i \in 0 .. BUFMAX : Begin[i] \in Nat
  /\ Begin[0] = 0
  /\ \A i \in 1 .. BUFMAX : Begin[i] = Begin[i - 1] + Sizes[i]
  /\ \A j \in 0 .. BUFMAX : \A i \in 0 .. j : Begin[i] <= Begin[j]

LEMMA BeginProperties == TableType => OneAfterTheOther
<1> SUFFICES ASSUME TableType PROVE OneAfterTheOther
  OBVIOUS
<1>1. Sizes \in Seq(Nat) /\ Len(Sizes) = BUFMAX
  <2>1. BUFMAX \in Nat
    BY AnswerAssumption
  <2>2. ASSUME NEW i \in 1 .. BUFMAX PROVE info_table[i - 1].size \in Nat
    <3>1. i - 1 \in 0 .. BUFMAX - 1
      BY <2>1
    <3>2. info_table[i - 1] \in Row
      BY <3>1 DEF TableType
    <3> QED BY <3>2 DEF Row
  <2>3. Sizes \in [1 .. BUFMAX -> Nat]
    BY <2>2 DEF Sizes
  <2> QED BY <2>1, <2>3
<1>2. PICK s, f : s = Sizes /\ f = Begin
  OBVIOUS
<1>3. s \in Seq(Nat) /\ Len(s) = BUFMAX /\ f = PrefixSums(s)
  BY <1>1, <1>2 DEF Begin
<1>4. \A j \in 0 .. BUFMAX : \A i \in 0 .. j : f[i] <= f[j]
  BY <1>3, PrefixSumsGrow
<1>5. f \in [0 .. BUFMAX -> Nat] /\ f[0] = 0 /\ \A i \in 1 .. BUFMAX : f[i] = f[i - 1] + s[i]
  BY <1>3, PrefixSumsProperties
<1> QED BY <1>1, <1>2, <1>4, <1>5 DEF OneAfterTheOther

LEMMA AnswerPutIs == \A m, at, bytes : Answer!Put(m, at, bytes) = Put(m, at, bytes)
BY DEF Answer!Put, Put

LEMMA AnswerSequencesAre ==
  /\ \A s : Answer!PrefixSums(s) = PrefixSums(s)
  /\ \A s, i : Answer!RemoveAt(s, i) = RemoveAt(s, i)
  /\ \A s : Answer!FlattenSeq(s) = FlattenSeq(s)
  /\ \A S, n : Answer!BoundedSeq(S, n) = BoundedSeq(S, n)
<1>1. \A s : Answer!PrefixSums(s) = PrefixSums(s)
  BY DEF Answer!PrefixSums, PrefixSums
<1>2. \A s, i : Answer!RemoveAt(s, i) = RemoveAt(s, i)
  BY DEF Answer!RemoveAt, RemoveAt
<1>3. \A s : Answer!FlattenSeq(s) = FlattenSeq(s)
  BY DEF Answer!FlattenSeq, FlattenSeq
<1>4. \A S, n : Answer!BoundedSeq(S, n) = BoundedSeq(S, n)
  BY DEF Answer!BoundedSeq, Answer!SeqOf, BoundedSeq, SeqOf
<1> QED BY <1>1, <1>2, <1>3, <1>4

LEMMA AnswerValueIs == \A n, member, size : Answer!Value(n, member, size) = Value(n, member, size)
BY DEF Answer!Value, Value

(* search_name finds an entry in use, or there is none.                    *)
LEMMA SearchNameProperties ==
  ASSUME TableType, Unused, NEW n
  PROVE  /\ Answer!SearchName(n) = -1 =>
              \A i \in 0 .. BUFMAX - 1 : ~ (info_table[i].name = n /\ info_table[i].size # 0)
         /\ Answer!SearchName(n) # -1 =>
              /\ Answer!SearchName(n) \in 0 .. data_index - 1
              /\ info_table[Answer!SearchName(n)].name = n
<1>1. BUFMAX \in Nat /\ data_index \in 0 .. BUFMAX /\ Answer!Entry = 0 .. BUFMAX - 1
  BY AnswerAssumption DEF TableType, Answer!Entry
<1> DEFINE T == {i \in 0 .. BUFMAX - 1 : Answer!Matches(i, n)}
<1>2. CASE T = {}
  <2>1. \A i \in 0 .. BUFMAX - 1 : ~ Answer!Matches(i, n)
    BY <1>2
  <2>2. Answer!SearchName(n) = -1
    BY <1>1, <2>1 DEF Answer!SearchName
  <2> QED BY <2>1, <2>2 DEF Answer!Matches
<1>3. CASE T # {}
  <2>1. PICK i \in T : \A k \in T : i <= k
    <3>1. T \in SUBSET Nat
      BY <1>1
    <3> HIDE DEF T
    <3> QED BY <1>3, <3>1, Least
  <2>2. i \in 0 .. BUFMAX - 1 /\ Answer!Matches(i, n) /\ \A k \in 0 .. i - 1 : ~ Answer!Matches(k, n)
    <3>1. \A k \in 0 .. i - 1 : k \in 0 .. BUFMAX - 1 /\ ~ (i <= k)
      BY <1>1
    <3> QED BY <2>1, <3>1
  <2>3. PICK d : d = Answer!SearchName(n)
    OBVIOUS
  <2>4. d \in 0 .. BUFMAX - 1 /\ Answer!Matches(d, n)
    BY <1>1, <2>2, <2>3 DEF Answer!SearchName
  <2>5. info_table[d].name = n /\ info_table[d].size # 0
    BY <2>4 DEF Answer!Matches
  <2>6. ~ (d >= data_index)
    BY <2>4, <2>5 DEF Unused
  <2>7. d \in 0 .. data_index - 1 /\ d # -1
    BY <1>1, <2>4, <2>6
  <2> QED BY <2>3, <2>5, <2>7
<1> QED BY <1>2, <1>3
-----------------------------------------------------------------------------
(***************************************************************************)
(* The model answer: the steps keep the invariant                          *)
(***************************************************************************)
LEMMA AnswerInsertInv ==
  ASSUME AnswerInv, NEW n \in AnswerName, NEW bytes \in Seq(Nat),
         Answer!SearchName(n) = -1, Answer!SpaceCheck(Len(bytes)), Answer!Insert(n, bytes)
  PROVE  AnswerInv'
<1>1. PICK b, c, d, len : b = BUFMAX /\ c = cur_point /\ d = data_index /\ len = Len(bytes)
  OBVIOUS
<1>2. /\ b \in Nat /\ c \in Nat /\ d \in Nat /\ d < b /\ len \in Nat /\ c + len <= b
  BY <1>1, AnswerAssumption DEF AnswerInv, TableType, Answer!Insert, Answer!SpaceCheck
<1>3. TableType /\ Unused /\ AnswerKept /\ NamesDiffer
  BY DEF AnswerInv
<1>4. /\ d \in 0 .. b - 1 /\ d + 1 \in 0 .. b /\ c + len \in 0 .. b
      /\ cur_point' = c + len /\ data_index' = d + 1
  BY <1>1, <1>2 DEF Answer!Insert
<1>5. PICK row : row = [name |-> n, size |-> len]
  OBVIOUS
<1>6. row \in Row /\ row.name = n /\ row.size = len
  BY <1>1, <1>2, <1>5 DEF Row
<1>7. /\ info_table' \in [0 .. b - 1 -> Row] /\ info_table'[d] = row
      /\ \A i \in 0 .. b - 1 : i # d => info_table'[i] = info_table[i]
  <2>1. info_table' = [info_table EXCEPT ![d] = row] /\ info_table \in [0 .. b - 1 -> Row]
    BY <1>1, <1>3, <1>5 DEF Answer!Insert, TableType
  <2> QED BY <1>4, <1>6, <2>1
<1>8. /\ answerStored' \in Seq(Seq(Nat)) /\ Len(answerStored') = d + 1 /\ answerStored'[d + 1] = bytes
      /\ \A i \in 1 .. d : answerStored'[i] = answerStored[i]
  BY <1>1, <1>2, <1>3, AppendProperties, SMTT(30) DEF Answer!Insert, TableType
<1>9. /\ mem' \in [1 .. b -> Nat]
      /\ \A k \in 1 .. len : mem'[c + k] = bytes[k]
      /\ \A p \in 1 .. b : p <= c \/ c + len < p => mem'[p] = mem[p]
  <2>1. PICK m : m = mem
    OBVIOUS
  <2>2. m \in [1 .. b -> Nat] /\ mem' = Put(m, c, bytes)
    BY <1>1, <1>3, <2>1, AnswerPutIs DEF Answer!Insert, TableType
  <2>3. /\ Put(m, c, bytes) \in [1 .. b -> Nat]
        /\ \A k \in 1 .. Len(bytes) : c + k <= b => Put(m, c, bytes)[c + k] = bytes[k]
        /\ \A p \in 1 .. b : p <= c \/ c + Len(bytes) < p => Put(m, c, bytes)[p] = m[p]
    BY <1>2, <2>2, PutProperties
  <2>4. \A k \in 1 .. len : c + k <= b
    BY <1>2
  <2> QED BY <1>1, <2>1, <2>2, <2>3, <2>4
<1>10. TableType'
  BY <1>1, <1>4, <1>7, <1>8, <1>9 DEF TableType
<1>11. Unused'
  <2>1. ASSUME NEW i \in 0 .. b - 1, i >= d + 1 PROVE info_table'[i] = [name |-> 0, size |-> 0]
    <3>1. i # d /\ i >= d
      BY <1>2, <2>1
    <3> QED BY <1>1, <1>3, <1>7, <3>1 DEF Unused
  <2>2. ASSUME NEW p \in 1 .. b, c + len < p PROVE mem'[p] = 0
    <3>1. c < p
      BY <1>2, <2>2
    <3> QED BY <1>1, <1>3, <1>9, <2>2, <3>1 DEF Unused
  <2> QED BY <1>1, <1>4, <2>1, <2>2 DEF Unused
<1>12. PICK s, t, f, g : s = Sizes /\ t = Sizes' /\ f = Begin /\ g = Begin'
  OBVIOUS
<1>13. /\ s \in Seq(Nat) /\ Len(s) = b /\ t \in Seq(Nat) /\ Len(t) = b
       /\ \A i \in 0 .. b : f[i] \in Nat
       /\ \A i \in 1 .. b : f[i] = f[i - 1] + s[i] /\ g[i] = g[i - 1] + t[i]
       /\ \A j \in 0 .. b : \A i \in 0 .. j : f[i] <= f[j]
       /\ f = PrefixSums(s) /\ g = PrefixSums(t)
  <2>1. OneAfterTheOther
    BY <1>3, BeginProperties
  <2>2. TableType' => OneAfterTheOther'
    BY BeginProperties, PTL
  <2>3. /\ t \in Seq(Nat) /\ Len(t) = b /\ g = PrefixSums(t)
        /\ \A i \in 1 .. b : g[i] = g[i - 1] + t[i]
    BY <1>1, <1>10, <1>12, <2>2 DEF Begin, OneAfterTheOther
  <2> QED BY <1>1, <1>12, <2>1, <2>3 DEF Begin, OneAfterTheOther
<1>14. t[d + 1] = len /\ \A i \in 1 .. d : t[i] = s[i]
  <2>1. t = [i \in 1 .. b |-> info_table'[i - 1].size] /\ s = [i \in 1 .. b |-> info_table[i - 1].size]
    BY <1>1, <1>12 DEF Sizes
  <2>2. t[d + 1] = len
    <3>1. PICK e : e = d + 1
      OBVIOUS
    <3>2. e \in 1 .. b /\ e - 1 = d
      BY <1>2, <3>1
    <3>3. t[e] = info_table'[e - 1].size
      BY <2>1, <3>2
    <3> QED BY <1>6, <1>7, <3>1, <3>2, <3>3
  <2>3. ASSUME NEW i \in 1 .. d PROVE t[i] = s[i]
    <3>1. i \in 1 .. b /\ i - 1 \in 0 .. b - 1 /\ i - 1 # d
      BY <1>2
    <3> QED BY <1>7, <2>1, <3>1
  <2> QED BY <2>2, <2>3
<1>15. \A i \in 0 .. d : g[i] = f[i]
  <2>1. d <= Len(s) /\ d <= Len(t)
    BY <1>2, <1>13
  <2> QED BY <1>2, <1>13, <1>14, <2>1, PrefixSumsAgree
<1>16. f[d] = c
  BY <1>1, <1>3, <1>12 DEF AnswerKept
<1>17. g[d + 1] = c + len
  <2>1. d + 1 \in 1 .. b /\ d + 1 - 1 = d /\ d \in 0 .. d
    BY <1>2
  <2> QED BY <1>13, <1>14, <1>15, <1>16, <2>1, SMTT(30)
<1>18. ASSUME NEW i \in 1 .. d + 1
       PROVE  /\ Len(answerStored'[i]) = t[i]
              /\ \A k \in 1 .. t[i] : mem'[g[i - 1] + k] = answerStored'[i][k]
  <2>1. CASE i = d + 1
    <3>1. i - 1 = d /\ d \in 0 .. d
      BY <1>2, <2>1
    <3>2. g[i - 1] = c /\ t[i] = len
      BY <1>14, <1>15, <1>16, <2>1, <3>1
    <3> QED BY <1>1, <1>8, <1>9, <2>1, <3>2
  <2>2. CASE i # d + 1
    <3>1. i \in 1 .. d /\ i - 1 \in 0 .. d /\ i \in 1 .. b /\ i \in 0 .. d /\ d \in 0 .. b /\ i - 1 \in 0 .. b
      BY <1>2, <2>2
    <3>2. PICK x, z : x = f[i - 1] /\ z = s[i]
      OBVIOUS
    <3>3. g[i - 1] = x /\ t[i] = z /\ answerStored'[i] = answerStored[i]
      BY <1>8, <1>14, <1>15, <3>1, <3>2
    <3>4. Len(answerStored[i]) = z /\ \A k \in 1 .. z : mem[x + k] = answerStored[i][k]
      BY <1>1, <1>3, <1>12, <3>1, <3>2 DEF AnswerKept
    <3>5. x \in Nat /\ z \in Nat /\ x + z <= c
      <4>1. x \in Nat /\ f[i] = x + z /\ f[i] <= f[d]
        BY <1>13, <3>1, <3>2
      <4>2. z \in Nat
        BY <1>13, <3>1, <3>2, ElementOfSeq
      <4> QED BY <1>16, <4>1, <4>2
    <3>6. \A k \in 1 .. z : x + k \in 1 .. b /\ x + k <= c
      BY <1>2, <3>5
    <3>7. \A k \in 1 .. z : mem'[x + k] = mem[x + k]
      BY <1>9, <3>6
    <3> QED BY <3>3, <3>4, <3>7
  <2> QED BY <2>1, <2>2
<1>19. AnswerKept'
  BY <1>4, <1>12, <1>17, <1>18 DEF AnswerKept
<1>20. NamesDiffer'
  <2>1. \A i \in 0 .. b - 1 : ~ (info_table[i].name = n /\ info_table[i].size # 0)
    BY <1>1, <1>3, SearchNameProperties
  <2> SUFFICES ASSUME NEW i \in 0 .. b - 1, NEW j \in 0 .. b - 1,
                      info_table'[i].size # 0, info_table'[j].size # 0,
                      info_table'[i].name = info_table'[j].name
               PROVE  i = j
    BY <1>1 DEF NamesDiffer
  <2>2. i # d /\ j # d => i = j
    BY <1>1, <1>3, <1>7 DEF NamesDiffer
  <2>3. i = d /\ j # d => FALSE
    BY <1>6, <1>7, <2>1
  <2>4. i # d /\ j = d => FALSE
    BY <1>6, <1>7, <2>1
  <2> QED BY <2>2, <2>3, <2>4
<1> QED BY <1>10, <1>11, <1>19, <1>20 DEF AnswerInv

(* Freeing closes the gap in the memory, ...                               *)
Closed(z, m, b, at, x, c) ==
  /\ z \in [1 .. b -> Nat]
  /\ \A p \in 1 .. b : p <= at => z[p] = m[p]
  /\ \A p \in 1 .. b : at < p /\ p <= c - x => z[p] = m[p + x]
  /\ \A p \in 1 .. b : c - x < p /\ p <= c => z[p] = 0
  /\ \A p \in 1 .. b : c < p => z[p] = m[p]

LEMMA ClosedProperties ==
  ASSUME NEW b \in Nat, NEW m \in [1 .. b -> Nat], NEW at \in Nat, NEW x \in Nat, NEW c \in Nat,
         at + x <= c, c <= b, NEW z, z = Put(Put(m, at, SubSeq(m, at + x + 1, c)), c - x, Answer!Zeros(x))
  PROVE  Closed(z, m, b, at, x, c)
<1>1. PICK u, len : u = SubSeq(m, at + x + 1, c) /\ len = c - (at + x)
  OBVIOUS
<1>2. len \in Nat /\ at + len = c - x /\ c - x \in Nat /\ at + x + len = c
  BY <1>1
<1>3. u = [k \in 1 .. len |-> m[at + x + k]]
  <2>1. c - (at + x + 1) + 1 = len /\ \A k \in 1 .. len : at + x + 1 + k - 1 = at + x + k
    BY <1>1, <1>2
  <2> QED BY <1>1, <2>1 DEF SubSeq
<1>4. u \in Seq(Nat) /\ Len(u) = len /\ \A k \in 1 .. len : u[k] = m[at + x + k]
  <2>1. \A k \in 1 .. len : at + x + k \in 1 .. b
    BY <1>2
  <2>2. u \in [1 .. len -> Nat]
    BY <1>3, <2>1
  <2> QED BY <1>2, <1>3, <2>2
<1>5. PICK y : y = Put(m, at, u)
  OBVIOUS
<1>6. /\ y \in [1 .. b -> Nat]
      /\ \A k \in 1 .. len : y[at + k] = u[k]
      /\ \A p \in 1 .. b : p <= at \/ c - x < p => y[p] = m[p]
  <2>1. /\ Put(m, at, u) \in [1 .. b -> Nat]
        /\ \A k \in 1 .. Len(u) : at + k <= b => Put(m, at, u)[at + k] = u[k]
        /\ \A p \in 1 .. b : p <= at \/ at + Len(u) < p => Put(m, at, u)[p] = m[p]
    BY <1>4, PutProperties
  <2>2. \A k \in 1 .. len : at + k <= b
    BY <1>2
  <2> QED BY <1>2, <1>4, <1>5, <2>1, <2>2
<1>7. PICK v, e : v = Answer!Zeros(x) /\ e = c - x
  OBVIOUS
<1>8. v \in Seq(Nat) /\ Len(v) = x /\ \A k \in 1 .. x : v[k] = 0
  BY <1>7 DEF Answer!Zeros
<1>9. /\ z \in [1 .. b -> Nat]
      /\ \A k \in 1 .. x : z[e + k] = 0
      /\ \A p \in 1 .. b : p <= e \/ c < p => z[p] = y[p]
  <2>1. e \in Nat /\ e + x = c
    BY <1>2, <1>7
  <2>2. /\ Put(y, e, v) \in [1 .. b -> Nat]
        /\ \A k \in 1 .. Len(v) : e + k <= b => Put(y, e, v)[e + k] = v[k]
        /\ \A p \in 1 .. b : p <= e \/ e + Len(v) < p => Put(y, e, v)[p] = y[p]
    <3>1. y \in [1 .. b -> Nat] /\ e \in Nat /\ v \in Seq(Nat)
      BY <1>6, <1>8, <2>1
    <3> QED BY <3>1, PutProperties, ZenonT(60)
  <2>3. \A k \in 1 .. x : e + k <= b
    BY <2>1
  <2>4. z = Put(y, e, v)
    BY <1>1, <1>5, <1>7
  <2> QED BY <1>8, <2>1, <2>2, <2>3, <2>4
<1>10. ASSUME NEW p \in 1 .. b, at < p, p <= c - x PROVE z[p] = m[p + x]
  <2>1. PICK k : k = p - at
    OBVIOUS
  <2>2. k \in 1 .. len /\ at + k = p /\ at + x + k = p + x
    BY <1>2, <1>10, <2>1
  <2>3. z[p] = y[p]
    BY <1>7, <1>9, <1>10
  <2>4. y[at + k] = m[at + x + k]
    BY <1>4, <1>6, <2>2
  <2> QED BY <2>2, <2>3, <2>4
<1>11. ASSUME NEW p \in 1 .. b, c - x < p, p <= c PROVE z[p] = 0
  <2>1. PICK k : k = p - e
    OBVIOUS
  <2>2. k \in 1 .. x /\ e + k = p
    BY <1>2, <1>7, <1>11, <2>1
  <2> QED BY <1>9, <2>2
<1>12. ASSUME NEW p \in 1 .. b, p <= at \/ c < p PROVE z[p] = m[p]
  <2>1. (p <= e \/ c < p) /\ (p <= at \/ c - x < p)
    BY <1>2, <1>7, <1>12
  <2> QED BY <1>6, <1>9, <2>1
<1> QED BY <1>9, <1>10, <1>11, <1>12 DEF Closed

(* ... in the table and in the list of values.                             *)
LEMMA AnswerRemoveInv ==
  ASSUME AnswerInv, NEW n, Answer!Deallocate(n)
  PROVE  AnswerInv'
<1>1. PICK b, c, d, r : b = BUFMAX /\ c = cur_point /\ d = data_index /\ r = Answer!SearchName(n) + 1
  OBVIOUS
<1>2. TableType /\ Unused /\ AnswerKept /\ NamesDiffer
  BY DEF AnswerInv
<1>3. /\ b \in Nat /\ c \in Nat /\ d \in Nat /\ d <= b /\ c <= b /\ r \in 1 .. d /\ r \in Nat
      /\ Answer!SearchName(n) = r - 1
  <2>1. b \in Nat /\ c \in 0 .. b /\ d \in 0 .. b
    BY <1>1, <1>2, AnswerAssumption DEF TableType
  <2>2. PICK q : q = Answer!SearchName(n)
    OBVIOUS
  <2>3. q \in 0 .. d - 1
    BY <1>1, <1>2, <2>2, SearchNameProperties DEF Answer!Deallocate
  <2>4. r \in 1 .. d /\ r \in Nat /\ q = r - 1
    BY <1>1, <2>1, <2>2, <2>3
  <2> QED BY <2>1, <2>2, <2>4
<1>4. PICK s, f : s = Sizes /\ f = Begin
  OBVIOUS
<1>5. /\ s \in Seq(Nat) /\ Len(s) = b /\ f[0] = 0 /\ f = PrefixSums(s)
      /\ \A i \in 0 .. b : f[i] \in Nat
      /\ \A i \in 1 .. b : f[i] = f[i - 1] + s[i] /\ s[i] \in Nat
      /\ \A j \in 0 .. b : \A i \in 0 .. j : f[i] <= f[j]
      /\ f[d] = c
  <2>1. OneAfterTheOther
    BY <1>2, BeginProperties
  <2>2. \A i \in 1 .. b : s[i] \in Nat
    BY <1>1, <1>4, <2>1, ElementOfSeq DEF OneAfterTheOther
  <2> QED BY <1>1, <1>2, <1>4, <2>1, <2>2 DEF OneAfterTheOther, Begin, AnswerKept
<1>6. PICK x, at : x = s[r] /\ at = f[r - 1]
  OBVIOUS
<1>7. x \in Nat /\ at \in Nat /\ f[r] = at + x /\ at + x <= c
  <2>1. r \in 1 .. b /\ r \in 0 .. d /\ d \in 0 .. b /\ r - 1 \in 0 .. b
    BY <1>3
  <2> QED BY <1>5, <1>6, <2>1
<1>8. /\ mem' = Put(Put(mem, at, SubSeq(mem, at + x + 1, c)), c - x, Answer!Zeros(x))
      /\ cur_point' = c - x
  <2>1. \A i \in 0 .. b : Answer!CalculatePosition(i) = f[i]
    <3>1. \A i : Answer!CalculatePosition(i) = Begin[i]
      BY AnswerSequencesAre DEF Answer!CalculatePosition, Begin, Sizes
    <3> QED BY <1>4, <3>1
  <2>2. \A i \in 1 .. b : info_table[i - 1].size = s[i]
    BY <1>1, <1>4 DEF Sizes
  <2>3. r - 1 \in 0 .. b /\ d - 1 \in 0 .. b /\ r \in 1 .. b /\ d \in 1 .. b
    BY <1>3
  <2>4. Answer!CalculatePosition(r - 1) = at /\ info_table[r - 1].size = x
    BY <1>6, <2>1, <2>2, <2>3
  <2>5. Answer!CalculatePosition(data_index - 1) + info_table[data_index - 1].size = c
    BY <1>1, <1>5, <2>1, <2>2, <2>3
  <2>6. Answer!DeallocateMem(r - 1)
    BY <1>3 DEF Answer!Deallocate
  <2> QED BY <2>4, <2>5, <2>6, AnswerPutIs DEF Answer!DeallocateMem
<1>9. /\ mem' \in [1 .. b -> Nat]
      /\ \A p \in 1 .. b : p <= at => mem'[p] = mem[p]
      /\ \A p \in 1 .. b : at < p /\ p <= c - x => mem'[p] = mem[p + x]
      /\ \A p \in 1 .. b : c - x < p /\ p <= c => mem'[p] = 0
      /\ \A p \in 1 .. b : c < p => mem'[p] = mem[p]
  <2>1. PICK m, z : m = mem /\ z = mem'
    OBVIOUS
  <2>2. m \in [1 .. b -> Nat]
    BY <1>1, <1>2, <2>1 DEF TableType
  <2>3. z = Put(Put(m, at, SubSeq(m, at + x + 1, c)), c - x, Answer!Zeros(x))
    BY <1>8, <2>1
  <2>4. Closed(z, m, b, at, x, c)
    <3>1. b \in Nat /\ at \in Nat /\ x \in Nat /\ c \in Nat /\ at + x <= c /\ c <= b
      BY <1>3, <1>7
    <3> QED BY <2>2, <2>3, <3>1, ClosedProperties
  <2> QED BY <2>1, <2>4 DEF Closed
<1>10. data_index' = d - 1
  BY <1>1 DEF Answer!Deallocate
<1>11. /\ info_table' \in [0 .. b - 1 -> Row]
       /\ \A i \in 0 .. b - 1 :
            /\ i < r - 1 => info_table'[i] = info_table[i]
            /\ r - 1 <= i /\ i < d - 1 => info_table'[i] = info_table[i + 1]
            /\ d - 1 <= i => info_table'[i] = [name |-> 0, size |-> 0]
  <2>1. info_table' = [i \in 0 .. b - 1 |->
                         CASE i = d - 1 -> [name |-> 0, size |-> 0]
                           [] i \in r - 1 .. d - 2 -> info_table[i + 1]
                           [] OTHER -> info_table[i]]
    BY <1>1, <1>3 DEF Answer!Deallocate, Answer!DeallocateTable, Answer!Entry, Answer!Blank
  <2>2. ASSUME NEW i \in 0 .. b - 1
        PROVE  /\ i < r - 1 => info_table'[i] = info_table[i]
               /\ r - 1 <= i /\ i < d - 1 => info_table'[i] = info_table[i + 1]
               /\ d - 1 <= i => info_table'[i] = [name |-> 0, size |-> 0]
    <3>1. CASE i < r - 1
      <4>1. i # d - 1 /\ ~ (i \in r - 1 .. d - 2) /\ ~ (r - 1 <= i) /\ ~ (d - 1 <= i)
        BY <1>3, <3>1
      <4> QED BY <2>1, <4>1
    <3>2. CASE r - 1 <= i /\ i < d - 1
      <4>1. i # d - 1 /\ i \in r - 1 .. d - 2 /\ ~ (i < r - 1) /\ ~ (d - 1 <= i)
        BY <1>3, <3>2
      <4> QED BY <2>1, <4>1
    <3>3. CASE i = d - 1
      <4>1. ~ (i < r - 1) /\ ~ (i < d - 1) /\ ~ (i \in r - 1 .. d - 2)
        BY <1>3, <3>3
      <4>2. info_table'[i] = [name |-> 0, size |-> 0]
        BY <2>1, <3>3, <4>1
      <4> QED BY <4>1, <4>2
    <3>4. CASE d - 1 < i
      <4>1. i # d - 1 /\ ~ (i \in r - 1 .. d - 2) /\ ~ (i < r - 1) /\ ~ (i < d - 1) /\ i >= d
        BY <1>3, <3>4
      <4>2. info_table[i] = [name |-> 0, size |-> 0]
        BY <1>1, <1>2, <4>1 DEF Unused
      <4> QED BY <2>1, <4>1, <4>2
    <3> QED BY <1>3, <3>1, <3>2, <3>3, <3>4
  <2>3. ASSUME NEW i \in 0 .. b - 1 PROVE info_table'[i] \in Row
    <3>1. \A k \in 0 .. b - 1 : info_table[k] \in Row
      BY <1>1, <1>2 DEF TableType
    <3>2. i < d - 1 => i + 1 \in 0 .. b - 1
      BY <1>3
    <3>3. [name |-> 0, size |-> 0] \in Row
      BY <1>1, <1>3 DEF Row
    <3>4. i < r - 1 \/ (r - 1 <= i /\ i < d - 1) \/ d - 1 <= i
      BY <1>3
    <3> QED BY <2>2, <3>1, <3>2, <3>3, <3>4
  <2> QED BY <2>1, <2>2, <2>3
<1>12. /\ answerStored' \in Seq(Seq(Nat)) /\ Len(answerStored') = d - 1
       /\ \A i \in 1 .. d - 1 : answerStored'[i] = IF i < r THEN answerStored[i] ELSE answerStored[i + 1]
  <2>1. PICK q : q = answerStored
    OBVIOUS
  <2>2. q \in Seq(Seq(Nat)) /\ Len(q) = d
    BY <1>1, <1>2, <2>1 DEF TableType
  <2>3. answerStored' = RemoveAt(q, r)
    <3>1. answerStored' = RemoveAt(answerStored, Answer!SearchName(n) + 1)
      BY AnswerSequencesAre DEF Answer!Deallocate
    <3> QED BY <1>1, <2>1, <3>1
  <2>4. /\ RemoveAt(q, r) \in Seq(Seq(Nat)) /\ Len(RemoveAt(q, r)) = d - 1
        /\ \A i \in 1 .. d - 1 : RemoveAt(q, r)[i] = IF i < r THEN q[i] ELSE q[i + 1]
    BY <1>3, <2>2, RemoveAtProperties
  <2> QED BY <2>1, <2>3, <2>4
<1>13. TableType'
  <2>1. c - x \in 0 .. b /\ d - 1 \in 0 .. b
    BY <1>3, <1>7
  <2> QED BY <1>1, <1>8, <1>9, <1>10, <1>11, <1>12, <2>1 DEF TableType
<1>14. Unused'
  <2>1. ASSUME NEW p \in 1 .. b, c - x < p PROVE mem'[p] = 0
    <3>1. p <= c \/ c < p
      BY <1>3
    <3>2. c < p => mem[p] = 0
      BY <1>1, <1>2 DEF Unused
    <3> QED BY <1>9, <2>1, <3>1, <3>2
  <2>2. \A i \in 0 .. b - 1 : i >= d - 1 => d - 1 <= i
    BY <1>3
  <2> QED BY <1>1, <1>8, <1>10, <1>11, <2>1, <2>2 DEF Unused
<1>15. PICK t, g : t = Sizes' /\ g = Begin'
  OBVIOUS
<1>16. /\ t \in Seq(Nat) /\ Len(t) = b /\ g = PrefixSums(t)
  <2>1. TableType' => OneAfterTheOther'
    BY BeginProperties, PTL
  <2> QED BY <1>1, <1>13, <1>15, <2>1 DEF OneAfterTheOther, Begin
<1>17. ASSUME NEW i \in 1 .. d - 1 PROVE t[i] = IF i < r THEN s[i] ELSE s[i + 1]
  <2>1. PICK j : j = i - 1
    OBVIOUS
  <2>2. /\ j \in 0 .. b - 1 /\ j < d - 1 /\ i \in 1 .. b /\ i + 1 \in 1 .. b /\ i + 1 - 1 = j + 1 /\ i = j + 1
        /\ (i < r => j < r - 1) /\ (~ (i < r) => r - 1 <= j)
    BY <1>3, <2>1
  <2>3. t[i] = info_table'[j].size /\ s[i] = info_table[j].size
    BY <1>1, <1>4, <1>15, <2>1, <2>2 DEF Sizes
  <2>4. PICK e : e = i + 1
    OBVIOUS
  <2>5. e \in 1 .. b /\ e - 1 = j + 1
    BY <1>3, <2>1, <2>4
  <2>6. s[e] = info_table[e - 1].size
    BY <1>1, <1>4, <2>5 DEF Sizes
  <2> QED BY <1>11, <2>2, <2>3, <2>4, <2>5, <2>6
<1>18. \A i \in 0 .. d - 1 : g[i] = IF i < r THEN f[i] ELSE f[i + 1] - x
  <2>1. /\ d <= Len(s) /\ d - 1 <= Len(t)
        /\ \A i \in 1 .. r - 1 : t[i] = s[i]
    <3>1. \A i \in 1 .. r - 1 : i \in 1 .. d - 1 /\ i < r
      BY <1>3
    <3> QED BY <1>3, <1>5, <1>16, <1>17, <3>1
  <2>2. \A i \in r .. d - 1 : t[i] = s[i + 1]
    <3>1. \A i \in r .. d - 1 : i \in 1 .. d - 1 /\ ~ (i < r)
      BY <1>3
    <3> QED BY <1>17, <3>1
  <2> QED BY <1>3, <1>5, <1>6, <1>16, <2>1, <2>2, PrefixSumsShift
<1>19. ASSUME NEW i \in r - 1 .. d - 1 PROVE g[i] = f[i + 1] - x
  <2>1. i \in 0 .. d - 1 /\ (i < r => i = r - 1 /\ i + 1 = r)
    BY <1>3
  <2>2. i < r => f[i] = at /\ f[i + 1] = at + x
    BY <1>6, <1>7, <2>1
  <2>3. CASE i < r
    <3>1. PICK y, z : y = f[i + 1] /\ z = g[i]
      OBVIOUS
    <3>2. y = at + x /\ z = at
      BY <1>18, <2>1, <2>2, <2>3, <3>1
    <3>3. z = y - x
      BY <1>7, <3>2
    <3> QED BY <3>1, <3>3
  <2>4. CASE ~ (i < r)
    BY <1>18, <2>1, <2>4
  <2> QED BY <2>3, <2>4
<1>20. g[d - 1] = c - x
  <2>1. d - 1 \in r - 1 .. d - 1 /\ d - 1 + 1 = d
    BY <1>3
  <2> QED BY <1>5, <1>19, <2>1
<1>21. ASSUME NEW i \in 1 .. d - 1
       PROVE  /\ Len(answerStored'[i]) = t[i]
              /\ \A k \in 1 .. t[i] : mem'[g[i - 1] + k] = answerStored'[i][k]
  <2>1. \A j \in 1 .. d : /\ Len(answerStored[j]) = s[j]
                          /\ \A k \in 1 .. s[j] : mem[f[j - 1] + k] = answerStored[j][k]
    BY <1>1, <1>2, <1>4 DEF AnswerKept
  <2>2. CASE i < r
    <3>1. /\ i \in 1 .. d /\ i \in 1 .. b /\ i - 1 \in 0 .. d - 1 /\ i - 1 < r /\ i - 1 \in 0 .. b
          /\ r - 1 \in 0 .. b /\ i \in 0 .. r - 1
      BY <1>3, <2>2
    <3>2. PICK y, w : y = f[i - 1] /\ w = s[i]
      OBVIOUS
    <3>3. g[i - 1] = y /\ t[i] = w /\ answerStored'[i] = answerStored[i]
      BY <1>12, <1>17, <1>18, <2>2, <3>1, <3>2
    <3>4. y \in Nat /\ w \in Nat /\ y + w <= at
      <4>1. y \in Nat /\ w \in Nat /\ f[i] = y + w /\ f[i] <= f[r - 1]
        BY <1>5, <3>1, <3>2
      <4> QED BY <1>6, <4>1
    <3>5. Len(answerStored[i]) = w /\ \A k \in 1 .. w : mem[y + k] = answerStored[i][k]
      BY <2>1, <3>1, <3>2
    <3>6. \A k \in 1 .. w : y + k \in 1 .. b /\ y + k <= at
      BY <1>3, <1>7, <3>4
    <3>7. \A k \in 1 .. w : mem'[y + k] = mem[y + k]
      BY <1>9, <3>6
    <3> QED BY <3>3, <3>5, <3>7
  <2>3. CASE ~ (i < r)
    <3>1. /\ i \in 0 .. b /\ i + 1 \in 1 .. d /\ i + 1 \in 1 .. b /\ i - 1 \in r - 1 .. d - 1 /\ i - 1 + 1 = i
          /\ i + 1 - 1 = i /\ r \in 0 .. i /\ i + 1 \in 0 .. d /\ d \in 0 .. b
      BY <1>3, <2>3
    <3>2. PICK y, w : y = f[i] /\ w = s[i + 1]
      OBVIOUS
    <3>3. g[i - 1] = y - x /\ t[i] = w /\ answerStored'[i] = answerStored[i + 1]
      <4>1. g[i - 1] = f[i - 1 + 1] - x
        BY <1>19, <3>1
      <4> QED BY <1>12, <1>17, <2>3, <3>1, <3>2, <4>1
    <3>4. y \in Nat /\ w \in Nat /\ at + x <= y /\ y + w <= c
      <4>1. y \in Nat /\ w \in Nat /\ f[r] <= y
        BY <1>5, <3>1, <3>2
      <4>2. f[i + 1] = y + w /\ f[i + 1] <= f[d]
        BY <1>5, <3>1, <3>2
      <4> QED BY <1>5, <1>7, <4>1, <4>2
    <3>5. Len(answerStored[i + 1]) = w /\ \A k \in 1 .. w : mem[y + k] = answerStored[i + 1][k]
      BY <2>1, <3>1, <3>2
    <3>6. ASSUME NEW k \in 1 .. w PROVE mem'[y - x + k] = mem[y + k]
      <4>1. PICK p : p = y - x + k
        OBVIOUS
      <4>2. p \in 1 .. b /\ at < p /\ p <= c - x /\ p + x = y + k
        BY <1>3, <1>7, <3>4, <4>1
      <4> QED BY <1>9, <4>1, <4>2
    <3> QED BY <3>3, <3>5, <3>6
  <2> QED BY <2>2, <2>3
<1>22. AnswerKept'
  BY <1>8, <1>10, <1>15, <1>20, <1>21 DEF AnswerKept
<1>23. NamesDiffer'
  <2>1. ASSUME NEW i \in 0 .. b - 1, info_table'[i].size # 0
        PROVE  \E k \in 0 .. b - 1 : /\ info_table'[i] = info_table[k]
                                     /\ k = IF i < r - 1 THEN i ELSE i + 1
    <3>1. ~ (d - 1 <= i)
      BY <1>11, <2>1
    <3>2. i + 1 \in 0 .. b - 1 /\ (i < r - 1 \/ (r - 1 <= i /\ i < d - 1 /\ ~ (i < r - 1)))
      BY <1>3, <3>1
    <3> QED BY <1>11, <3>2
  <2> SUFFICES ASSUME NEW i \in 0 .. b - 1, NEW j \in 0 .. b - 1,
                      info_table'[i].size # 0, info_table'[j].size # 0,
                      info_table'[i].name = info_table'[j].name
               PROVE  i = j
    BY <1>1 DEF NamesDiffer
  <2>2. PICK k \in 0 .. b - 1 : info_table'[i] = info_table[k] /\ k = IF i < r - 1 THEN i ELSE i + 1
    BY <2>1
  <2>3. PICK l \in 0 .. b - 1 : info_table'[j] = info_table[l] /\ l = IF j < r - 1 THEN j ELSE j + 1
    BY <2>1
  <2>4. k = l
    BY <1>1, <1>2, <2>2, <2>3 DEF NamesDiffer
  <2> QED BY <1>3, <2>2, <2>3, <2>4
<1> QED BY <1>13, <1>14, <1>22, <1>23 DEF AnswerInv

LEMMA AnswerInitInv == Answer!Init => AnswerInv
<1> SUFFICES ASSUME Answer!Init PROVE AnswerInv
  OBVIOUS
<1>1. BUFMAX \in Nat
  BY AnswerAssumption
<1>2. /\ mem = [i \in 1 .. BUFMAX |-> 0] /\ cur_point = 0 /\ data_index = 0
      /\ info_table = [i \in 0 .. BUFMAX - 1 |-> [name |-> 0, size |-> 0]]
      /\ answerStored = <<>>
  BY DEF Answer!Init, Answer!Zeros, Answer!Entry, Answer!Blank
<1>3. [name |-> 0, size |-> 0] \in Row
  BY <1>1 DEF Row
<1>4. TableType
  <2>1. answerStored \in Seq(Seq(Nat)) /\ Len(answerStored) = data_index
    BY <1>2
  <2> QED BY <1>1, <1>2, <1>3, <2>1 DEF TableType
<1>5. Unused
  BY <1>2 DEF Unused
<1>6. AnswerKept
  BY <1>2, <1>4, BeginProperties DEF AnswerKept, OneAfterTheOther
<1>7. NamesDiffer
  BY <1>2 DEF NamesDiffer
<1> QED BY <1>4, <1>5, <1>6, <1>7 DEF AnswerInv

(* The bytes of a struct.                                                  *)
LEMMA StructBytesType ==
  ASSUME NEW n \in AnswerName, NEW types \in Answer!BoundedSeq(Type, MaxMembers)
  PROVE  Answer!FlattenSeq([k \in DOMAIN types |-> Answer!Value(n, k, Answer!Size[types[k]])]) \in Seq(Nat)
<1>1. PICK m \in 0 .. MaxMembers : types \in [1 .. m -> Type]
  BY AnswerSequencesAre DEF BoundedSeq, SeqOf
<1>2. PICK seqs : seqs = [k \in DOMAIN types |-> Answer!Value(n, k, Answer!Size[types[k]])]
  OBVIOUS
<1>3. m \in Nat /\ n \in Nat
  BY AnswerAssumption
<1>4. ASSUME NEW k \in 1 .. m PROVE Answer!Value(n, k, Answer!Size[types[k]]) \in Seq(Nat)
  <2>1. PICK size : size = Answer!Size[types[k]]
    OBVIOUS
  <2>2. size \in Nat /\ k \in Nat
    BY <1>1, <1>3, <2>1, SizeType DEF Answer!Size, Size
  <2>3. Value(n, k, size) \in Seq(Nat)
    BY <1>3, <2>2, ValueType
  <2> QED BY <2>1, <2>3, AnswerValueIs
<1>5. seqs \in Seq(Seq(Nat))
  <2>1. seqs \in [1 .. m -> Seq(Nat)]
    BY <1>1, <1>2, <1>4
  <2> QED BY <1>3, <2>1
<1>6. FlattenSeq(seqs) \in Seq(Nat)
  BY <1>5, FlattenType
<1> QED BY <1>2, <1>6, AnswerSequencesAre

LEMMA AnswerStepInv ==
  ASSUME AnswerInv, [Answer!Next]_answerVars
  PROVE  AnswerInv'
<1>1. UNCHANGED answerVars => AnswerInv'
  <2> SUFFICES ASSUME UNCHANGED answerVars PROVE AnswerInv'
    OBVIOUS
  <2>1. UNCHANGED <<mem, cur_point, info_table, data_index, answerStored>>
    BY DEF answerVars
  <2>2. Sizes' = Sizes
    BY <2>1 DEF Sizes
  <2>3. Begin' = Begin
    BY <2>2 DEF Begin
  <2>4. TableType' /\ Unused'
    BY <2>1 DEF AnswerInv, TableType, Unused
  <2>5. AnswerKept' /\ NamesDiffer'
    BY <2>1, <2>2, <2>3 DEF AnswerInv, AnswerKept, NamesDiffer
  <2> QED BY <2>4, <2>5 DEF AnswerInv
<1>2. UNCHANGED Answer!vars => UNCHANGED answerVars
  BY DEF Answer!vars, answerVars
<1>3. ASSUME NEW n \in AnswerName, Answer!Duplicate(n) PROVE AnswerInv'
  BY <1>1, <1>2, <1>3 DEF Answer!Duplicate
<1>4. ASSUME NEW n \in AnswerName, NEW t \in Type, Answer!AllocateValue(n, t) PROVE AnswerInv'
  <2>1. PICK size, v : size = Answer!Size[t] /\ v = Answer!Value(n, 0, size)
    OBVIOUS
  <2>2. v \in Seq(Nat) /\ Len(v) = size
    <3>1. size \in Nat /\ n \in Nat
      BY <2>1, SizeType, AnswerAssumption DEF Answer!Size, Size
    <3>2. Value(n, 0, size) \in Seq(Nat) /\ Len(Value(n, 0, size)) = size
      BY <3>1, ValueType
    <3> QED BY <2>1, <3>2, AnswerValueIs
  <2>3. CASE Answer!SpaceCheck(size)
    <3>1. Answer!Insert(n, v) /\ Answer!SearchName(n) = -1 /\ Answer!SpaceCheck(Len(v))
      BY <1>4, <2>1, <2>2, <2>3 DEF Answer!AllocateValue
    <3> QED BY <2>2, <3>1, AnswerInsertInv
  <2>4. CASE ~ Answer!SpaceCheck(size)
    BY <1>1, <1>2, <1>4, <2>1, <2>4 DEF Answer!AllocateValue
  <2> QED BY <2>3, <2>4
<1>5. ASSUME NEW n \in AnswerName, NEW types \in Answer!BoundedSeq(Type, MaxMembers),
             Answer!AllocateStruct(n, types)
      PROVE  AnswerInv'
  <2>1. PICK v : v = Answer!FlattenSeq([k \in DOMAIN types |-> Answer!Value(n, k, Answer!Size[types[k]])])
    OBVIOUS
  <2>2. v \in Seq(Nat)
    BY <2>1, StructBytesType
  <2>3. CASE Answer!SpaceCheck(Len(v))
    <3>1. Answer!Insert(n, v) /\ Answer!SearchName(n) = -1
      BY <1>5, <2>1, <2>3 DEF Answer!AllocateStruct
    <3> QED BY <2>2, <2>3, <3>1, AnswerInsertInv
  <2>4. CASE ~ Answer!SpaceCheck(Len(v))
    BY <1>1, <1>2, <1>5, <2>1, <2>4 DEF Answer!AllocateStruct
  <2> QED BY <2>3, <2>4
<1>6. ASSUME NEW n \in AnswerName, Answer!TooManyMembers(n, BUFMAX + 1) \/ Answer!NoSuchName(n)
      PROVE  AnswerInv'
  BY <1>1, <1>2, <1>6 DEF Answer!TooManyMembers, Answer!NoSuchName
<1>7. ASSUME NEW n \in AnswerName, Answer!Deallocate(n) PROVE AnswerInv'
  BY <1>7, AnswerRemoveInv
<1> QED BY <1>1, <1>3, <1>4, <1>5, <1>6, <1>7 DEF Answer!Next

LEMMA AnswerInvMeans ==
  AnswerInv => Answer!TypeOK /\ Answer!TableAgrees /\ Answer!TableLasts /\ Answer!ValuesIntact
<1> SUFFICES ASSUME AnswerInv
             PROVE  Answer!TypeOK /\ Answer!TableAgrees /\ Answer!TableLasts /\ Answer!ValuesIntact
  OBVIOUS
<1>1. PICK b, d, s, f : b = BUFMAX /\ d = data_index /\ s = Sizes /\ f = Begin
  OBVIOUS
<1>2. TableType /\ Unused /\ AnswerKept
  BY DEF AnswerInv
<1>3. b \in Nat /\ d \in Nat /\ d <= b /\ cur_point \in 0 .. b
  BY <1>1, <1>2, AnswerAssumption DEF TableType
<1>4. \A i : Answer!CalculatePosition(i) = f[i]
  BY <1>1, AnswerSequencesAre DEF Answer!CalculatePosition, Begin, Sizes
<1>5. /\ s \in Seq(Nat) /\ Len(s) = b /\ f = PrefixSums(s) /\ f[d] = cur_point
      /\ \A i \in 0 .. b : f[i] \in Nat
      /\ \A i \in 1 .. b : f[i] = f[i - 1] + s[i]
      /\ \A j \in 0 .. b : \A i \in 0 .. j : f[i] <= f[j]
  <2>1. OneAfterTheOther
    BY <1>2, BeginProperties
  <2> QED BY <1>1, <1>2, <2>1 DEF OneAfterTheOther, Begin, AnswerKept
<1>6. \A i \in 1 .. d : Len(answerStored[i]) = s[i] /\ \A k \in 1 .. s[i] : mem[f[i - 1] + k] = answerStored[i][k]
  BY <1>1, <1>2 DEF AnswerKept
<1>7. Answer!TypeOK
  BY <1>2 DEF Answer!TypeOK, Answer!Entry, TableType, Row
<1>8. Answer!TableAgrees
  <2>1. \A p \in (cur_point + 1) .. BUFMAX : p \in 1 .. BUFMAX /\ cur_point < p
    BY <1>1, <1>3
  <2> QED BY <1>1, <1>2, <1>4, <1>5, <2>1 DEF Answer!TableAgrees, Answer!Entry, Answer!Blank, Unused
<1>9. Answer!TableLasts
  <2> SUFFICES ASSUME d = b, \A i \in DOMAIN answerStored : answerStored[i] # <<>>
               PROVE  cur_point = b
    BY <1>1 DEF Answer!TableLasts
  <2>1. answerStored \in Seq(Seq(Nat)) /\ Len(answerStored) = d
    BY <1>1, <1>2 DEF TableType
  <2>2. ASSUME NEW i \in 1 .. d PROVE s[i] # 0
    <3>1. answerStored[i] \in Seq(Nat) /\ answerStored[i] # <<>>
      <4>1. i \in DOMAIN answerStored
        BY <1>3, <2>1
      <4> QED BY <2>1, <4>1, ElementOfSeq
    <3>2. Len(answerStored[i]) # 0
      BY <3>1, EmptySeq
    <3> QED BY <1>6, <3>2
  <2>3. d \in 0 .. Len(s)
    BY <1>3, <1>5
  <2>4. d <= PrefixSums(s)[d]
    BY <1>5, <2>2, <2>3, PrefixSumsAtLeast
  <2> QED BY <1>3, <1>5, <2>4
<1>10. Answer!ValuesIntact
  <2> SUFFICES ASSUME NEW i \in 0 .. d - 1 PROVE answerStored[i + 1] = SubSeq(mem, f[i] + 1, f[i + 1])
    BY <1>1, <1>4 DEF Answer!ValuesIntact
  <2>1. /\ i + 1 \in 1 .. d /\ i + 1 \in 1 .. b /\ i + 1 - 1 = i /\ i \in 0 .. b /\ i + 1 \in 0 .. b
        /\ d \in 0 .. b /\ i + 1 \in 0 .. d
    BY <1>3
  <2>2. PICK a, w, v : a = f[i] /\ w = s[i + 1] /\ v = answerStored[i + 1]
    OBVIOUS
  <2>3. a \in Nat /\ w \in Nat /\ f[i + 1] = a + w
    <3>1. w \in Nat
      BY <1>5, <2>1, <2>2, ElementOfSeq
    <3> QED BY <1>5, <2>1, <2>2, <3>1
  <2>4. v \in Seq(Nat) /\ Len(v) = w /\ \A k \in 1 .. w : mem[a + k] = v[k]
    <3>1. v \in Seq(Nat)
      BY <1>1, <1>2, <2>1, <2>2, ElementOfSeq DEF TableType
    <3>2. Len(v) = w /\ \A k \in 1 .. w : mem[a + k] = v[k]
      BY <1>6, <2>1, <2>2
    <3> QED BY <3>1, <3>2
  <2>5. PICK u : u = SubSeq(mem, a + 1, a + w)
    OBVIOUS
  <2>6. u = [k \in 1 .. w |-> mem[a + k]]
    <3>1. a + w - (a + 1) + 1 = w /\ \A k \in 1 .. w : a + 1 + k - 1 = a + k
      BY <2>3
    <3> QED BY <2>3, <2>5, <3>1 DEF SubSeq
  <2>7. v = [k \in 1 .. w |-> v[k]]
    BY <2>4
  <2> QED BY <2>2, <2>3, <2>4, <2>5, <2>6, <2>7
<1> QED BY <1>7, <1>8, <1>9, <1>10
-----------------------------------------------------------------------------
(***************************************************************************)
(* Both heaps                                                              *)
(***************************************************************************)
BothInv == IInv /\ AnswerInv

(* Every reachable state of the two heaps meets their invariants.          *)
THEOREM InvCorrect == BothSpec => []BothInv
<1>1. BothInit => BothInv
  BY InitInv, AnswerInitInv DEF BothInit, BothInv
<1>2. BothInv /\ [BothNext]_<<vars, answerVars>> => BothInv'
  <2> SUFFICES ASSUME BothInv, [BothNext]_<<vars, answerVars>> PROVE BothInv'
    OBVIOUS
  <2>1. [Next]_vars /\ [Answer!Next]_answerVars
    BY DEF BothNext
  <2> QED BY <2>1, StepInv, AnswerStepInv DEF BothInv
<1> QED BY <1>1, <1>2, PTL DEF BothSpec

(* The accounts of what is used agree in both heaps, after any sequence of *)
(* allocations, refusals and removals: the list's addresses and sizes,     *)
(* total_size and now in hw4, the table, data_index, cur_point and the     *)
(* zeroed rest of the memory in the answer.                                *)
THEOREM AccountsAgreeCorrect == BothSpec => []AccountsAgree
<1>1. BothInv => AccountsAgree
  BY InvMeans, AnswerInvMeans DEF BothInv, AccountsAgree
<1> QED BY <1>1, InvCorrect, PTL

(* Every value in either heap is what was entered, wherever the removals   *)
(* of others have moved it (removeAsName, deallocate_mem).                 *)
THEOREM ValuesKeptCorrect == BothSpec => []ValuesKept
<1>1. BothInv => ValuesKept
  BY InvMeans, AnswerInvMeans DEF BothInv, ValuesKept
<1> QED BY <1>1, InvCorrect, PTL
-----------------------------------------------------------------------------
(***************************************************************************)
(* Names come and go as a whole                                            *)
(***************************************************************************)
Block(Names) == [name : Names, data : Seq(Nat)]

Lengths(s) == [i \in DOMAIN s |-> Len(s[i].data)]
Total(s) == PrefixSums(Lengths(s))[Len(s)]

(* What a step of NamedBlocks does, of the blocks s before and t after.    *)
Allocates(s, t, n, size) ==
  /\ \A i \in 1 .. Len(s) : s[i].name # n
  /\ IsPrefix(s, t)
  /\ \A i \in (Len(s) + 1) .. Len(t) : t[i].name = n
  /\ Total(t) <= size

Deallocates(s, t, n) == t = Select(s, [i \in DOMAIN s |-> s[i].name # n])

LEMMA LengthsType ==
  ASSUME NEW Names, NEW s \in Seq(Block(Names))
  PROVE  Lengths(s) \in Seq(Nat) /\ Len(Lengths(s)) = Len(s)
<1>1. PICK n : n = Len(s) /\ n \in Nat
  OBVIOUS
<1>2. ASSUME NEW i \in 1 .. n PROVE Len(s[i].data) \in Nat
  <2>1. s[i] \in Block(Names)
    BY <1>1, ElementOfSeq
  <2>2. s[i].data \in Seq(Nat)
    BY <2>1 DEF Block
  <2> QED BY <2>2
<1>3. DOMAIN s = 1 .. n
  BY <1>1
<1>4. Lengths(s) \in [1 .. n -> Nat] /\ DOMAIN Lengths(s) = 1 .. n
  BY <1>2, <1>3 DEF Lengths
<1> QED BY <1>1, <1>4

(* One more block takes its length more.                                   *)
LEMMA TotalAppend ==
  ASSUME NEW Names, NEW s \in Seq(Block(Names)), NEW x \in Block(Names)
  PROVE  Total(s) \in Nat /\ Total(Append(s, x)) = Total(s) + Len(x.data)
<1>1. PICK n, t : n = Len(s) /\ n \in Nat /\ t = Append(s, x)
  <2>1. Len(s) \in Nat
    OBVIOUS
  <2> QED BY <2>1
<1>2. /\ t \in Seq(Block(Names)) /\ Len(t) = n + 1 /\ t[n + 1] = x
      /\ \A i \in 1 .. n : t[i] = s[i]
  BY <1>1, AppendProperties
<1>3. PICK a, b : a = Lengths(s) /\ b = Lengths(t)
  OBVIOUS
<1>4. a \in Seq(Nat) /\ Len(a) = n /\ b \in Seq(Nat) /\ Len(b) = n + 1
  BY <1>1, <1>2, <1>3, LengthsType
<1>5. (\A i \in 1 .. n : b[i] = a[i]) /\ b[n + 1] = Len(x.data)
  <2>1. DOMAIN s = 1 .. n /\ DOMAIN t = 1 .. n + 1
    BY <1>1, <1>2
  <2>2. (\A i \in 1 .. n : a[i] = Len(s[i].data)) /\ (\A i \in 1 .. n + 1 : b[i] = Len(t[i].data))
    BY <1>3, <2>1 DEF Lengths
  <2>3. n + 1 \in 1 .. n + 1 /\ \A i \in 1 .. n : i \in 1 .. n + 1
    BY <1>1
  <2> QED BY <1>2, <2>2, <2>3
<1>6. PICK f, g : f = PrefixSums(a) /\ g = PrefixSums(b)
  OBVIOUS
<1>7. f[n] \in Nat
  <2>1. n \in 0 .. Len(a)
    BY <1>1, <1>4
  <2> QED BY <1>4, <1>6, <2>1, PrefixSumsProperties
<1>8. g[n + 1] = g[n] + b[n + 1]
  <2>1. n + 1 \in 1 .. Len(b) /\ n + 1 - 1 = n
    BY <1>1, <1>4
  <2> QED BY <1>4, <1>6, <2>1, PrefixSumsProperties
<1>9. g[n] = f[n]
  <2>1. n <= Len(a) /\ n <= Len(b) /\ n \in 0 .. n
    BY <1>1, <1>4
  <2> QED BY <1>1, <1>4, <1>5, <1>6, <2>1, PrefixSumsAgree
<1> QED BY <1>1, <1>2, <1>3, <1>5, <1>6, <1>7, <1>8, <1>9 DEF Total

LEMMA PrefixOfAppend ==
  ASSUME NEW S, NEW s \in Seq(S), NEW x \in S
  PROVE  IsPrefix(s, Append(s, x))
<1>1. PICK n, t : n = Len(s) /\ n \in Nat /\ t = Append(s, x)
  <2>1. Len(s) \in Nat
    OBVIOUS
  <2> QED BY <2>1
<1>2. t \in Seq(S) /\ Len(t) = n + 1 /\ \A i \in 1 .. n : t[i] = s[i]
  BY <1>1, AppendProperties
<1>3. SubSeq(s, 1, n) = [i \in 1 .. n |-> s[i]]
  BY <1>1, SubSeqFirst
<1>4. SubSeq(t, 1, n) = [i \in 1 .. n |-> t[i]]
  <2>1. n \in 0 .. Len(t)
    BY <1>1, <1>2
  <2> QED BY <1>2, <2>1, SubSeqFirst
<1>5. SubSeq(s, 1, n) = SubSeq(t, 1, n)
  BY <1>2, <1>3, <1>4
<1> QED BY <1>1, <1>2, <1>5 DEF IsPrefix

LEMMA PrefixOfFirst ==
  ASSUME NEW S, NEW s \in Seq(S), NEW m \in 0 .. Len(s)
  PROVE  IsPrefix(SubSeq(s, 1, m), s) /\ Len(SubSeq(s, 1, m)) = m
<1>1. PICK u : u = SubSeq(s, 1, m)
  OBVIOUS
<1>2. u = [i \in 1 .. m |-> s[i]] /\ m \in Nat /\ m <= Len(s)
  BY <1>1, SubSeqFirst
<1>3. ASSUME NEW i \in 1 .. m PROVE s[i] \in S
  <2>1. i \in 1 .. Len(s)
    BY <1>2
  <2> QED BY <2>1, ElementOfSeq
<1>4. u \in Seq(S) /\ Len(u) = m
  BY <1>2, <1>3
<1>5. SubSeq(u, 1, m) = [i \in 1 .. m |-> u[i]]
  <2>1. m \in 0 .. Len(u)
    BY <1>2, <1>4
  <2> QED BY <1>4, <2>1, SubSeqFirst
<1>6. SubSeq(u, 1, m) = u
  BY <1>2, <1>5
<1> QED BY <1>1, <1>2, <1>4, <1>6 DEF IsPrefix

(* hw4: an entry for each node, and those that count.                      *)
Entries == [i \in DOMAIN nodes |-> [name |-> nodes[i].name, data |-> stored[i]]]
Counts == [i \in DOMAIN nodes |-> job = Idle \/ nodes[i].name # job.name]
Standing == Select(Entries, Counts)

LEMMA BlocksStep ==
  /\ Blocks!Init <=> Standing = <<>>
  /\ \A n \in Name : Allocates(Standing, Standing', n, BYTE_SIZE) /\ DOMAIN Standing = 1 .. Len(Standing)
                       => Blocks!Next
  /\ \A n \in Name : Deallocates(Standing, Standing', n) => Blocks!Next
<1>1. /\ \A s, k : Blocks!Select(s, k) = Select(s, k)
      /\ \A s : Blocks!PrefixSums(s) = PrefixSums(s)
      /\ \A s, t : Blocks!IsPrefix(s, t) = IsPrefix(s, t)
  <2>1. \A s, k : Blocks!Select(s, k) = Select(s, k)
    BY DEF Blocks!Select, Select
  <2>2. \A s : Blocks!PrefixSums(s) = PrefixSums(s)
    BY DEF Blocks!PrefixSums, PrefixSums
  <2>3. \A s, t : Blocks!IsPrefix(s, t) = IsPrefix(s, t)
    BY DEF Blocks!IsPrefix, IsPrefix
  <2> QED BY <2>1, <2>2, <2>3
<1>2. Blocks!Init <=> Standing = <<>>
  BY DEF Blocks!Init, Standing, Entries, Counts
<1>3. ASSUME NEW n \in Name, Allocates(Standing, Standing', n, BYTE_SIZE),
             DOMAIN Standing = 1 .. Len(Standing)
      PROVE  Blocks!Allocate(n)
  BY <1>1, <1>3 DEF Blocks!Allocate, Blocks!Used, Blocks!SizeOf, Allocates, Total, Lengths, Standing, Entries, Counts
<1>4. ASSUME NEW n \in Name, Deallocates(Standing, Standing', n) PROVE Blocks!Deallocate(n)
  BY <1>1, <1>4 DEF Blocks!Deallocate, Blocks!Without, Deallocates, Standing, Entries, Counts
<1> QED BY <1>2, <1>3, <1>4 DEF Blocks!Next

EntryForEach ==
  /\ Entries \in Seq(Block(Name)) /\ Len(Entries) = Len(nodes)
  /\ \A i \in 1 .. Len(nodes) : Entries[i] = [name |-> nodes[i].name, data |-> stored[i]]
  /\ Total(Entries) <= BYTE_SIZE

LEMMA EntriesType == HeapInv => EntryForEach
<1> SUFFICES ASSUME HeapInv PROVE EntryForEach
  OBVIOUS
<1>1. PICK n : n = Len(nodes) /\ n \in Nat /\ DOMAIN nodes = 1 .. n
  BY DEF HeapInv, HeapType
<1>2. ASSUME NEW i \in 1 .. n
      PROVE  [name |-> nodes[i].name, data |-> stored[i]] \in Block(Name)
  <2>1. nodes[i] \in Node
    BY <1>1, ElementOfSeq DEF HeapInv, HeapType
  <2>2. stored[i] \in Seq(Nat)
    BY <1>1, ElementOfSeq DEF HeapInv, HeapType
  <2> QED BY <2>1, <2>2 DEF Node, Block
<1>3. Entries \in [1 .. n -> Block(Name)]
  BY <1>1, <1>2 DEF Entries
<1>4. Entries \in Seq(Block(Name)) /\ Len(Entries) = n /\ DOMAIN Entries = 1 .. n
  BY <1>1, <1>3
<1>5. \A i \in 1 .. n : Entries[i] = [name |-> nodes[i].name, data |-> stored[i]]
  BY <1>1 DEF Entries
<1>6. Total(Entries) <= BYTE_SIZE
  <2>1. \A i \in 1 .. n : Len(Entries[i].data) = nodes[i].size
    <3>1. ASSUME NEW i \in 1 .. n PROVE Entries[i].data = stored[i]
      <4>1. PICK a, b : a = nodes[i].name /\ b = stored[i]
        OBVIOUS
      <4>2. Entries[i] = [name |-> a, data |-> b]
        BY <1>5, <4>1
      <4> QED BY <4>1, <4>2
    <3>2. \A i \in 1 .. n : Len(stored[i]) = nodes[i].size
      BY <1>1 DEF HeapInv, Kept
    <3> QED BY <3>1, <3>2
  <2>2. Lengths(Entries) = [i \in DOMAIN nodes |-> nodes[i].size]
    BY <1>1, <1>4, <2>1 DEF Lengths
  <2>3. Total(Entries) = SizeBeforeMe(n + 1)
    <3>1. n + 1 - 1 = n
      BY <1>1
    <3> QED BY <1>4, <2>2, <3>1 DEF Total, SizeBeforeMe
  <2>4. Total(Entries) = now
    BY <1>1, <2>3, SizeBeforeMeIs
  <2> QED BY <2>4, ByteSizeAssumption DEF HeapInv, HeapType
<1> QED BY <1>1, <1>4, <1>5, <1>6 DEF EntryForEach

(* Between commands every node counts.                                     *)
AllCount == \A i \in 1 .. Len(nodes) : job = Idle \/ nodes[i].name # job.name

LEMMA StandingAll == HeapInv /\ AllCount => Standing = Entries
<1> SUFFICES ASSUME HeapInv, AllCount PROVE Standing = Entries
  OBVIOUS
<1>1. PICK e, k, S : e = Entries /\ k = Counts /\ S = Block(Name)
  OBVIOUS
<1>2. e \in Seq(S) /\ Len(e) = Len(nodes)
  BY <1>1, EntriesType DEF EntryForEach
<1>3. \A i \in 1 .. Len(e) : k[i]
  <2>1. DOMAIN nodes = 1 .. Len(nodes)
    BY DEF HeapInv, HeapType
  <2> QED BY <1>1, <1>2, <2>1 DEF Counts, AllCount
<1>4. Select(e, k) = e
  BY <1>2, <1>3, SelectAll
<1> QED BY <1>1, <1>4 DEF Standing

(* A new name, whose values are the last.                                  *)
LEMMA NewName ==
  ASSUME NEW Names, NEW s \in Seq(Block(Names)), NEW m \in 0 .. Len(s), NEW n, NEW size \in Nat,
         \A i \in 1 .. Len(s) : s[i].name # n <=> i <= m,
         Total(s) <= size
  PROVE  Allocates(SubSeq(s, 1, m), s, n, size)
<1>1. PICK u, len : u = SubSeq(s, 1, m) /\ len = Len(s) /\ len \in Nat
  <2>1. Len(s) \in Nat
    OBVIOUS
  <2> QED BY <2>1
<1>2. IsPrefix(u, s) /\ Len(u) = m
  BY <1>1, PrefixOfFirst
<1>3. u = [i \in 1 .. m |-> s[i]]
  BY <1>1, SubSeqFirst
<1>4. \A i \in 1 .. m : u[i].name # n
  <2>1. \A i \in 1 .. m : i \in 1 .. len /\ i <= m
    BY <1>1
  <2> QED BY <1>1, <1>3, <2>1
<1>5. \A i \in m + 1 .. len : s[i].name = n
  <2>1. \A i \in m + 1 .. len : i \in 1 .. len /\ ~ (i <= m)
    BY <1>1
  <2> QED BY <1>1, <2>1
<1> QED BY <1>1, <1>2, <1>4, <1>5 DEF Allocates

LEMMA InitStands == IInv /\ Init => Blocks!Init
<1> SUFFICES ASSUME IInv, Init PROVE Standing = <<>>
  BY BlocksStep
<1>1. HeapInv /\ Len(nodes) = 0
  BY DEF IInv, Init
<1>2. Standing = Entries
  BY <1>1, StandingAll DEF AllCount
<1>3. Entries \in Seq(Block(Name)) /\ Len(Entries) = 0
  BY <1>1, EntriesType DEF EntryForEach
<1> QED BY <1>2, <1>3, EmptySeq

(* A member that is added does not count yet.                              *)
LEMMA MemberStands ==
  ASSUME IInv, IInv', job.op = "struct", job' # Idle, job'.name = job.name,
         NEW member, NEW size, Insert(job.name, member, size)
  PROVE  Standing' = Standing
<1>1. HeapInv /\ HeapInv'
  BY DEF IInv
<1>2. PICK e, k, f, l, S, n : /\ e = Entries /\ k = Counts /\ f = Entries' /\ l = Counts'
                              /\ S = Block(Name) /\ n = Len(nodes)
  OBVIOUS
<1>3. PICK x : x = [name |-> job.name, data |-> Value(job.name, member, size)]
  OBVIOUS
<1>4. /\ n \in Nat /\ DOMAIN nodes = 1 .. n /\ DOMAIN nodes' = 1 .. n + 1
      /\ nodes'[n + 1].name = job.name /\ \A i \in 1 .. n : nodes'[i] = nodes[i]
      /\ stored'[n + 1] = Value(job.name, member, size) /\ \A i \in 1 .. n : stored'[i] = stored[i]
  <2>1. PICK r, v : r = [name |-> job.name, address |-> now, size |-> size]
                    /\ v = Value(job.name, member, size)
    OBVIOUS
  <2>2. nodes' = Append(nodes, r) /\ stored' = Append(stored, v)
    BY <2>1 DEF Insert
  <2>3. nodes \in Seq(Node) /\ stored \in Seq(Seq(Nat)) /\ Len(stored) = n
    BY <1>1, <1>2 DEF HeapInv, HeapType
  <2>4. n \in Nat /\ DOMAIN nodes = 1 .. n /\ DOMAIN nodes' = 1 .. n + 1
        /\ nodes'[n + 1] = r /\ \A i \in 1 .. n : nodes'[i] = nodes[i]
    BY <1>2, <2>2, <2>3
  <2>5. stored'[n + 1] = v /\ \A i \in 1 .. n : stored'[i] = stored[i]
    BY <1>2, <2>2, <2>3
  <2> QED BY <2>1, <2>4, <2>5
<1>5. e \in Seq(S) /\ Len(e) = n /\ \A i \in 1 .. n : e[i] = [name |-> nodes[i].name, data |-> stored[i]]
  BY <1>1, <1>2, EntriesType DEF EntryForEach
<1>6. f \in Seq(S) /\ Len(f) = n + 1 /\ f[n + 1] = x /\ \A i \in 1 .. n : f[i] = e[i]
  <2>1. HeapInv' => EntryForEach'
    BY EntriesType, PTL
  <2>2. f \in Seq(S) /\ Len(f) = Len(nodes')
    BY <1>1, <1>2, <2>1 DEF EntryForEach
  <2>3. f = [i \in 1 .. n + 1 |-> [name |-> nodes'[i].name, data |-> stored'[i]]]
    BY <1>2, <1>4 DEF Entries
  <2>4. Len(f) = n + 1
    BY <1>4, <2>2, <2>3
  <2>5. n + 1 \in 1 .. n + 1 /\ \A i \in 1 .. n : i \in 1 .. n + 1
    BY <1>4
  <2> QED BY <1>3, <1>4, <1>5, <2>2, <2>3, <2>4, <2>5
<1>7. f = Append(e, x) /\ x \in S
  <2>1. x \in S
    <3>1. n + 1 \in 1 .. Len(f)
      BY <1>4, <1>6
    <3> QED BY <1>6, <3>1, ElementOfSeq
  <2>2. Append(e, x) \in Seq(S) /\ Len(Append(e, x)) = n + 1
        /\ Append(e, x)[n + 1] = x /\ \A i \in 1 .. n : Append(e, x)[i] = e[i]
    BY <1>5, <2>1, AppendProperties
  <2>3. \A i \in 1 .. n + 1 : i \in 1 .. n \/ i = n + 1
    BY <1>4
  <2>4. \A i \in 1 .. n + 1 : f[i] = Append(e, x)[i]
    BY <1>6, <2>2, <2>3
  <2> QED BY <1>6, <2>1, <2>2, <2>4, SeqEqual
<1>8. ~ l[n + 1] /\ \A i \in 1 .. n : l[i] = k[i]
  <2>1. job # Idle
    BY DEF Idle
  <2>2. k = [i \in 1 .. n |-> job = Idle \/ nodes[i].name # job.name]
        /\ l = [i \in 1 .. n + 1 |-> job' = Idle \/ nodes'[i].name # job'.name]
    BY <1>2, <1>4 DEF Counts
  <2>3. n + 1 \in 1 .. n + 1 /\ \A i \in 1 .. n : i \in 1 .. n + 1
    BY <1>4
  <2> QED BY <1>4, <2>1, <2>2, <2>3
<1>9. Select(Append(e, x), l) = IF l[n + 1] THEN Append(Select(e, k), x) ELSE Select(e, k)
  BY <1>5, <1>7, <1>8, SelectAppend
<1> QED BY <1>2, <1>7, <1>8, <1>9 DEF Standing

(* A node that goes has not counted since its removal began.               *)
LEMMA RemoveStands ==
  ASSUME IInv, IInv', RemoveNode
  PROVE  Standing' = Standing
<1>1. HeapInv /\ HeapInv'
  BY DEF IInv
<1>2. PICK e, k, f, l, S, n, r :
        /\ e = Entries /\ k = Counts /\ f = Entries' /\ l = Counts'
        /\ S = Block(Name) /\ n = Len(nodes) /\ r = FindNode(job.name)
  OBVIOUS
<1>3. r \in 1 .. n /\ nodes[r].name = job.name /\ n \in Nat
  <2>1. PICK name : name = job.name
    OBVIOUS
  <2>2. Found(name) /\ nodes \in Seq(Node)
    BY <1>1, <2>1 DEF RemoveNode, HeapInv, HeapType
  <2>3. FindNode(name) \in 1 .. Len(nodes) /\ nodes[FindNode(name)].name = name
    BY <2>2, FindNodeProperties
  <2>4. n \in Nat
    BY <1>2, <2>2
  <2> QED BY <1>2, <2>1, <2>3, <2>4
<1>4. /\ DOMAIN nodes = 1 .. n /\ Len(nodes') = n - 1 /\ DOMAIN nodes' = 1 .. n - 1
      /\ \A i \in 1 .. n - 1 : nodes'[i].name = IF i < r THEN nodes[i].name ELSE nodes[i + 1].name
  <2>1. nodes' = Unlinked(r)
    BY <1>2 DEF RemoveNode
  <2>2. Len(nodes') = n - 1 /\ \A i \in 1 .. n - 1 : /\ i < r => nodes'[i] = nodes[i]
                                                     /\ r <= i => nodes'[i].name = nodes[i + 1].name
    BY <1>1, <1>2, <1>3, <2>1, UnlinkedProperties
  <2>3. DOMAIN nodes = 1 .. n /\ DOMAIN nodes' = 1 .. n - 1
    BY <1>1, <1>2, <2>2 DEF HeapInv, HeapType
  <2>4. \A i \in 1 .. n - 1 : i < r \/ r <= i
    BY <1>3
  <2> QED BY <2>2, <2>3, <2>4
<1>5. \A i \in 1 .. n - 1 : stored'[i] = IF i < r THEN stored[i] ELSE stored[i + 1]
  <2>1. stored \in Seq(Seq(Nat)) /\ Len(stored) = n /\ stored' = RemoveAt(stored, r)
    BY <1>1, <1>2 DEF HeapInv, HeapType, RemoveNode
  <2>2. PICK q : q = stored
    OBVIOUS
  <2>3. \A i \in 1 .. n - 1 : RemoveAt(q, r)[i] = IF i < r THEN q[i] ELSE q[i + 1]
    BY <1>3, <2>1, <2>2, RemoveAtProperties
  <2> QED BY <2>1, <2>2, <2>3
<1>6. e \in Seq(S) /\ Len(e) = n /\ \A i \in 1 .. n : e[i] = [name |-> nodes[i].name, data |-> stored[i]]
  BY <1>1, <1>2, EntriesType DEF EntryForEach
<1>7. /\ f \in Seq(S) /\ Len(f) = n - 1
      /\ \A i \in 1 .. n - 1 : f[i] = [name |-> nodes'[i].name, data |-> stored'[i]]
  <2>1. HeapInv' => EntryForEach'
    BY EntriesType, PTL
  <2> QED BY <1>1, <1>2, <1>4, <2>1 DEF EntryForEach
<1>8. \A i \in 1 .. n - 1 : f[i] = IF i < r THEN e[i] ELSE e[i + 1]
  <2> SUFFICES ASSUME NEW i \in 1 .. n - 1 PROVE f[i] = IF i < r THEN e[i] ELSE e[i + 1]
    OBVIOUS
  <2>1. i \in 1 .. n /\ i + 1 \in 1 .. n
    BY <1>3
  <2>2. CASE i < r
    BY <1>4, <1>5, <1>6, <1>7, <2>1, <2>2
  <2>3. CASE ~ (i < r)
    BY <1>4, <1>5, <1>6, <1>7, <2>1, <2>3, SMTT(30)
  <2> QED BY <2>2, <2>3
<1>9. f = RemoveAt(e, r)
  <2>1. /\ RemoveAt(e, r) \in Seq(S) /\ Len(RemoveAt(e, r)) = n - 1
        /\ \A i \in 1 .. n - 1 : RemoveAt(e, r)[i] = IF i < r THEN e[i] ELSE e[i + 1]
    BY <1>3, <1>6, RemoveAtProperties
  <2>2. \A i \in 1 .. n - 1 : f[i] = RemoveAt(e, r)[i]
    BY <1>8, <2>1
  <2> QED BY <1>7, <2>1, <2>2, SeqEqual
<1>10. ~ k[r] /\ \A i \in 1 .. n - 1 : l[i] = IF i < r THEN k[i] ELSE k[i + 1]
  <2>1. job' = job /\ job # Idle
    BY DEF RemoveNode, Idle
  <2>2. k = [i \in 1 .. n |-> nodes[i].name # job.name]
        /\ l = [i \in 1 .. n - 1 |-> nodes'[i].name # job.name]
    BY <1>2, <1>4, <2>1 DEF Counts
  <2>3. \A i \in 1 .. n - 1 : i \in 1 .. n /\ i + 1 \in 1 .. n
    BY <1>3
  <2>4. \A i \in 1 .. n - 1 : l[i] = IF i < r THEN k[i] ELSE k[i + 1]
    <3> SUFFICES ASSUME NEW i \in 1 .. n - 1 PROVE l[i] = IF i < r THEN k[i] ELSE k[i + 1]
      OBVIOUS
    <3>1. CASE i < r
      BY <1>4, <2>2, <2>3, <3>1
    <3>2. CASE ~ (i < r)
      BY <1>4, <2>2, <2>3, <3>2
    <3> QED BY <3>1, <3>2
  <2> QED BY <1>3, <2>2, <2>4
<1>11. Select(RemoveAt(e, r), l) = Select(e, k)
  BY <1>3, <1>6, <1>10, SelectRemoveAt
<1> QED BY <1>2, <1>9, <1>11 DEF Standing

LEMMA StepStands ==
  ASSUME IInv, IInv', Next
  PROVE  Standing' = Standing \/ Blocks!Next
<1>1. /\ HeapInv /\ HeapInv' /\ JobType /\ StructLast
      /\ Len(nodes) \in Nat /\ DOMAIN nodes = 1 .. Len(nodes)
  BY DEF IInv, HeapInv, HeapType
<1>2. EntryForEach /\ EntryForEach'
  <2>1. HeapInv' => EntryForEach'
    BY EntriesType, PTL
  <2> QED BY <1>1, <2>1, EntriesType
<1>3. UNCHANGED heapVars => Entries' = Entries
  BY DEF heapVars, Entries
<1>4. UNCHANGED heapVars /\ Counts' = Counts => Standing' = Standing
  BY <1>3 DEF Standing
<1>5. UNCHANGED vars => Standing' = Standing
  BY <1>4 DEF vars, heapVars, Counts
<1>6. job = Idle => Standing = Entries
  BY <1>1, StandingAll DEF AllCount
<1>7. HeapInv' /\ AllCount' => Standing' = Entries'
  <2>1. (HeapInv /\ AllCount => Standing = Entries)'
    BY StandingAll, PTL
  <2> QED BY <2>1
<1>8. job' = Idle => Standing' = Entries'
  BY <1>1, <1>7 DEF AllCount
<1>9. DOMAIN Standing = 1 .. Len(Standing)
  <2>1. PICK e, k, S : e = Entries /\ k = Counts /\ S = Block(Name)
    OBVIOUS
  <2>2. e \in Seq(S)
    BY <1>2, <2>1 DEF EntryForEach
  <2>3. Select(e, k) \in Seq(S)
    BY <2>2, SelectType
  <2>4. Standing \in Seq(S)
    BY <2>1, <2>3 DEF Standing
  <2> QED BY <2>4
<1>10. ASSUME NEW n \in Name, Deallocate(n) PROVE Standing' = Standing \/ Blocks!Next
  <2>1. CASE nodes = <<>>
    BY <1>5, <1>10, <2>1 DEF Deallocate, vars
  <2>2. CASE nodes # <<>>
    <3>1. job = Idle /\ UNCHANGED heapVars /\ job' = [op |-> "remove", name |-> n]
      BY <1>10, <2>2 DEF Deallocate, StartRemoving
    <3>2. Standing = Entries /\ Entries' = Entries
      BY <1>3, <1>6, <3>1
    <3>3. Counts' = [i \in DOMAIN nodes |-> nodes[i].name # n]
      BY <3>1 DEF Counts, heapVars, Idle
    <3>4. [i \in DOMAIN Entries |-> Entries[i].name # n] = [i \in DOMAIN nodes |-> nodes[i].name # n]
      <4>1. DOMAIN Entries = DOMAIN nodes
        BY DEF Entries
      <4>2. ASSUME NEW i \in DOMAIN nodes PROVE Entries[i].name = nodes[i].name
        <5>1. PICK a, b : a = nodes[i].name /\ b = stored[i]
          OBVIOUS
        <5>2. Entries[i] = [name |-> a, data |-> b]
          BY <5>1 DEF Entries
        <5> QED BY <5>1, <5>2
      <4> QED BY <4>1, <4>2
    <3>5. Deallocates(Standing, Standing', n)
      BY <3>2, <3>3, <3>4 DEF Deallocates, Standing
    <3> QED BY <3>5, BlocksStep
  <2> QED BY <2>1, <2>2
<1>11. ASSUME NEW n \in Name, AlreadyExists(n) PROVE Standing' = Standing
  BY <1>5, <1>11 DEF AlreadyExists
<1>12. ASSUME NEW n \in Name, NEW howMany \in 0 .. MaxMembers, AllocateStruct(n, howMany)
       PROVE  Standing' = Standing
  <2>1. job = Idle /\ UNCHANGED heapVars /\ job'.name = n
    BY <1>12 DEF AllocateStruct
  <2>2. \A i \in 1 .. Len(nodes) : nodes[i].name # n
    BY <1>1, <1>12 DEF AllocateStruct, Found
  <2>3. \A i \in 1 .. Len(nodes') : job' = Idle \/ nodes'[i].name # job'.name
    BY <2>1, <2>2 DEF heapVars
  <2> QED BY <1>1, <1>3, <1>6, <1>7, <2>1, <2>3 DEF AllCount
<1>13. ASSUME job.op = "struct", StartRemoving(job.name), nodes' = nodes, stored' = stored
       PROVE  Standing' = Standing
  <2>1. Entries' = Entries
    BY <1>13 DEF Entries
  <2>2. job # Idle /\ job' # Idle /\ job'.name = job.name
    BY <1>13 DEF StartRemoving, Idle
  <2>3. Counts' = Counts
    BY <1>13, <2>2 DEF Counts
  <2> QED BY <2>1, <2>3 DEF Standing
<1>14. ASSUME NEW t \in Type, Member(t) PROVE Standing' = Standing
  <2>1. CASE IsItValid(Size[t])
    <3>1. Insert(job.name, job.left, Size[t]) /\ job.op = "struct" /\ job' = [job EXCEPT !.left = @ - 1]
      BY <1>14, <2>1 DEF Member
    <3>2. job \in [op : {"struct"}, name : Name, left : Nat]
      BY <1>1, <3>1 DEF JobType, Idle
    <3>3. job' # Idle /\ job'.name = job.name
      BY <3>1, <3>2 DEF Idle
    <3> QED BY <3>1, <3>3, MemberStands
  <2>2. CASE ~ IsItValid(Size[t])
    BY <1>13, <1>14, <2>2 DEF Member
  <2> QED BY <2>1, <2>2
<1>15. ASSUME WrongMember PROVE Standing' = Standing
  BY <1>13, <1>15 DEF WrongMember, heapVars
<1>16. ASSUME StructDone PROVE Blocks!Next
  <2>1. job.op = "struct" /\ job' = Idle /\ UNCHANGED heapVars
    BY <1>16 DEF StructDone
  <2>2. PICK n, s, k, len : n = job.name /\ s = Entries /\ k = Counts /\ len = Len(nodes)
    OBVIOUS
  <2>3. n \in Name
    BY <1>1, <2>1, <2>2 DEF JobType, Idle
  <2>4. PICK m \in 0 .. len : \A i \in 1 .. len : nodes[i].name # n <=> i <= m
    BY <1>1, <2>1, <2>2 DEF StructLast
  <2>5. s \in Seq(Block(Name)) /\ Len(s) = len /\ Total(s) <= BYTE_SIZE
        /\ \A i \in 1 .. len : s[i] = [name |-> nodes[i].name, data |-> stored[i]]
    BY <1>2, <2>2 DEF EntryForEach
  <2>6. \A i \in 1 .. len : s[i].name # n <=> i <= m
    BY <2>4, <2>5
  <2>7. \A i \in 1 .. len : k[i] <=> i <= m
    <3>1. job # Idle
      BY <2>1 DEF Idle
    <3> QED BY <1>1, <2>2, <2>4, <3>1 DEF Counts
  <2>8. Select(s, k) = SubSeq(s, 1, m)
    BY <2>5, <2>7, SelectFirst
  <2>9. Standing = SubSeq(s, 1, m) /\ Standing' = s
    BY <1>3, <1>8, <2>1, <2>2, <2>8 DEF Standing
  <2>10. Allocates(SubSeq(s, 1, m), s, n, BYTE_SIZE)
    BY <2>5, <2>6, ByteSizeAssumption, NewName
  <2> QED BY <1>9, <2>3, <2>9, <2>10, BlocksStep
<1>17. ASSUME NEW n \in Name, NEW t \in Type, AllocateValue(n, t) PROVE Standing' = Standing \/ Blocks!Next
  <2>1. CASE ~ IsItValid(Size[t])
    BY <1>5, <1>17, <2>1 DEF AllocateValue, vars
  <2>2. CASE IsItValid(Size[t])
    <3>1. PICK s, u, len : s = Entries /\ u = Entries' /\ len = Len(nodes)
      OBVIOUS
    <3>2. job = Idle /\ job' = Idle /\ ~ Found(n) /\ Insert(n, 0, Size[t])
      BY <1>17, <2>2 DEF AllocateValue
    <3>3. Standing = s /\ Standing' = u
      BY <1>6, <1>8, <3>1, <3>2
    <3>4. /\ s \in Seq(Block(Name)) /\ Len(s) = len
          /\ \A i \in 1 .. len : s[i] = [name |-> nodes[i].name, data |-> stored[i]]
          /\ u \in Seq(Block(Name)) /\ Len(u) = Len(nodes') /\ Total(u) <= BYTE_SIZE
          /\ \A i \in 1 .. Len(nodes') : u[i] = [name |-> nodes'[i].name, data |-> stored'[i]]
      BY <1>2, <3>1 DEF EntryForEach
    <3>5. /\ Len(nodes') = len + 1 /\ nodes'[len + 1].name = n
          /\ \A i \in 1 .. len : nodes'[i] = nodes[i] /\ stored'[i] = stored[i]
      <4>1. PICK r, v : r = [name |-> n, address |-> now, size |-> Size[t]] /\ v = Value(n, 0, Size[t])
        OBVIOUS
      <4>2. nodes' = Append(nodes, r) /\ stored' = Append(stored, v)
        BY <3>2, <4>1 DEF Insert
      <4>3. nodes \in Seq(Node) /\ stored \in Seq(Seq(Nat)) /\ Len(stored) = len /\ len \in Nat
        BY <1>1, <3>1 DEF HeapInv, HeapType
      <4>4. Len(nodes') = len + 1 /\ nodes'[len + 1] = r /\ \A i \in 1 .. len : nodes'[i] = nodes[i]
        BY <3>1, <4>2, <4>3
      <4>5. \A i \in 1 .. len : stored'[i] = stored[i]
        BY <4>2, <4>3
      <4> QED BY <4>1, <4>4, <4>5
    <3>6. len \in Nat /\ \A i \in 1 .. len : i \in 1 .. len + 1
      BY <1>1, <3>1
    <3>7. s = SubSeq(u, 1, len)
      <4>1. \A i \in 1 .. len : u[i] = s[i]
        BY <3>4, <3>5, <3>6
      <4>2. len \in 0 .. Len(u)
        BY <3>4, <3>5, <3>6
      <4>3. SubSeq(u, 1, len) = [i \in 1 .. len |-> u[i]]
        BY <3>4, <4>2, SubSeqFirst
      <4>4. s = [i \in 1 .. len |-> s[i]]
        BY <3>4
      <4> QED BY <4>1, <4>3, <4>4
    <3>8. \A i \in 1 .. len + 1 : u[i].name # n <=> i <= len
      <4>1. \A i \in 1 .. len : nodes[i].name # n
        BY <1>1, <3>1, <3>2 DEF Found
      <4>2. ASSUME NEW i \in 1 .. len PROVE u[i].name # n
        BY <3>4, <3>5, <3>6, <4>1
      <4>3. u[len + 1].name = n
        <5>1. len + 1 \in 1 .. len + 1
          BY <3>6
        <5> QED BY <3>4, <3>5, <5>1
      <4> QED BY <3>6, <4>2, <4>3
    <3>9. Allocates(SubSeq(u, 1, len), u, n, BYTE_SIZE)
      <4>1. len \in 0 .. Len(u)
        BY <3>4, <3>5, <3>6
      <4> QED BY <3>4, <3>5, <3>8, <4>1, ByteSizeAssumption, NewName
    <3> QED BY <1>9, <3>3, <3>7, <3>9, BlocksStep
  <2> QED BY <2>1, <2>2
<1>18. ASSUME RemoveNode PROVE Standing' = Standing
  BY <1>18, RemoveStands
<1>19. ASSUME RemoveDone PROVE Standing' = Standing
  <2>1. job' = Idle /\ UNCHANGED heapVars /\ \A i \in 1 .. Len(nodes) : nodes[i].name # job.name
    BY <1>1, <1>19 DEF RemoveDone, Found
  <2>2. Standing = Entries
    BY <1>1, <2>1, StandingAll DEF AllCount
  <2> QED BY <1>3, <1>8, <2>1, <2>2
<1>20. ASSUME WrongType PROVE Standing' = Standing
  BY <1>5, <1>20 DEF WrongType
<1> QED
  BY <1>10, <1>11, <1>12, <1>14, <1>15, <1>16, <1>17, <1>18, <1>19, <1>20 DEF Next

(* The answer: an entry for each row in use, and those that are not empty. *)
AnswerEntries == [i \in 1 .. data_index |-> [name |-> info_table[i - 1].name, data |-> answerStored[i]]]
AnswerCounts == [i \in 1 .. data_index |-> answerStored[i] # <<>>]
AnswerStanding == Select(AnswerEntries, AnswerCounts)

LEMMA AnswerBlocksStep ==
  /\ Answer!Blocks!Init <=> AnswerStanding = <<>>
  /\ \A n \in AnswerName :
       Allocates(AnswerStanding, AnswerStanding', n, BUFMAX) /\ DOMAIN AnswerStanding = 1 .. Len(AnswerStanding)
         => Answer!Blocks!Next
  /\ \A n \in AnswerName : Deallocates(AnswerStanding, AnswerStanding', n) => Answer!Blocks!Next
<1>1. /\ \A s, k : Answer!Blocks!Select(s, k) = Select(s, k)
      /\ \A s, k : Answer!Select(s, k) = Select(s, k)
      /\ \A s : Answer!Blocks!PrefixSums(s) = PrefixSums(s)
      /\ \A s, t : Answer!Blocks!IsPrefix(s, t) = IsPrefix(s, t)
  <2>1. \A s, k : Answer!Blocks!Select(s, k) = Select(s, k) /\ Answer!Select(s, k) = Select(s, k)
    BY DEF Answer!Blocks!Select, Answer!Select, Select
  <2>2. \A s : Answer!Blocks!PrefixSums(s) = PrefixSums(s)
    BY DEF Answer!Blocks!PrefixSums, PrefixSums
  <2>3. \A s, t : Answer!Blocks!IsPrefix(s, t) = IsPrefix(s, t)
    BY DEF Answer!Blocks!IsPrefix, IsPrefix
  <2> QED BY <2>1, <2>2, <2>3
<1>2. Answer!Blocks!Init <=> AnswerStanding = <<>>
  BY <1>1 DEF Answer!Blocks!Init, AnswerStanding, AnswerEntries, AnswerCounts
<1>3. ASSUME NEW n \in AnswerName, Allocates(AnswerStanding, AnswerStanding', n, BUFMAX),
             DOMAIN AnswerStanding = 1 .. Len(AnswerStanding)
      PROVE  Answer!Blocks!Allocate(n)
  BY <1>1, <1>3 DEF Answer!Blocks!Allocate, Answer!Blocks!Used, Answer!Blocks!SizeOf,
       Allocates, Total, Lengths, AnswerStanding, AnswerEntries, AnswerCounts
<1>4. ASSUME NEW n \in AnswerName, Deallocates(AnswerStanding, AnswerStanding', n)
      PROVE  Answer!Blocks!Deallocate(n)
  BY <1>1, <1>4 DEF Answer!Blocks!Deallocate, Answer!Blocks!Without, Deallocates,
       AnswerStanding, AnswerEntries, AnswerCounts
<1> QED BY <1>2, <1>3, <1>4 DEF Answer!Blocks!Next

(* What is kept of a sequence of blocks is not longer than all of it.      *)
LEMMA TotalSelect ==
  ASSUME NEW Names, NEW s \in Seq(Block(Names)), NEW keep
  PROVE  Total(Select(s, keep)) <= Total(s)
<1>1. PICK n, S : n = Len(s) /\ n \in Nat /\ S = Block(Names)
  <2>1. Len(s) \in Nat
    OBVIOUS
  <2> QED BY <2>1
<1>2. PICK f \in [0 .. n -> Seq(S)] :
        /\ f[0] = <<>>
        /\ \A i \in 1 .. n : f[i] = IF keep[i] THEN Append(f[i - 1], s[i]) ELSE f[i - 1]
        /\ Select(s, keep) = f[n]
  <2>1. Selections(S, s, n, keep) # {}
    BY <1>1, SelectSteps
  <2> QED BY <2>1 DEF Selections
<1>3. PICK g, a : a = Lengths(s) /\ g = PrefixSums(a)
  OBVIOUS
<1>4. a \in Seq(Nat) /\ Len(a) = n
  BY <1>1, <1>3, LengthsType
<1>5. /\ \A i \in 0 .. n : g[i] \in Nat
      /\ g[0] = 0
      /\ \A i \in 1 .. n : g[i] = g[i - 1] + a[i]
  BY <1>3, <1>4, PrefixSumsProperties
<1>6. \A i \in 1 .. n : s[i] \in S /\ s[i].data \in Seq(Nat) /\ a[i] = Len(s[i].data) /\ a[i] \in Nat
  <2> SUFFICES ASSUME NEW i \in 1 .. n
               PROVE  s[i] \in S /\ s[i].data \in Seq(Nat) /\ a[i] = Len(s[i].data) /\ a[i] \in Nat
    OBVIOUS
  <2>1. s[i] \in S
    BY <1>1, ElementOfSeq
  <2>2. s[i].data \in Seq(Nat)
    BY <1>1, <2>1 DEF Block
  <2>3. DOMAIN s = 1 .. n
    BY <1>1
  <2> QED BY <1>3, <2>1, <2>2, <2>3 DEF Lengths
<1> DEFINE T == {i \in 0 .. n : Total(f[i]) \in Nat /\ Total(f[i]) <= g[i]}
<1>7. 0 \in T
  <2>1. Lengths(<<>>) \in Seq(Nat) /\ Len(Lengths(<<>>)) = 0
    <3>1. PICK z : z = <<>> /\ z \in Seq(Block(Names)) /\ Len(z) = 0
      <4>1. <<>> \in Seq(S) /\ Len(<<>>) = 0
        OBVIOUS
      <4> QED BY <1>1, <4>1
    <3>2. Lengths(z) \in Seq(Nat) /\ Len(Lengths(z)) = 0
      BY <3>1, LengthsType
    <3> QED BY <3>1, <3>2
  <2>2. Total(<<>>) = 0
    BY <2>1, PrefixSumsProperties DEF Total
  <2> QED BY <1>1, <1>2, <1>5, <2>2
<1>8. ASSUME NEW i \in 0 .. n - 1, i \in T PROVE i + 1 \in T
  <2>1. i + 1 \in 1 .. n /\ i + 1 - 1 = i /\ i \in 0 .. n /\ i + 1 \in 0 .. n
    BY <1>1
  <2>2. PICK u, x : u = f[i] /\ x = s[i + 1]
    OBVIOUS
  <2>3. u \in Seq(S) /\ x \in S /\ Total(u) \in Nat /\ Total(u) <= g[i] /\ Len(x.data) \in Nat
    BY <1>2, <1>6, <1>8, <2>1, <2>2
  <2>4. g[i + 1] = g[i] + Len(x.data) /\ g[i] \in Nat
    BY <1>5, <1>6, <2>1, <2>2
  <2>5. Total(Append(u, x)) = Total(u) + Len(x.data)
    BY <1>1, <2>3, TotalAppend
  <2>6. f[i + 1] = u \/ f[i + 1] = Append(u, x)
    <3>1. f[i + 1] = IF keep[i + 1] THEN Append(f[i + 1 - 1], s[i + 1]) ELSE f[i + 1 - 1]
      BY <1>2, <2>1
    <3> QED BY <2>1, <2>2, <3>1
  <2>7. Total(f[i + 1]) \in Nat /\ Total(f[i + 1]) <= g[i + 1]
    <3>1. PICK p, q, len : p = Total(u) /\ q = g[i] /\ len = Len(x.data)
      OBVIOUS
    <3>2. p \in Nat /\ q \in Nat /\ p <= q /\ len \in Nat /\ g[i + 1] = q + len
      BY <2>3, <2>4, <3>1
    <3>3. Total(f[i + 1]) = p \/ Total(f[i + 1]) = p + len
      BY <2>5, <2>6, <3>1
    <3> QED BY <3>2, <3>3
  <2> QED BY <2>1, <2>7
<1> HIDE DEF T
<1>9. \A i \in 0 .. n : i \in T
  BY <1>1, <1>7, <1>8, InductTo
<1>10. n \in T
  BY <1>1, <1>9
<1> QED BY <1>1, <1>2, <1>3, <1>4, <1>10 DEF T, Total

AnswerEntryForEach ==
  /\ AnswerEntries \in Seq(Block(AnswerName \cup {0})) /\ Len(AnswerEntries) = data_index
  /\ \A i \in 1 .. data_index : AnswerEntries[i] = [name |-> info_table[i - 1].name, data |-> answerStored[i]]
  /\ Total(AnswerEntries) <= BUFMAX

LEMMA AnswerEntriesType == AnswerInv => AnswerEntryForEach
<1> SUFFICES ASSUME AnswerInv PROVE AnswerEntryForEach
  OBVIOUS
<1>1. PICK d : d = data_index
  OBVIOUS
<1>2. TableType /\ AnswerKept /\ d \in Nat /\ BUFMAX \in Nat /\ d <= BUFMAX
  BY <1>1, AnswerAssumption DEF AnswerInv, TableType
<1>3. ASSUME NEW i \in 1 .. d
      PROVE  [name |-> info_table[i - 1].name, data |-> answerStored[i]] \in Block(AnswerName \cup {0})
  <2>1. i - 1 \in 0 .. BUFMAX - 1
    BY <1>2
  <2>2. info_table[i - 1] \in Row
    BY <1>2, <2>1 DEF TableType
  <2>3. answerStored[i] \in Seq(Nat)
    BY <1>1, <1>2, ElementOfSeq DEF TableType
  <2> QED BY <2>2, <2>3 DEF Row, Block
<1>4. AnswerEntries \in [1 .. d -> Block(AnswerName \cup {0})]
  BY <1>1, <1>3 DEF AnswerEntries
<1>5. AnswerEntries \in Seq(Block(AnswerName \cup {0})) /\ Len(AnswerEntries) = d /\ DOMAIN AnswerEntries = 1 .. d
  <2>1. PICK e, S : e = AnswerEntries /\ S = Block(AnswerName \cup {0})
    OBVIOUS
  <2>2. e \in Seq(S) /\ Len(e) = d /\ DOMAIN e = 1 .. d
    <3>1. e \in [1 .. d -> S] /\ d \in Nat
      BY <1>2, <1>4, <2>1
    <3> QED BY ONLY <3>1
  <2> QED BY <2>1, <2>2
<1>6. \A i \in 1 .. d : AnswerEntries[i] = [name |-> info_table[i - 1].name, data |-> answerStored[i]]
  BY <1>1 DEF AnswerEntries
<1>7. PICK s, t : s = Sizes /\ t = Lengths(AnswerEntries)
  OBVIOUS
<1>8. s \in Seq(Nat) /\ Len(s) = BUFMAX /\ PrefixSums(s)[d] = cur_point
  BY <1>1, <1>2, <1>7, BeginProperties DEF OneAfterTheOther, Begin, AnswerKept
<1>9. t \in Seq(Nat) /\ Len(t) = d
  BY <1>5, <1>7, LengthsType
<1>10. \A i \in 1 .. d : t[i] = s[i]
  <2> SUFFICES ASSUME NEW i \in 1 .. d PROVE t[i] = s[i]
    OBVIOUS
  <2>1. PICK a, b : a = info_table[i - 1].name /\ b = answerStored[i]
    OBVIOUS
  <2>2. AnswerEntries[i] = [name |-> a, data |-> b]
    BY <1>6, <2>1
  <2>3. t[i] = Len(b)
    BY <1>5, <1>7, <2>2 DEF Lengths
  <2> QED BY <1>1, <1>2, <1>7, <2>1, <2>3 DEF AnswerKept
<1>11. PrefixSums(t)[d] = cur_point
  <2>1. d <= Len(s) /\ d <= Len(t) /\ d \in 0 .. d
    BY <1>2, <1>8, <1>9
  <2> QED BY <1>2, <1>8, <1>9, <1>10, <2>1, PrefixSumsAgree
<1>12. Total(AnswerEntries) <= BUFMAX
  <2>1. cur_point <= BUFMAX
    BY <1>2 DEF TableType
  <2> QED BY <1>5, <1>7, <1>11, <2>1 DEF Total
<1> QED BY <1>1, <1>5, <1>6, <1>12 DEF AnswerEntryForEach

LEMMA AnswerInsertStands ==
  ASSUME AnswerInv, AnswerInv', NEW n \in AnswerName, NEW bytes \in Seq(Nat),
         Answer!SearchName(n) = -1, Answer!Insert(n, bytes)
  PROVE  AnswerStanding' = AnswerStanding \/ Allocates(AnswerStanding, AnswerStanding', n, BUFMAX)
<1>1. AnswerEntryForEach /\ AnswerEntryForEach'
  <2>1. AnswerInv' => AnswerEntryForEach'
    BY AnswerEntriesType, PTL
  <2> QED BY <2>1, AnswerEntriesType
<1>2. PICK e, k, f, l, S, d, Names :
        /\ e = AnswerEntries /\ k = AnswerCounts /\ f = AnswerEntries' /\ l = AnswerCounts'
        /\ Names = AnswerName \cup {0} /\ S = Block(Names) /\ d = data_index
  OBVIOUS
<1>3. PICK x : x = [name |-> n, data |-> bytes]
  OBVIOUS
<1>4. TableType /\ Unused /\ AnswerKept /\ d \in Nat /\ d < BUFMAX /\ BUFMAX \in Nat /\ data_index' = d + 1
  BY <1>2, AnswerAssumption DEF AnswerInv, TableType, Answer!Insert
<1>5. /\ \A i \in 0 .. d - 1 : info_table'[i] = info_table[i]
      /\ info_table'[d].name = n
  <2>1. PICK row : row = [name |-> n, size |-> Len(bytes)]
    OBVIOUS
  <2>2. info_table' = [info_table EXCEPT ![d] = row] /\ info_table \in [0 .. BUFMAX - 1 -> Row] /\ row.name = n
    BY <1>2, <1>4, <2>1 DEF Answer!Insert, TableType
  <2>3. d \in 0 .. BUFMAX - 1 /\ \A i \in 0 .. d - 1 : i \in 0 .. BUFMAX - 1 /\ i # d
    BY <1>4
  <2> QED BY <2>2, <2>3
<1>6. answerStored'[d + 1] = bytes /\ \A i \in 1 .. d : answerStored'[i] = answerStored[i]
  <2>1. PICK q : q = answerStored
    OBVIOUS
  <2>2. q \in Seq(Seq(Nat)) /\ Len(q) = d /\ answerStored' = Append(q, bytes)
    BY <1>2, <1>4, <2>1 DEF Answer!Insert, TableType
  <2> QED BY <1>4, <2>1, <2>2, AppendProperties
<1>7. e \in Seq(S) /\ Len(e) = d /\ \A i \in 1 .. d : e[i] = [name |-> info_table[i - 1].name, data |-> answerStored[i]]
  BY <1>1, <1>2 DEF AnswerEntryForEach
<1>8. /\ f \in Seq(S) /\ Len(f) = d + 1 /\ Total(f) <= BUFMAX
      /\ \A i \in 1 .. d + 1 : f[i] = [name |-> info_table'[i - 1].name, data |-> answerStored'[i]]
  BY <1>1, <1>2, <1>4 DEF AnswerEntryForEach
<1>9. f[d + 1] = x /\ \A i \in 1 .. d : f[i] = e[i]
  <2>1. f[d + 1] = x
    <3>1. PICK i : i = d + 1
      OBVIOUS
    <3>2. i \in 1 .. d + 1 /\ i - 1 = d
      BY <1>4, <3>1
    <3>3. f[i] = [name |-> info_table'[i - 1].name, data |-> answerStored'[i]]
      BY <1>8, <3>2
    <3> QED BY <1>3, <1>5, <1>6, <3>1, <3>2, <3>3
  <2>2. ASSUME NEW i \in 1 .. d PROVE f[i] = e[i]
    <3>1. i \in 1 .. d + 1 /\ i - 1 \in 0 .. d - 1
      BY <1>4
    <3> QED BY <1>5, <1>6, <1>7, <1>8, <3>1
  <2> QED BY <2>1, <2>2
<1>10. f = Append(e, x) /\ x \in S
  <2>1. x \in S
    <3>1. d + 1 \in 1 .. Len(f)
      BY <1>4, <1>8
    <3> QED BY <1>8, <1>9, <3>1, ElementOfSeq
  <2>2. Append(e, x) \in Seq(S) /\ Len(Append(e, x)) = d + 1
        /\ Append(e, x)[d + 1] = x /\ \A i \in 1 .. d : Append(e, x)[i] = e[i]
    BY <1>7, <2>1, AppendProperties
  <2>3. \A i \in 1 .. d + 1 : i \in 1 .. d \/ i = d + 1
    BY <1>4
  <2>4. \A i \in 1 .. d + 1 : f[i] = Append(e, x)[i]
    BY <1>9, <2>2, <2>3
  <2> QED BY <1>8, <2>1, <2>2, <2>4, SeqEqual
<1>11. (l[d + 1] <=> bytes # <<>>) /\ \A i \in 1 .. d : l[i] = k[i]
  <2>1. k = [i \in 1 .. d |-> answerStored[i] # <<>>] /\ l = [i \in 1 .. d + 1 |-> answerStored'[i] # <<>>]
    BY <1>2, <1>4 DEF AnswerCounts
  <2>2. d + 1 \in 1 .. d + 1 /\ \A i \in 1 .. d : i \in 1 .. d + 1
    BY <1>4
  <2> QED BY <1>6, <2>1, <2>2
<1>12. PICK b : b = Select(e, k) /\ b \in Seq(S)
  BY <1>7, SelectType
<1>13. Select(f, l) = IF l[d + 1] THEN Append(b, x) ELSE b
  <2>1. Select(Append(e, x), l) = IF l[Len(e) + 1] THEN Append(Select(e, k), x) ELSE Select(e, k)
    BY <1>7, <1>10, <1>11, SelectAppend
  <2> QED BY <1>7, <1>10, <1>12, <2>1
<1>14. AnswerStanding = b /\ AnswerStanding' = Select(f, l)
  BY <1>2, <1>12 DEF AnswerStanding
<1>15. CASE bytes = <<>>
  BY <1>11, <1>13, <1>14, <1>15
<1>16. CASE bytes # <<>>
  <2>1. PICK t : t = Append(b, x) /\ AnswerStanding' = t /\ Select(f, l) = t
    BY <1>11, <1>13, <1>14, <1>16
  <2>2. \A i \in 1 .. Len(b) : b[i].name # n
    <3> DEFINE Good == {y \in S : y.name # n}
    <3>1. ASSUME NEW i \in 1 .. d, k[i] PROVE e[i] \in Good
      <4>1. answerStored[i] # <<>>
        BY <1>2, <3>1 DEF AnswerCounts
      <4>2. PICK a, v, j : a = info_table[i - 1].name /\ v = answerStored[i] /\ j = i - 1
        OBVIOUS
      <4>3. e[i] = [name |-> a, data |-> v] /\ e[i] \in S
        BY <1>7, <4>2, ElementOfSeq
      <4>4. j \in 0 .. BUFMAX - 1 /\ i \in 1 .. BUFMAX
        BY <1>4, <4>2
      <4>5. info_table[j].size # 0
        <5>1. v \in Seq(Nat) /\ v # <<>>
          BY <1>2, <1>4, <4>1, <4>2, ElementOfSeq DEF TableType
        <5>2. Len(v) # 0
          BY <5>1, EmptySeq
        <5>3. Len(v) = Sizes[i]
          BY <1>2, <1>4, <4>2 DEF AnswerKept
        <5>4. Sizes[i] = info_table[j].size
          BY <4>2, <4>4 DEF Sizes
        <5> QED BY <5>2, <5>3, <5>4
      <4>6. a # n
        BY <1>4, <4>2, <4>4, <4>5, SearchNameProperties
      <4> QED BY <4>3, <4>6
    <3>2. \A i \in 1 .. Len(e) : k[i] => e[i] \in Good
      BY <1>7, <3>1
    <3> HIDE DEF Good
    <3>3. b \in Seq(Good)
      BY <1>7, <1>12, <3>2, SelectElements
    <3>4. \A i \in 1 .. Len(b) : b[i] \in Good
      BY <3>3, ElementOfSeq
    <3> QED BY <3>4 DEF Good
  <2>3. IsPrefix(b, t)
    BY <1>10, <1>12, <2>1, PrefixOfAppend
  <2>4. ASSUME NEW i \in Len(b) + 1 .. Len(t) PROVE t[i].name = n
    <3>1. Len(b) \in Nat /\ Len(t) = Len(b) + 1 /\ t[Len(b) + 1] = x
      BY <1>10, <1>12, <2>1, AppendProperties
    <3>2. i = Len(b) + 1
      BY <3>1
    <3> QED BY <1>3, <3>1, <3>2
  <2>5. Total(t) <= BUFMAX
    <3>1. Total(Select(f, l)) <= Total(f)
      BY <1>2, <1>8, TotalSelect
    <3>2. Total(f) \in Nat /\ Total(t) \in Nat
      <4>1. t \in Seq(S)
        BY <1>10, <1>12, <2>1, AppendProperties
      <4> QED BY <1>2, <1>8, <1>10, <4>1, TotalAppend
    <3> QED BY <1>4, <1>8, <2>1, <3>1, <3>2
  <2> QED BY <1>14, <2>1, <2>2, <2>3, <2>4, <2>5 DEF Allocates
<1> QED BY <1>15, <1>16

LEMMA AnswerRemoveStands ==
  ASSUME AnswerInv, AnswerInv', NEW n \in AnswerName, Answer!Deallocate(n)
  PROVE  Deallocates(AnswerStanding, AnswerStanding', n)
<1>1. AnswerEntryForEach /\ AnswerEntryForEach'
  <2>1. AnswerInv' => AnswerEntryForEach'
    BY AnswerEntriesType, PTL
  <2> QED BY <2>1, AnswerEntriesType
<1>2. PICK e, k, f, l, S, d, r :
        /\ e = AnswerEntries /\ k = AnswerCounts /\ f = AnswerEntries' /\ l = AnswerCounts'
        /\ S = Block(AnswerName \cup {0}) /\ d = data_index /\ r = Answer!SearchName(n) + 1
  OBVIOUS
<1>3. TableType /\ Unused /\ AnswerKept /\ NamesDiffer /\ d \in Nat /\ d <= BUFMAX /\ BUFMAX \in Nat
  BY <1>2, AnswerAssumption DEF AnswerInv, TableType
<1>4. r \in 1 .. d /\ r - 1 = Answer!SearchName(n) /\ info_table[r - 1].name = n /\ data_index' = d - 1
  <2>1. PICK q : q = Answer!SearchName(n)
    OBVIOUS
  <2>2. q \in 0 .. d - 1 /\ info_table[q].name = n
    BY <1>2, <1>3, <2>1, SearchNameProperties DEF Answer!Deallocate
  <2>3. r \in 1 .. d /\ r - 1 = q
    BY <1>2, <1>3, <2>1, <2>2
  <2> QED BY <1>2, <2>1, <2>2, <2>3 DEF Answer!Deallocate
<1>5. \A i \in 1 .. d - 1 : info_table'[i - 1] = IF i < r THEN info_table[i - 1] ELSE info_table[i]
  <2> SUFFICES ASSUME NEW i \in 1 .. d - 1
               PROVE  info_table'[i - 1] = IF i < r THEN info_table[i - 1] ELSE info_table[i]
    OBVIOUS
  <2>1. PICK j : j = i - 1
    OBVIOUS
  <2>2. j \in 0 .. BUFMAX - 1 /\ j # d - 1 /\ j + 1 = i /\ (i < r <=> ~ (j \in r - 1 .. d - 2))
    BY <1>3, <1>4, <2>1
  <2>3. info_table' = [m \in 0 .. BUFMAX - 1 |->
                         CASE m = d - 1 -> [name |-> 0, size |-> 0]
                           [] m \in r - 1 .. d - 2 -> info_table[m + 1]
                           [] OTHER -> info_table[m]]
    BY <1>2, <1>4 DEF Answer!Deallocate, Answer!DeallocateTable, Answer!Entry, Answer!Blank
  <2>4. info_table'[j] = IF i < r THEN info_table[j] ELSE info_table[j + 1]
    <3>1. CASE i < r
      BY <2>2, <2>3, <3>1
    <3>2. CASE ~ (i < r)
      BY <2>2, <2>3, <3>2
    <3> QED BY <3>1, <3>2
  <2> QED BY <2>1, <2>2, <2>4
<1>6. \A i \in 1 .. d - 1 : answerStored'[i] = IF i < r THEN answerStored[i] ELSE answerStored[i + 1]
  <2>1. PICK q : q = answerStored
    OBVIOUS
  <2>2. q \in Seq(Seq(Nat)) /\ Len(q) = d
    BY <1>2, <1>3, <2>1 DEF TableType
  <2>3. answerStored' = RemoveAt(q, r)
    <3>1. answerStored' = RemoveAt(answerStored, Answer!SearchName(n) + 1)
      BY AnswerSequencesAre DEF Answer!Deallocate
    <3> QED BY <1>2, <2>1, <3>1
  <2>4. \A i \in 1 .. d - 1 : RemoveAt(q, r)[i] = IF i < r THEN q[i] ELSE q[i + 1]
    BY <1>4, <2>2, RemoveAtProperties
  <2> QED BY <2>1, <2>3, <2>4
<1>7. e \in Seq(S) /\ Len(e) = d /\ \A i \in 1 .. d : e[i] = [name |-> info_table[i - 1].name, data |-> answerStored[i]]
  BY <1>1, <1>2 DEF AnswerEntryForEach
<1>8. /\ f \in Seq(S) /\ Len(f) = d - 1
      /\ \A i \in 1 .. d - 1 : f[i] = [name |-> info_table'[i - 1].name, data |-> answerStored'[i]]
  BY <1>1, <1>2, <1>4 DEF AnswerEntryForEach
<1>9. \A i \in 1 .. d - 1 : f[i] = IF i < r THEN e[i] ELSE e[i + 1]
  <2> SUFFICES ASSUME NEW i \in 1 .. d - 1 PROVE f[i] = IF i < r THEN e[i] ELSE e[i + 1]
    OBVIOUS
  <2>1. i \in 1 .. d /\ i + 1 \in 1 .. d /\ i + 1 - 1 = i
    BY <1>3
  <2>2. CASE i < r
    BY <1>5, <1>6, <1>7, <1>8, <2>1, <2>2, ZenonT(60)
  <2>3. CASE ~ (i < r)
    <3>1. info_table'[i - 1] = info_table[i] /\ answerStored'[i] = answerStored[i + 1]
      BY <1>5, <1>6, <2>3
    <3>2. e[i + 1] = [name |-> info_table[i].name, data |-> answerStored[i + 1]]
      BY <1>7, <2>1
    <3> QED BY <1>8, <2>3, <3>1, <3>2
  <2> QED BY <2>2, <2>3
<1>10. f = RemoveAt(e, r)
  <2>1. /\ RemoveAt(e, r) \in Seq(S) /\ Len(RemoveAt(e, r)) = d - 1
        /\ \A i \in 1 .. d - 1 : RemoveAt(e, r)[i] = IF i < r THEN e[i] ELSE e[i + 1]
    BY <1>4, <1>7, RemoveAtProperties
  <2>2. \A i \in 1 .. d - 1 : f[i] = RemoveAt(e, r)[i]
    BY <1>9, <2>1
  <2> QED BY <1>8, <2>1, <2>2, SeqEqual
<1> DEFINE Good == {y \in S : y.name # n}
<1>11. PICK both : both = [i \in 1 .. d |-> k[i] /\ e[i] \in Good]
  OBVIOUS
<1>12. ASSUME NEW i \in 1 .. d PROVE e[i] \in Good <=> info_table[i - 1].name # n
  <2>1. PICK a, v : a = info_table[i - 1].name /\ v = answerStored[i]
    OBVIOUS
  <2>2. e[i] = [name |-> a, data |-> v] /\ e[i] \in S
    BY <1>7, <2>1, ElementOfSeq
  <2> QED BY <2>1, <2>2
<1>13. ASSUME NEW i \in 1 .. d PROVE both[i] <=> answerStored[i] # <<>> /\ i # r
  <2>1. k[i] <=> answerStored[i] # <<>>
    BY <1>2 DEF AnswerCounts
  <2>2. PICK j, q, v : j = i - 1 /\ q = r - 1 /\ v = answerStored[i]
    OBVIOUS
  <2>3. j \in 0 .. BUFMAX - 1 /\ q \in 0 .. BUFMAX - 1 /\ (j = q <=> i = r) /\ i \in 1 .. BUFMAX
    BY <1>3, <1>4, <2>2
  <2>4. v # <<>> => info_table[j].size # 0
    <3> SUFFICES ASSUME v # <<>> PROVE info_table[j].size # 0
      OBVIOUS
    <3>1. v \in Seq(Nat)
      BY <1>2, <1>3, <2>2, ElementOfSeq DEF TableType
    <3>2. Len(v) # 0
      BY <3>1, EmptySeq
    <3>3. Len(v) = Sizes[i]
      BY <1>2, <1>3, <2>2 DEF AnswerKept
    <3>4. Sizes[i] = info_table[j].size
      BY <2>2, <2>3 DEF Sizes
    <3> QED BY <3>2, <3>3, <3>4
  <2>5. info_table[q].name = n /\ info_table[q].size # 0
    <3>1. q = Answer!SearchName(n) /\ q # -1
      BY <1>4, <2>2, <2>3
    <3>2. Answer!Matches(q, n)
      <4>1. \E m \in Answer!Entry : Answer!Matches(m, n)
        BY <3>1 DEF Answer!SearchName
      <4> DEFINE T == {m \in 0 .. BUFMAX - 1 : Answer!Matches(m, n)}
      <4>2. T # {} /\ T \in SUBSET Nat
        BY <1>3, <4>1 DEF Answer!Entry
      <4>3. PICK m \in T : \A o \in T : m <= o
        <5> HIDE DEF T
        <5> QED BY <4>2, Least
      <4>4. m \in Answer!Entry /\ Answer!Matches(m, n) /\ \A o \in 0 .. m - 1 : ~ Answer!Matches(o, n)
        <5>1. \A o \in 0 .. m - 1 : o \in 0 .. BUFMAX - 1 /\ ~ (m <= o)
          BY <1>3, <4>3
        <5> QED BY <4>3, <5>1 DEF Answer!Entry
      <4> QED BY <3>1, <4>1, <4>4 DEF Answer!SearchName
    <3> QED BY <3>2 DEF Answer!Matches
  <2>6. v # <<>> => (info_table[j].name # n <=> i # r)
    <3>1. i = r => info_table[j].name = n
      BY <2>3, <2>5
    <3>2. v # <<>> /\ info_table[j].name = n => j = q
      BY <1>3, <2>3, <2>4, <2>5 DEF NamesDiffer
    <3> QED BY <2>3, <3>1, <3>2
  <2>7. both[i] <=> k[i] /\ info_table[j].name # n
    BY <1>11, <1>12, <2>2
  <2> QED BY <2>1, <2>2, <2>6, <2>7
<1>14. ~ both[r] /\ \A i \in 1 .. d - 1 : l[i] = IF i < r THEN both[i] ELSE both[i + 1]
  <2>1. l = [i \in 1 .. d - 1 |-> answerStored'[i] # <<>>]
    BY <1>2, <1>4 DEF AnswerCounts
  <2>2. ASSUME NEW i \in 1 .. d - 1 PROVE l[i] = IF i < r THEN both[i] ELSE both[i + 1]
    <3>1. i \in 1 .. d /\ i + 1 \in 1 .. d /\ (i < r => i # r) /\ (~ (i < r) => i + 1 # r)
      BY <1>3, <1>4
    <3>2. both[i] \in BOOLEAN /\ both[i + 1] \in BOOLEAN /\ l[i] \in BOOLEAN
      BY <1>11, <2>1, <3>1
    <3>3. CASE i < r
      <4>1. l[i] <=> both[i]
        BY <1>6, <1>13, <2>1, <3>1, <3>3
      <4> QED BY <3>2, <3>3, <4>1
    <3>4. CASE ~ (i < r)
      <4>1. l[i] <=> both[i + 1]
        BY <1>6, <1>13, <2>1, <3>1, <3>4
      <4> QED BY <3>2, <3>4, <4>1
    <3> QED BY <3>3, <3>4
  <2> QED BY <1>4, <1>13, <2>2
<1>15. PICK b : b = Select(e, k) /\ b \in Seq(S)
  BY <1>7, SelectType
<1>16. Select(f, l) = Select(e, both)
  BY <1>4, <1>7, <1>10, <1>14, SelectRemoveAt
<1>17. Select(b, [i \in DOMAIN b |-> b[i] \in Good]) = Select(e, both)
  <2>1. \A i \in 1 .. Len(e) : both[i] <=> k[i] /\ e[i] \in Good
    BY <1>7, <1>11
  <2> HIDE DEF Good
  <2>2. KeptIn(Select(e, k), Good) = Select(e, both)
    BY <1>7, <2>1, SelectTwice
  <2> QED BY <1>15, <2>2 DEF KeptIn
<1>18. [i \in DOMAIN b |-> b[i] \in Good] = [i \in DOMAIN b |-> b[i].name # n]
  <2>1. ASSUME NEW i \in DOMAIN b PROVE b[i] \in S
    BY <1>15, ElementOfSeq
  <2>2. ASSUME NEW i \in DOMAIN b PROVE (b[i] \in Good) = (b[i].name # n)
    BY <2>1
  <2> QED BY <2>2
<1>19. AnswerStanding = b /\ AnswerStanding' = Select(f, l)
  BY <1>2, <1>15 DEF AnswerStanding
<1> QED BY <1>16, <1>17, <1>18, <1>19 DEF Deallocates

LEMMA AnswerInitStands == AnswerInv /\ Answer!Init => Answer!Blocks!Init
<1> SUFFICES ASSUME AnswerInv, Answer!Init PROVE AnswerStanding = <<>>
  BY AnswerBlocksStep
<1>1. PICK e, k, S : e = AnswerEntries /\ k = AnswerCounts /\ S = Block(AnswerName \cup {0})
  OBVIOUS
<1>2. e \in Seq(S) /\ Len(e) = 0
  BY <1>1, AnswerEntriesType DEF AnswerEntryForEach, Answer!Init
<1>3. \A i \in 1 .. Len(e) : k[i]
  BY <1>2
<1>4. Select(e, k) = e
  BY <1>2, <1>3, SelectAll
<1>5. e = <<>>
  BY <1>2, EmptySeq
<1> QED BY <1>1, <1>4, <1>5 DEF AnswerStanding

LEMMA AnswerStepStands ==
  ASSUME AnswerInv, AnswerInv', Answer!Next
  PROVE  AnswerStanding' = AnswerStanding \/ Answer!Blocks!Next
<1>1. UNCHANGED Answer!vars => AnswerStanding' = AnswerStanding
  BY DEF Answer!vars, AnswerStanding, AnswerEntries, AnswerCounts
<1>2. DOMAIN AnswerStanding = 1 .. Len(AnswerStanding)
  <2>1. PICK e, k, S : e = AnswerEntries /\ k = AnswerCounts /\ S = Block(AnswerName \cup {0})
    OBVIOUS
  <2>2. e \in Seq(S)
    BY <2>1, AnswerEntriesType DEF AnswerEntryForEach
  <2>3. Select(e, k) \in Seq(S)
    BY <2>2, SelectType
  <2>4. AnswerStanding \in Seq(S)
    BY <2>1, <2>3 DEF AnswerStanding
  <2> QED BY <2>4
<1>3. ASSUME NEW n \in AnswerName, NEW v \in Seq(Nat), Answer!SearchName(n) = -1, Answer!Insert(n, v)
      PROVE  AnswerStanding' = AnswerStanding \/ Answer!Blocks!Next
  BY <1>2, <1>3, AnswerInsertStands, AnswerBlocksStep
<1>4. ASSUME NEW n \in AnswerName, Answer!Duplicate(n) PROVE AnswerStanding' = AnswerStanding
  BY <1>1, <1>4 DEF Answer!Duplicate
<1>5. ASSUME NEW n \in AnswerName, NEW t \in Type, Answer!AllocateValue(n, t)
      PROVE  AnswerStanding' = AnswerStanding \/ Answer!Blocks!Next
  <2>1. PICK size, v : size = Answer!Size[t] /\ v = Answer!Value(n, 0, size)
    OBVIOUS
  <2>2. v \in Seq(Nat)
    <3>1. size \in Nat /\ n \in Nat
      BY <2>1, SizeType, AnswerAssumption DEF Answer!Size, Size
    <3>2. Value(n, 0, size) \in Seq(Nat)
      BY <3>1, ValueType
    <3> QED BY <2>1, <3>2, AnswerValueIs
  <2>3. CASE Answer!SpaceCheck(size)
    <3>1. Answer!Insert(n, v) /\ Answer!SearchName(n) = -1
      BY <1>5, <2>1, <2>3 DEF Answer!AllocateValue
    <3> QED BY <1>3, <2>2, <3>1
  <2>4. CASE ~ Answer!SpaceCheck(size)
    BY <1>1, <1>5, <2>1, <2>4 DEF Answer!AllocateValue
  <2> QED BY <2>3, <2>4
<1>6. ASSUME NEW n \in AnswerName, NEW types \in Answer!BoundedSeq(Type, MaxMembers),
             Answer!AllocateStruct(n, types)
      PROVE  AnswerStanding' = AnswerStanding \/ Answer!Blocks!Next
  <2>1. PICK v : v = Answer!FlattenSeq([k \in DOMAIN types |-> Answer!Value(n, k, Answer!Size[types[k]])])
    OBVIOUS
  <2>2. v \in Seq(Nat)
    BY <2>1, StructBytesType
  <2>3. CASE Answer!SpaceCheck(Len(v))
    <3>1. Answer!Insert(n, v) /\ Answer!SearchName(n) = -1
      BY <1>6, <2>1, <2>3 DEF Answer!AllocateStruct
    <3> QED BY <1>3, <2>2, <3>1
  <2>4. CASE ~ Answer!SpaceCheck(Len(v))
    BY <1>1, <1>6, <2>1, <2>4 DEF Answer!AllocateStruct
  <2> QED BY <2>3, <2>4
<1>7. ASSUME NEW n \in AnswerName, Answer!TooManyMembers(n, BUFMAX + 1) \/ Answer!NoSuchName(n)
      PROVE  AnswerStanding' = AnswerStanding
  BY <1>1, <1>7 DEF Answer!TooManyMembers, Answer!NoSuchName
<1>8. ASSUME NEW n \in AnswerName, Answer!Deallocate(n) PROVE Answer!Blocks!Next
  BY <1>8, AnswerRemoveStands, AnswerBlocksStep
<1> QED BY <1>4, <1>5, <1>6, <1>7, <1>8 DEF Answer!Next

(* Both heaps keep NamedBlocks' promise: a name gets its values as a whole *)
(* and loses them as a whole, and no other name's values change or move    *)
(* past each other, although hw4 takes a step for each member and node.    *)
THEOREM RefinesNamedBlocks == BothSpec => BothImplementNamedBlocks
<1>1. BothInit => Blocks!Init /\ Answer!Blocks!Init
  BY InitInv, AnswerInitInv, InitStands, AnswerInitStands DEF BothInit
<1>2. BothInv /\ BothInv' /\ [BothNext]_<<vars, answerVars>> => [Blocks!Next]_Standing
  <2> SUFFICES ASSUME BothInv, BothInv', Next \/ UNCHANGED vars
               PROVE  Blocks!Next \/ Standing' = Standing
    BY DEF BothNext
  <2>1. CASE Next
    BY <2>1, StepStands DEF BothInv
  <2>2. CASE UNCHANGED vars
    <3>1. Entries' = Entries
      BY <2>2 DEF vars, heapVars, Entries
    <3>2. Counts' = Counts
      BY <2>2 DEF vars, heapVars, Counts
    <3> QED BY <3>1, <3>2 DEF Standing
  <2> QED BY <2>1, <2>2
<1>3. BothInv /\ BothInv' /\ [BothNext]_<<vars, answerVars>> => [Answer!Blocks!Next]_AnswerStanding
  <2> SUFFICES ASSUME BothInv, BothInv', Answer!Next \/ UNCHANGED answerVars
               PROVE  Answer!Blocks!Next \/ AnswerStanding' = AnswerStanding
    BY DEF BothNext
  <2>1. CASE Answer!Next
    BY <2>1, AnswerStepStands DEF BothInv
  <2>2. CASE UNCHANGED answerVars
    BY <2>2 DEF answerVars, AnswerStanding, AnswerEntries, AnswerCounts
  <2> QED BY <2>1, <2>2
<1>4. Blocks!Init /\ [][Blocks!Next]_Standing => ImplementsNamedBlocks
  BY DEF ImplementsNamedBlocks, Blocks!Spec, Standing, Entries, Counts
<1>5. [Answer!Blocks!Next]_AnswerStanding
        => [Answer!Blocks!Next]_(Answer!Select([i \in 1 .. data_index |-> [name |-> info_table[i - 1].name,
                                                                          data |-> answerStored[i]]],
                                             [i \in 1 .. data_index |-> answerStored[i] # <<>>]))
  BY DEF Answer!Select, Select, AnswerStanding, AnswerEntries, AnswerCounts
<1>6. Answer!Blocks!Init /\ [][Answer!Blocks!Next]_AnswerStanding => Answer!ImplementsNamedBlocks
  BY <1>5, PTL DEF Answer!ImplementsNamedBlocks, Answer!Blocks!Spec
<1> QED
  BY <1>1, <1>2, <1>3, <1>4, <1>6, InvCorrect, PTL DEF BothSpec, BothImplementNamedBlocks
=============================================================================
