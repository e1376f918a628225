----------------------------- MODULE BitsProofs -----------------------------
(***************************************************************************)
(* The bits of hw1 and of its model answer: both programs print the values *)
(* of the groups of bits and keep within their types and buffers, with     *)
(* files and types of any size.                                            *)
(***************************************************************************)
EXTENDS MCBits, SequenceTheorems, NaturalsInduction, WellFoundedInduction, TLAPS

(***************************************************************************)
(* Induction over sets of numbers                                          *)
(***************************************************************************)
LEMMA Least ==
  ASSUME NEW T \in SUBSET Nat, T # {}
  PROVE  \E n \in T : \A m \in T : n <= m
<1> DEFINE R == OpToRel(<, Nat)
<1>1. IsWellFoundedOn(R, Nat)
  BY NatLessThanWellFounded
<1>2. \A x, y \in Nat : <<y, x>> \in R <=> y < x
  BY DEF OpToRel
<1> HIDE DEF R
<1>3. \E x \in T : \A y \in T : ~ (<<y, x>> \in R)
  BY <1>1, WFMin
<1>4. PICK n \in T : \A m \in T : ~ (<<m, n>> \in R)
  BY <1>3
<1>5. ASSUME NEW m \in T PROVE n <= m
  <2>1. ~ (m < n)
    BY <1>2, <1>4
  <2> QED BY <2>1
<1> QED BY <1>5

LEMMA Induct ==
  ASSUME NEW T \in SUBSET Nat, 0 \in T, \A n \in T : n + 1 \in T
  PROVE  T = Nat
<1> SUFFICES ASSUME T # Nat PROVE FALSE
  OBVIOUS
<1>1. Nat \ T \in SUBSET Nat /\ Nat \ T # {}
  OBVIOUS
<1>2. PICK n \in Nat \ T : \A m \in Nat \ T : n <= m
  BY <1>1, Least
<1>3. n - 1 \in Nat /\ n - 1 \in T
  BY <1>2
<1>4. n - 1 + 1 \in T
  BY <1>3
<1> QED BY <1>2, <1>4

(* From 0 up to a bound.                                                   *)
LEMMA InductTo ==
  ASSUME NEW b \in Nat, NEW T, 0 \in T, \A n \in 0 .. b - 1 : n \in T => n + 1 \in T
  PROVE  \A n \in 0 .. b : n \in T
<1> DEFINE U == {n \in Nat : n <= b => n \in T}
<1>1. 0 \in U
  OBVIOUS
<1>2. ASSUME NEW n \in U PROVE n + 1 \in U
  OBVIOUS
<1>3. U \in SUBSET Nat
  OBVIOUS
<1> HIDE DEF U
<1>4. U = Nat
  BY <1>1, <1>2, <1>3, Induct
<1> QED BY <1>4 DEF U

(***************************************************************************)
(* Recursive functions over the positions of a sequence                    *)
(***************************************************************************)

(* The functions from a on whose next value is g's of the one before.      *)
Recursions(n, A, a, g) ==
  {f \in [0 .. n -> A] : f[0] = a /\ \A j \in 1 .. n : f[j] = g[j][f[j - 1]]}

LEMMA RecursionExists ==
  ASSUME NEW n \in Nat, NEW A, NEW a \in A, NEW g \in [1 .. n -> [A -> A]]
  PROVE  Recursions(n, A, a, g) # {}
<1> DEFINE Fun(b) == {f \in [0 .. b -> A] : f[0] = a /\ \A j \in 1 .. b : f[j] = g[j][f[j - 1]]}
           T == {b \in 0 .. n : Fun(b) # {}}
<1>1. 0 \in T
  <2>1. [j \in 0 .. 0 |-> a] \in Fun(0)
    OBVIOUS
  <2> QED BY <2>1
<1>2. ASSUME NEW b \in 0 .. n - 1, b \in T PROVE b + 1 \in T
  <2>1. PICK f \in [0 .. b -> A] : f[0] = a /\ \A j \in 1 .. b : f[j] = g[j][f[j - 1]]
    BY <1>2
  <2>2. PICK h : h = [j \in 0 .. b + 1 |-> IF j <= b THEN f[j] ELSE g[b + 1][f[b]]]
    OBVIOUS
  <2>3. f[b] \in A /\ g[b + 1][f[b]] \in A
    OBVIOUS
  <2>4. h \in [0 .. b + 1 -> A] /\ h[0] = a
    BY <2>1, <2>2, <2>3
  <2>5. ASSUME NEW j \in 1 .. b + 1 PROVE h[j] = g[j][h[j - 1]]
    <3>1. CASE j <= b
      BY <2>1, <2>2, <3>1
    <3>2. CASE ~ (j <= b)
      <4>1. j = b + 1 /\ j - 1 = b
        BY <3>2
      <4> QED BY <2>2, <4>1
    <3> QED BY <3>1, <3>2
  <2>6. h \in Fun(b + 1) /\ b + 1 \in 0 .. n
    BY <2>4, <2>5
  <2> HIDE DEF Fun
  <2> QED BY <2>6
<1> HIDE DEF T
<1>3. \A b \in 0 .. n : b \in T
  BY <1>1, <1>2, InductTo
<1>4. n \in T
  BY <1>3
<1> QED BY <1>4 DEF T, Recursions

LEMMA SumExists ==
  ASSUME NEW n \in Nat, NEW s \in [1 .. n -> Nat]
  PROVE  \E f : f = [j \in 0 .. n |-> IF j = 0 THEN 0 ELSE f[j - 1] + s[j]]
<1>1. PICK g : g = [j \in 1 .. n |-> [x \in Nat |-> x + s[j]]]
  OBVIOUS
<1>2. PICK A, a : A = Nat /\ a = 0
  OBVIOUS
<1>3. g \in [1 .. n -> [A -> A]] /\ a \in A
  BY <1>1, <1>2
<1>4. Recursions(n, A, a, g) # {}
  BY <1>3, RecursionExists
<1>5. PICK f \in [0 .. n -> Nat] : f[0] = 0 /\ \A j \in 1 .. n : f[j] = g[j][f[j - 1]]
  BY <1>2, <1>4 DEF Recursions
<1>6. \A j \in 0 .. n : f[j] = IF j = 0 THEN 0 ELSE f[j - 1] + s[j]
  <2> SUFFICES ASSUME NEW j \in 0 .. n, j # 0 PROVE f[j] = f[j - 1] + s[j]
    BY <1>5
  <2>1. j \in 1 .. n /\ f[j - 1] \in Nat
    OBVIOUS
  <2> QED BY <1>1, <1>5, <2>1
<1>7. f = [j \in 0 .. n |-> f[j]]
  OBVIOUS
<1>8. f = [j \in 0 .. n |-> IF j = 0 THEN 0 ELSE f[j - 1] + s[j]]
  BY <1>6, <1>7
<1> QED BY <1>8

LEMMA PrefixSumsProperties ==
  ASSUME NEW s \in Seq(Nat)
  PROVE  /\ PrefixSums(s) \in [0 .. Len(s) -> Nat]
         /\ PrefixSums(s)[0] = 0
         /\ \A j \in 1 .. Len(s) : PrefixSums(s)[j] = PrefixSums(s)[j - 1] + s[j]
<1> DEFINE IsSum(f) == f = [j \in 0 .. Len(s) |-> IF j = 0 THEN 0 ELSE f[j - 1] + s[j]]
<1>1. Len(s) \in Nat /\ s \in [1 .. Len(s) -> Nat]
  OBVIOUS
<1>2. \E f : IsSum(f)
  BY <1>1, SumExists
<1>3. IsSum(PrefixSums(s))
  BY <1>2 DEF PrefixSums
<1>4. PICK f : f = PrefixSums(s)
  OBVIOUS
<1>5. DOMAIN f = 0 .. Len(s) /\ f[0] = 0 /\ \A j \in 1 .. Len(s) : f[j] = f[j - 1] + s[j]
  <2>1. f = [j \in 0 .. Len(s) |-> IF j = 0 THEN 0 ELSE f[j - 1] + s[j]]
    BY <1>3, <1>4
  <2>2. 0 \in 0 .. Len(s) /\ \A j \in 1 .. Len(s) : j \in 0 .. Len(s) /\ j # 0
    BY <1>1
  <2> QED BY <2>1, <2>2
<1>6. \A j \in 0 .. Len(s) : j \in {k \in 0 .. Len(s) : f[k] \in Nat}
  <2> DEFINE T == {k \in 0 .. Len(s) : f[k] \in Nat}
  <2>1. 0 \in T
    BY <1>1, <1>5
  <2>2. ASSUME NEW j \in 0 .. Len(s) - 1, j \in T PROVE j + 1 \in T
    <3>1. j + 1 \in 1 .. Len(s) /\ j + 1 - 1 = j /\ s[j + 1] \in Nat
      BY <1>1
    <3> QED BY <1>5, <2>2, <3>1
  <2> HIDE DEF T
  <2>3. \A j \in 0 .. Len(s) : j \in T
    BY <1>1, <2>1, <2>2, InductTo
  <2> QED BY <2>3 DEF T
<1>7. f \in [0 .. Len(s) -> Nat]
  <2>1. f = [j \in 0 .. Len(s) |-> f[j]]
    BY <1>3, <1>4
  <2> QED BY <1>6, <2>1
<1> QED BY <1>4, <1>5, <1>7


LEMMA PowerExists ==
  ASSUME NEW n \in Nat
  PROVE  \E f : f = [j \in 0 .. n |-> IF j = 0 THEN 1 ELSE 2 * f[j - 1]]
<1>1. PICK g : g = [j \in 1 .. n |-> [x \in Nat |-> 2 * x]]
  OBVIOUS
<1>2. PICK A, a : A = Nat /\ a = 1
  OBVIOUS
<1>3. g \in [1 .. n -> [A -> A]] /\ a \in A
  BY <1>1, <1>2
<1>4. Recursions(n, A, a, g) # {}
  BY <1>3, RecursionExists
<1>5. PICK f \in [0 .. n -> Nat] : f[0] = 1 /\ \A j \in 1 .. n : f[j] = g[j][f[j - 1]]
  BY <1>2, <1>4 DEF Recursions
<1>6. \A j \in 0 .. n : f[j] = IF j = 0 THEN 1 ELSE 2 * f[j - 1]
  <2> SUFFICES ASSUME NEW j \in 0 .. n, j # 0 PROVE f[j] = 2 * f[j - 1]
    BY <1>5
  <2>1. j \in 1 .. n /\ f[j - 1] \in Nat
    OBVIOUS
  <2> QED BY <1>1, <1>5, <2>1
<1>7. f = [j \in 0 .. n |-> f[j]]
  OBVIOUS
<1>8. f = [j \in 0 .. n |-> IF j = 0 THEN 1 ELSE 2 * f[j - 1]]
  BY <1>6, <1>7
<1> QED BY <1>8

(* Powers of two, one from the other.                                      *)
LEMMA PowerSteps ==
  ASSUME NEW n \in Nat
  PROVE  \E f : /\ f[0] = 1
                /\ \A j \in 1 .. n : f[j] = 2 * f[j - 1]
                /\ PowerOf2(n) = f[n]
<1> DEFINE IsPower(f) == f = [j \in 0 .. n |-> IF j = 0 THEN 1 ELSE 2 * f[j - 1]]
<1>1. \E f : IsPower(f)
  BY PowerExists
<1>2. PICK f : IsPower(f) /\ PowerOf2(n) = f[n]
  BY <1>1 DEF PowerOf2
<1>3. 0 \in 0 .. n /\ \A j \in 1 .. n : j \in 0 .. n /\ j # 0
  OBVIOUS
<1>4. f[0] = 1 /\ \A j \in 1 .. n : f[j] = 2 * f[j - 1]
  BY <1>2, <1>3
<1> QED BY <1>2, <1>4

LEMMA PowerOf2Properties ==
  /\ PowerOf2(0) = 1
  /\ \A n \in Nat : /\ PowerOf2(n) \in Nat /\ PowerOf2(n) > 0
                    /\ PowerOf2(n + 1) = 2 * PowerOf2(n)
<1>1. PowerOf2(0) = 1
  <2>1. 0 \in Nat
    OBVIOUS
  <2> QED BY <2>1, PowerSteps
<1>2. ASSUME NEW n \in Nat
      PROVE  /\ PowerOf2(n) \in Nat /\ PowerOf2(n) > 0
             /\ PowerOf2(n + 1) = 2 * PowerOf2(n)
  <2>1. n + 1 \in Nat
    OBVIOUS
  <2>2. PICK f : f[0] = 1 /\ (\A j \in 1 .. n : f[j] = 2 * f[j - 1]) /\ PowerOf2(n) = f[n]
    BY PowerSteps
  <2>3. PICK g : g[0] = 1 /\ (\A j \in 1 .. n + 1 : g[j] = 2 * g[j - 1]) /\ PowerOf2(n + 1) = g[n + 1]
    BY <2>1, PowerSteps
  <2> DEFINE T == {j \in 0 .. n : f[j] = g[j] /\ f[j] \in Nat /\ f[j] > 0}
  <2>4. 0 \in T
    BY <2>2, <2>3
  <2>5. ASSUME NEW j \in 0 .. n - 1, j \in T PROVE j + 1 \in T
    <3>1. j + 1 \in 1 .. n /\ j + 1 \in 1 .. n + 1 /\ j + 1 - 1 = j /\ j + 1 \in 0 .. n
      OBVIOUS
    <3>2. f[j + 1] = 2 * f[j] /\ g[j + 1] = 2 * g[j]
      BY <2>2, <2>3, <3>1
    <3> QED BY <2>5, <3>1, <3>2
  <2> HIDE DEF T
  <2>6. \A j \in 0 .. n : j \in T
    BY <2>4, <2>5, InductTo
  <2>7. n \in T /\ n + 1 \in 1 .. n + 1 /\ n + 1 - 1 = n
    BY <2>6
  <2>8. f[n] = g[n] /\ f[n] \in Nat /\ f[n] > 0
    BY <2>7 DEF T
  <2>9. g[n + 1] = 2 * g[n]
    BY <2>3, <2>7
  <2> QED BY <2>2, <2>3, <2>8, <2>9
<1> QED BY <1>1, <1>2

(* 2^(m+n) = 2^m * 2^n *)
LEMMA PowerOf2Plus ==
  ASSUME NEW m \in Nat, NEW n \in Nat
  PROVE  PowerOf2(m + n) = PowerOf2(m) * PowerOf2(n)
<1> DEFINE T == {k \in Nat : PowerOf2(m + k) = PowerOf2(m) * PowerOf2(k)}
<1>1. 0 \in T
  <2>1. PowerOf2(m) \in Nat /\ m + 0 = m
    BY PowerOf2Properties
  <2>2. PowerOf2(m) * 1 = PowerOf2(m)
    BY <2>1
  <2> QED BY <2>1, <2>2, PowerOf2Properties
<1>2. ASSUME NEW k \in T PROVE k + 1 \in T
  <2>1. PICK x, y, z : x = PowerOf2(m) /\ y = PowerOf2(k) /\ z = PowerOf2(m + k)
    OBVIOUS
  <2>2. k \in Nat /\ m + k \in Nat /\ m + (k + 1) = (m + k) + 1
    OBVIOUS
  <2>3. x \in Nat /\ y \in Nat /\ z \in Nat
    BY <2>1, <2>2, PowerOf2Properties
  <2>4. PowerOf2(k + 1) = 2 * y /\ PowerOf2((m + k) + 1) = 2 * z
    BY <2>1, <2>2, PowerOf2Properties
  <2>5. z = x * y
    BY <2>1
  <2>6. 2 * z = x * (2 * y)
    BY <2>3, <2>5
  <2> QED BY <2>1, <2>2, <2>4, <2>6
<1> HIDE DEF T
<1>3. T \in SUBSET Nat
  BY DEF T
<1>4. T = Nat
  BY <1>1, <1>2, <1>3, Induct
<1> QED BY <1>4 DEF T

(***************************************************************************)
(* Bits and their sums                                                     *)
(***************************************************************************)
(* The sums of the first bits of a value of w bits.                        *)
BitSums(w, bit) == PrefixSums([j \in 1 .. w |-> bit[j] * PowerOf2(w - j)])

LEMMA BitSumsSteps ==
  ASSUME NEW w \in Nat, NEW bit, \A j \in 1 .. w : bit[j] \in {0, 1}
  PROVE  /\ BitSums(w, bit)[0] = 0
         /\ \A j \in 1 .. w : BitSums(w, bit)[j] = BitSums(w, bit)[j - 1] + bit[j] * PowerOf2(w - j)
         /\ \A j \in 0 .. w : BitSums(w, bit)[j] \in Nat
<1>1. PICK s : s = [j \in 1 .. w |-> bit[j] * PowerOf2(w - j)]
  OBVIOUS
<1>2. ASSUME NEW j \in 1 .. w PROVE s[j] \in Nat /\ s[j] = bit[j] * PowerOf2(w - j)
  <2>1. w - j \in Nat /\ bit[j] \in {0, 1}
    OBVIOUS
  <2>2. PowerOf2(w - j) \in Nat
    BY <2>1, PowerOf2Properties
  <2>3. 0 * PowerOf2(w - j) = 0 /\ 1 * PowerOf2(w - j) = PowerOf2(w - j)
    BY <2>2
  <2> QED BY <1>1, <2>1, <2>2, <2>3
<1>3. s \in Seq(Nat) /\ Len(s) = w
  BY <1>1, <1>2
<1>4. BitSums(w, bit) = PrefixSums(s)
  BY <1>1 DEF BitSums
<1>5. /\ PrefixSums(s) \in [0 .. w -> Nat] /\ PrefixSums(s)[0] = 0
      /\ \A j \in 1 .. w : PrefixSums(s)[j] = PrefixSums(s)[j - 1] + s[j]
  BY <1>3, PrefixSumsProperties
<1> QED BY <1>2, <1>4, <1>5

(* Products with bits and powers.                                          *)
LEMMA BitTimes ==
  ASSUME NEW b \in {0, 1}, NEW p \in Nat
  PROVE  b * p \in Nat /\ b * p <= p /\ (b = 0 => b * p = 0) /\ (b = 1 => b * p = p)
<1>1. 0 * p = 0 /\ 1 * p = p
  OBVIOUS
<1> QED BY <1>1

LEMMA BitSumsBound ==
  ASSUME NEW w \in Nat, NEW bit, \A j \in 1 .. w : bit[j] \in {0, 1}, NEW f \in Nat, f <= w
  PROVE  \A j \in f .. w :
           /\ BitSums(w, bit)[f] <= BitSums(w, bit)[j]
           /\ BitSums(w, bit)[j] <= BitSums(w, bit)[f] + PowerOf2(w - f) - PowerOf2(w - j)
<1>1. PICK s : s = BitSums(w, bit)
  OBVIOUS
<1>2. /\ \A j \in 1 .. w : s[j] = s[j - 1] + bit[j] * PowerOf2(w - j)
      /\ \A j \in 0 .. w : s[j] \in Nat
  BY <1>1, BitSumsSteps
<1> DEFINE T == {k \in 0 .. w - f : /\ s[f] <= s[f + k]
                                    /\ s[f + k] <= s[f] + PowerOf2(w - f) - PowerOf2(w - (f + k))}
<1>3. 0 \in T
  <2>1. f + 0 = f /\ w - f \in Nat /\ f \in 0 .. w
    OBVIOUS
  <2>2. PowerOf2(w - f) \in Nat /\ s[f] \in Nat
    BY <1>2, <2>1, PowerOf2Properties
  <2> QED BY <2>1, <2>2
<1>4. ASSUME NEW k \in 0 .. w - f - 1, k \in T PROVE k + 1 \in T
  <2>1. PICK j : j = f + k + 1
    OBVIOUS
  <2>2. j \in 1 .. w /\ f + (k + 1) = j /\ j - 1 = f + k /\ j - 1 \in 0 .. w /\ j \in 0 .. w /\ f \in 0 .. w
        /\ w - j \in Nat /\ w - (f + k) = w - j + 1 /\ w - f \in Nat /\ k + 1 \in 0 .. w - f
    BY <2>1
  <2>3. PICK p, q, b : p = PowerOf2(w - j) /\ q = PowerOf2(w - f) /\ b = bit[j]
    OBVIOUS
  <2>4. PowerOf2(w - (f + k)) = 2 * p /\ p \in Nat /\ q \in Nat
    BY <2>2, <2>3, PowerOf2Properties
  <2>5. s[j] = s[j - 1] + b * p /\ s[j] \in Nat /\ s[j - 1] \in Nat /\ s[f] \in Nat
    BY <1>2, <2>2, <2>3
  <2>6. b * p \in Nat /\ b * p <= p
    BY <2>2, <2>3, <2>4, BitTimes
  <2>7. s[f] <= s[j - 1] /\ s[j - 1] <= s[f] + q - 2 * p
    BY <1>4, <2>2, <2>3, <2>4
  <2>8. s[f] <= s[j] /\ s[j] <= s[f] + q - p
    BY <2>4, <2>5, <2>6, <2>7
  <2> QED BY <2>2, <2>3, <2>8
<1> HIDE DEF T
<1>5. \A k \in 0 .. w - f : k \in T
  <2>1. w - f \in Nat
    OBVIOUS
  <2> QED BY <1>3, <1>4, <2>1, InductTo
<1>6. ASSUME NEW j \in f .. w
      PROVE  s[f] <= s[j] /\ s[j] <= s[f] + PowerOf2(w - f) - PowerOf2(w - j)
  <2>1. j - f \in 0 .. w - f /\ f + (j - f) = j
    OBVIOUS
  <2>2. j - f \in T
    BY <1>5, <2>1
  <2> QED BY <2>1, <2>2 DEF T
<1> QED BY <1>1, <1>6

(* The value is below 2^w, and the first bit tells in which half it is.    *)
LEMMA FirstBit ==
  ASSUME NEW w \in Nat \ {0}, NEW bit, \A j \in 1 .. w : bit[j] \in {0, 1}
  PROVE  /\ BitSums(w, bit)[w] \in 0 .. PowerOf2(w) - 1
         /\ bit[1] = 1 <=> BitSums(w, bit)[w] >= PowerOf2(w - 1)
         /\ PowerOf2(w) = 2 * PowerOf2(w - 1) /\ PowerOf2(w - 1) \in Nat /\ PowerOf2(w - 1) > 0
<1>1. PICK s, p : s = BitSums(w, bit) /\ p = PowerOf2(w - 1)
  OBVIOUS
<1>2. w \in Nat /\ w - 1 \in Nat /\ w - 1 + 1 = w /\ w - w = 0 /\ w - 0 = w /\ 1 \in 1 .. w
      /\ w \in 0 .. w /\ w \in 1 .. w /\ 1 - 1 = 0 /\ bit[1] \in {0, 1}
  OBVIOUS
<1>3. PowerOf2(w) = 2 * p /\ p \in Nat /\ p > 0 /\ PowerOf2(0) = 1
  BY <1>1, <1>2, PowerOf2Properties
<1>4. s[0] = 0 /\ s[1] = s[1 - 1] + bit[1] * p /\ s[w] \in Nat
  BY <1>1, <1>2, BitSumsSteps
<1>5. s[0] <= s[w] /\ s[w] <= s[0] + PowerOf2(w - 0) - PowerOf2(w - w)
  BY <1>1, <1>2, BitSumsBound
<1>6. s[1] <= s[w] /\ s[w] <= s[1] + PowerOf2(w - 1) - PowerOf2(w - w)
  BY <1>1, <1>2, BitSumsBound
<1>7. bit[1] * p \in Nat /\ (bit[1] = 0 => bit[1] * p = 0) /\ (bit[1] = 1 => bit[1] * p = p)
  BY <1>2, <1>3, BitTimes
<1>8. s[w] <= 2 * p - 1 /\ s[1] <= s[w] /\ s[w] <= s[1] + p - 1 /\ s[1] = bit[1] * p
  BY <1>1, <1>2, <1>3, <1>4, <1>5, <1>6
<1> QED BY <1>1, <1>2, <1>3, <1>4, <1>7, <1>8

(***************************************************************************)
(* Numbers of w bits                                                       *)
(***************************************************************************)
LEMMA Remainder ==
  ASSUME NEW r \in Int, NEW m \in Nat, m > 0
  PROVE  /\ r % m \in 0 .. m - 1
         /\ \E c \in Int : r % m = r - c * m
<1>1. r % m \in 0 .. m - 1
  OBVIOUS
<1>2. r \div m \in Int /\ r % m = r - (r \div m) * m
  OBVIOUS
<1> QED BY <1>1, <1>2

LEMMA SmallRemainder ==
  ASSUME NEW r \in Int, NEW m \in Nat, m > 0, 0 <= r, r < m
  PROVE  r % m = r
OBVIOUS

(* There is one number of each remainder in a range of that size.          *)
LEMMA OneRemainder ==
  ASSUME NEW r \in Int, NEW v \in Int, NEW m \in Nat, NEW k \in Int,
         r = v + k * m, -m < r - v, r - v < m
  PROVE  k = 0 /\ r = v
<1>1. k >= 1 => k * m >= m
  OBVIOUS
<1>2. k <= -1 => k * m <= -m
  OBVIOUS
<1>3. k * m \in Int
  OBVIOUS
<1>4. k = 0
  BY <1>1, <1>2, <1>3
<1> QED BY <1>4

(* One bit is shifted in: what is left of the weight is halved.            *)
LEMMA ShiftOne ==
  ASSUME NEW r \in Int, NEW s \in Int, NEW k \in Int, NEW c \in Int, NEW b \in Int, NEW q \in Int, NEW m \in Int,
         r * (2 * q) = s + k * m
  PROVE  ((2 * r - c * m) + b) * q = (s + b * q) + (k - c * q) * m
<1>1. ((2 * r - c * m) + b) * q = r * (2 * q) - (c * q) * m + b * q
  OBVIOUS
<1>2. (k - c * q) * m = k * m - (c * q) * m
  OBVIOUS
<1>3. r * (2 * q) \in Int /\ (c * q) * m \in Int /\ b * q \in Int /\ k * m \in Int
  OBVIOUS
<1> QED BY <1>1, <1>2, <1>3

(* A number that differs from that of its bits by a multiple of 2^w, read  *)
(* as unsigned, as signed, and as the pattern of its bits.                 *)
LEMMA NumberOfBits ==
  ASSUME NEW w \in Nat \ {0}, NEW bit, \A j \in 1 .. w : bit[j] \in {0, 1},
         NEW r \in Int, NEW k \in Int, r = BitSums(w, bit)[w] + k * PowerOf2(w)
  PROVE  /\ r \in 0 .. PowerOf2(w) - 1 => r = BitSums(w, bit)[w]
         /\ r \in -PowerOf2(w - 1) .. PowerOf2(w - 1) - 1 =>
              r = BitSums(w, bit)[w] - bit[1] * PowerOf2(w) /\ (r < 0 <=> bit[1] = 1)
         /\ r % PowerOf2(w) = BitSums(w, bit)[w]
<1>1. PICK s, m, h : s = BitSums(w, bit)[w] /\ m = PowerOf2(w) /\ h = PowerOf2(w - 1)
  OBVIOUS
<1>2. s \in 0 .. m - 1 /\ (bit[1] = 1 <=> s >= h) /\ m = 2 * h /\ h \in Nat /\ h > 0
  BY <1>1, FirstBit
<1>3. r = s + k * m /\ s \in Int /\ m \in Nat /\ m > 0 /\ bit[1] \in {0, 1}
  BY <1>1, <1>2
<1>4. ASSUME r \in 0 .. m - 1 PROVE r = s
  <2>1. -m < r - s /\ r - s < m
    BY <1>2, <1>3, <1>4
  <2> QED BY <1>3, <2>1, OneRemainder
<1>5. ASSUME r \in -h .. h - 1 PROVE r = s - bit[1] * m /\ (r < 0 <=> bit[1] = 1)
  <2>1. CASE bit[1] = 0
    <3>1. s < h /\ bit[1] * m = 0
      BY <1>2, <1>3, <2>1, BitTimes
    <3>2. -m < r - s /\ r - s < m
      BY <1>2, <1>3, <1>5, <3>1
    <3>3. r = s
      BY <1>3, <3>2, OneRemainder
    <3> QED BY <1>2, <2>1, <3>1, <3>3
  <2>2. CASE bit[1] = 1
    <3>1. s >= h /\ bit[1] * m = m
      BY <1>2, <1>3, <2>2, BitTimes
    <3>2. -m < r - (s - m) /\ r - (s - m) < m
      BY <1>2, <1>3, <1>5, <3>1
    <3>3. r = (s - m) + (k + 1) * m
      <4>1. (k + 1) * m = k * m + m /\ k * m \in Int
        BY <1>3
      <4> QED BY <1>3, <4>1
    <3>4. r = s - m
      <4>1. s - m \in Int /\ k + 1 \in Int
        BY <1>3
      <4> QED BY <1>3, <3>2, <3>3, <4>1, OneRemainder
    <3> QED BY <1>2, <2>2, <3>1, <3>4
  <2> QED BY <1>3, <2>1, <2>2
<1>6. r % m = s
  <2>1. PICK c \in Int : r % m = r - c * m
    BY <1>3, Remainder
  <2>2. r % m \in 0 .. m - 1 /\ r % m \in Int
    BY <1>3, Remainder
  <2>3. -m < (r % m) - s /\ (r % m) - s < m
    BY <1>2, <1>3, <2>2
  <2>4. r % m = s + (k - c) * m
    <3>1. (k - c) * m = k * m - c * m /\ k * m \in Int /\ c * m \in Int
      BY <1>3
    <3> QED BY <1>3, <2>1, <3>1
  <2>5. k - c \in Int
    OBVIOUS
  <2> QED BY <1>3, <2>2, <2>3, <2>4, <2>5, OneRemainder
<1> QED BY <1>1, <1>4, <1>5, <1>6

(* How often w fits into l.                                                *)
LEMMA Quotient ==
  ASSUME NEW n \in Nat, NEW w \in Nat \ {0}, NEW l \in Nat
  PROVE  /\ n * w <= l <=> n <= l \div w
         /\ n * w \in Nat /\ (n + 1) * w = n * w + w
         /\ l \div w \in Nat
<1>1. l \div w \in Nat /\ l % w \in 0 .. w - 1 /\ l = ((l \div w) * w) + (l % w)
  OBVIOUS
<1>2. PICK d, e : d = l \div w /\ e = l % w
  OBVIOUS
<1>3. n <= d => n * w <= d * w
  BY <1>1, <1>2
<1>4. n >= d + 1 => n * w >= (d + 1) * w
  BY <1>1, <1>2
<1>5. (d + 1) * w = d * w + w /\ d * w \in Nat /\ n * w \in Nat
  BY <1>1, <1>2
<1>6. (n + 1) * w = n * w + w
  OBVIOUS
<1> QED BY <1>1, <1>2, <1>3, <1>4, <1>5, <1>6

(***************************************************************************)
(* hw1: types, widths and values                                           *)
(***************************************************************************)
LEMMA Stages ==
  /\ Stage = 1 .. 7
  /\ \A s \in Stage : /\ IsUnion(s) <=> s \in {6, 7}
                      /\ IsUnsigned(s) <=> s \in {3, 5}
                      /\ Promise!Types[s] = "ascii" <=> s = 2
                      /\ Promise!Types[s] \in {"signed_char", "int"} <=> s \in {1, 4}
<1>1. Stage = 1 .. 7
  BY DEF Stage, Promise!Stage, Promise!Types
<1>2. ASSUME NEW s \in 1 .. 7
      PROVE  /\ IsUnion(s) <=> s \in {6, 7}
             /\ IsUnsigned(s) <=> s \in {3, 5}
             /\ Promise!Types[s] = "ascii" <=> s = 2
             /\ Promise!Types[s] \in {"signed_char", "int"} <=> s \in {1, 4}
  <2>1. s = 1 \/ s = 2 \/ s = 3 \/ s = 4 \/ s = 5 \/ s = 6 \/ s = 7
    OBVIOUS
  <2> QED BY <2>1 DEF IsUnion, IsUnsigned, Promise!Types
<1> QED BY <1>1, <1>2

LEMMA Widths ==
  ASSUME NEW s \in Stage
  PROVE  /\ Promise!Width(s) \in Nat \ {0, 1}
         /\ s \in {1, 2, 3} => Promise!Width(s) = CHAR_SIZE
         /\ s \in {4, 5, 6} => Promise!Width(s) = INT_SIZE
         /\ s = 7 => Promise!Width(s) = DOUBLE_SIZE
<1>1. s = 1 \/ s = 2 \/ s = 3 \/ s = 4 \/ s = 5 \/ s = 6 \/ s = 7
  BY Stages
<1>2. /\ s \in {1, 2, 3} => Promise!Width(s) = CHAR_SIZE
      /\ s \in {4, 5, 6} => Promise!Width(s) = INT_SIZE
      /\ s = 7 => Promise!Width(s) = DOUBLE_SIZE
  BY <1>1 DEF Promise!Width, Promise!Types
<1> QED BY <1>1, <1>2, WidthAssumption

(* The operators of SeqSums are the same in all modules.                   *)
LEMMA SamePowers ==
  /\ \A n : Promise!PowerOf2(n) = PowerOf2(n)
  /\ \A s : Promise!PrefixSums(s) = PrefixSums(s)
  /\ \A n : Answer!PowerOf2(n) = PowerOf2(n)
  /\ \A s : Answer!PrefixSums(s) = PrefixSums(s)
  /\ \A n : Answer!Promise!PowerOf2(n) = PowerOf2(n)
  /\ \A s : Answer!Promise!PrefixSums(s) = PrefixSums(s)
<1>1. \A n : Promise!PowerOf2(n) = PowerOf2(n)
  BY DEF PowerOf2, Promise!PowerOf2
<1>2. \A s : Promise!PrefixSums(s) = PrefixSums(s)
  BY DEF PrefixSums, Promise!PrefixSums
<1>3. \A n : Answer!PowerOf2(n) = PowerOf2(n)
  BY DEF PowerOf2, Answer!PowerOf2
<1>4. \A s : Answer!PrefixSums(s) = PrefixSums(s)
  BY DEF PrefixSums, Answer!PrefixSums
<1>5. \A n : Answer!Promise!PowerOf2(n) = PowerOf2(n)
  BY DEF PowerOf2, Answer!Promise!PowerOf2
<1>6. \A s : Answer!Promise!PrefixSums(s) = PrefixSums(s)
  BY DEF PrefixSums, Answer!Promise!PrefixSums
<1> QED BY <1>1, <1>2, <1>3, <1>4, <1>5, <1>6

(* The bits of group k of w characters of the file, and for stage s.       *)
Group(w, k) == [j \in 1 .. w |-> IF file[(k - 1) * w + j] = "1" THEN 1 ELSE 0]
Bits(s, k) == Group(Promise!Width(s), k)

LEMMA ValueOfBits ==
  ASSUME NEW s \in Stage, NEW k
  PROVE  LET w == Promise!Width(s)
             sum == BitSums(w, Bits(s, k))[w]
         IN  /\ Promise!Value(s, k) =
                  CASE s = 2 /\ Bits(s, k)[1] = 1 -> Promise!Dot
                    [] s \in {1, 4} -> sum - Bits(s, k)[1] * PowerOf2(w)
                    [] OTHER -> sum
             /\ \A j \in 1 .. w : Bits(s, k)[j] \in {0, 1}
             /\ Promise!Value(s, k) \in Int
<1>1. PICK w, bit : w = Promise!Width(s) /\ bit = Bits(s, k)
  OBVIOUS
<1>2. bit = [j \in 1 .. w |-> IF file[(k - 1) * w + j] = "1" THEN 1 ELSE 0]
  BY <1>1 DEF Bits, Group
<1>3. w \in Nat \ {0, 1} /\ (\A j \in 1 .. w : bit[j] \in {0, 1}) /\ 1 \in 1 .. w
  BY <1>1, <1>2, Widths
<1>4. PICK sum : sum = BitSums(w, bit)[w]
  OBVIOUS
<1>5. /\ sum = PrefixSums([j \in 1 .. w |-> bit[j] * PowerOf2(w - j)])[w]
      /\ [j \in 1 .. w |-> bit[j] * PowerOf2(w - j)] = [j \in 1 .. w |-> bit[j] * Promise!PowerOf2(w - j)]
      /\ \A x : PrefixSums(x) = Promise!PrefixSums(x)
      /\ PowerOf2(w) = Promise!PowerOf2(w)
  BY <1>4, SamePowers DEF BitSums
<1>6. (Promise!Types[s] = "ascii" <=> s = 2) /\ (Promise!Types[s] \in {"signed_char", "int"} <=> s \in {1, 4})
  BY Stages
<1>7. Promise!Value(s, k) =
        CASE Promise!Types[s] = "ascii" /\ bit[1] = 1 -> Promise!Dot
          [] Promise!Types[s] \in {"signed_char", "int"} -> sum - bit[1] * PowerOf2(w)
          [] OTHER -> sum
  BY <1>1, <1>2, <1>5 DEF Promise!Value
<1>8. sum \in Int /\ PowerOf2(w) \in Nat /\ w \in 0 .. w
  BY <1>3, <1>4, FirstBit, PowerOf2Properties
<1>9. bit[1] * PowerOf2(w) \in Nat
  BY <1>3, <1>8, BitTimes
<1>10. Promise!Value(s, k) =
        CASE s = 2 /\ bit[1] = 1 -> Promise!Dot
          [] s \in {1, 4} -> sum - bit[1] * PowerOf2(w)
          [] OTHER -> sum
  BY <1>6, <1>7
<1>11. Promise!Value(s, k) \in Int
  BY <1>8, <1>9, <1>10 DEF Promise!Dot
<1> QED BY <1>1, <1>3, <1>4, <1>10, <1>11

(***************************************************************************)
(* hw1: the range of a type                                                *)
(***************************************************************************)
InRange(s, r) ==
  LET w == Promise!Width(s)
  IN  IF IsUnsigned(s) THEN r \in 0 .. PowerOf2(w) - 1
      ELSE r \in -PowerOf2(w - 1) .. PowerOf2(w - 1) - 1

WrappedTo(s, r) ==
  LET w == Promise!Width(s)
  IN  IF IsUnsigned(s) THEN r % PowerOf2(w)
      ELSE ((r + PowerOf2(w - 1)) % PowerOf2(w)) - PowerOf2(w - 1)

LEMMA Halves ==
  ASSUME NEW w \in Nat \ {0, 1}
  PROVE  /\ PowerOf2(w) = 2 * PowerOf2(w - 1) /\ PowerOf2(w - 1) = 2 * PowerOf2(w - 2)
         /\ PowerOf2(w) \in Nat /\ PowerOf2(w - 1) \in Nat /\ PowerOf2(w - 2) \in Nat
         /\ PowerOf2(w - 2) > 0
<1>1. w - 1 \in Nat /\ w - 2 \in Nat /\ w - 1 + 1 = w /\ w - 2 + 1 = w - 1 /\ w \in Nat
  OBVIOUS
<1>2. PowerOf2(w - 1 + 1) = 2 * PowerOf2(w - 1) /\ PowerOf2(w - 2 + 1) = 2 * PowerOf2(w - 2)
  BY <1>1, PowerOf2Properties
<1> QED BY <1>1, <1>2, PowerOf2Properties

(* The conversion to a type changes what is outside its range, and by      *)
(* multiples of 2^w.                                                       *)
LEMMA WrappedRange ==
  ASSUME NEW s \in Stage, NEW r \in Int
  PROVE  /\ WrappedTo(s, r) \in Int
         /\ InRange(s, WrappedTo(s, r))
         /\ InRange(s, r) <=> r = WrappedTo(s, r)
<1>1. PICK w, m, h : w = Promise!Width(s) /\ m = PowerOf2(w) /\ h = PowerOf2(w - 1)
  OBVIOUS
<1>2. m = 2 * h /\ m \in Nat /\ h \in Nat /\ h > 0 /\ m > 0
  <2>1. w \in Nat \ {0, 1}
    BY <1>1, Widths
  <2> QED BY <1>1, <2>1, Halves
<1>3. CASE IsUnsigned(s)
  <2>1. WrappedTo(s, r) = r % m /\ \A x : InRange(s, x) <=> x \in 0 .. m - 1
    BY <1>1, <1>3 DEF WrappedTo, InRange
  <2>2. r % m \in 0 .. m - 1
    BY <1>2, Remainder
  <2>3. r \in 0 .. m - 1 => r % m = r
    BY <1>2, SmallRemainder
  <2> QED BY <2>1, <2>2, <2>3
<1>4. CASE ~ IsUnsigned(s)
  <2>1. WrappedTo(s, r) = ((r + h) % m) - h /\ \A x : InRange(s, x) <=> x \in -h .. h - 1
    BY <1>1, <1>4 DEF WrappedTo, InRange
  <2>2. PICK x \in Int : x = r + h
    BY <1>2
  <2>3. x % m \in 0 .. m - 1
    BY <1>2, Remainder
  <2>4. x \in 0 .. m - 1 => x % m = x
    BY <1>2, SmallRemainder
  <2>5. WrappedTo(s, r) \in -h .. h - 1 /\ WrappedTo(s, r) \in Int
    BY <1>2, <2>1, <2>2, <2>3
  <2>6. r \in -h .. h - 1 <=> x \in 0 .. m - 1
    BY <1>2, <2>2
  <2>7. r \in -h .. h - 1 => WrappedTo(s, r) = r
    BY <1>2, <2>1, <2>2, <2>4, <2>6
  <2> QED BY <2>1, <2>5, <2>7
<1> QED BY <1>3, <1>4

LEMMA WrappedBy ==
  ASSUME NEW s \in Stage, NEW r \in Int
  PROVE  \E c \in Int : WrappedTo(s, r) = r - c * PowerOf2(Promise!Width(s))
<1>1. PICK w, m, h : w = Promise!Width(s) /\ m = PowerOf2(w) /\ h = PowerOf2(w - 1)
  OBVIOUS
<1>2. m = 2 * h /\ m \in Nat /\ h \in Nat /\ h > 0 /\ m > 0
  <2>1. w \in Nat \ {0, 1}
    BY <1>1, Widths
  <2> QED BY <1>1, <2>1, Halves
<1>3. CASE IsUnsigned(s)
  <2>1. WrappedTo(s, r) = r % m
    BY <1>1, <1>3 DEF WrappedTo
  <2>2. PICK c \in Int : r % m = r - c * m
    BY <1>2, Remainder
  <2> QED BY <1>1, <2>1, <2>2
<1>4. CASE ~ IsUnsigned(s)
  <2>1. WrappedTo(s, r) = ((r + h) % m) - h
    BY <1>1, <1>4 DEF WrappedTo
  <2>2. PICK x \in Int : x = r + h
    BY <1>2
  <2>3. PICK c \in Int : x % m = x - c * m
    BY <1>2, Remainder
  <2>4. c * m \in Int
    BY <1>2
  <2>5. WrappedTo(s, r) = r - c * m
    BY <1>2, <2>1, <2>2, <2>3, <2>4
  <2> QED BY <1>1, <2>5
<1> QED BY <1>3, <1>4

(* A shifted value has room for one more bit: it is even.                  *)
LEMMA RoomForBit ==
  ASSUME NEW s \in Stage, NEW r \in Int, NEW b \in {0, 1}
  PROVE  InRange(s, WrappedTo(s, 2 * r) + b)
<1>1. PICK w, m, h, q : w = Promise!Width(s) /\ m = PowerOf2(w) /\ h = PowerOf2(w - 1) /\ q = PowerOf2(w - 2)
  OBVIOUS
<1>2. m = 2 * h /\ h = 2 * q /\ m \in Nat /\ h \in Nat /\ q \in Nat /\ q > 0
  <2>1. w \in Nat \ {0, 1}
    BY <1>1, Widths
  <2> QED BY <1>1, <2>1, Halves
<1>3. PICK c \in Int : WrappedTo(s, 2 * r) = 2 * r - c * m
  <2>1. 2 * r \in Int
    OBVIOUS
  <2> QED BY <1>1, <2>1, WrappedBy
<1>4. PICK d \in Int : d = c * h
  BY <1>2
<1>5. c * m = 2 * d
  BY <1>2, <1>4
<1>6. PICK e \in Int : e = r - d
  OBVIOUS
<1>7. WrappedTo(s, 2 * r) = 2 * e
  BY <1>3, <1>5, <1>6
<1>8. InRange(s, 2 * e)
  <2>1. 2 * r \in Int
    OBVIOUS
  <2> QED BY <1>7, <2>1, WrappedRange
<1>9. CASE IsUnsigned(s)
  <2>1. \A x : InRange(s, x) <=> x \in 0 .. m - 1
    BY <1>1, <1>9 DEF InRange
  <2>2. 2 * e \in 0 .. m - 1
    BY <1>8, <2>1
  <2>3. 2 * e + b \in 0 .. m - 1
    BY <1>2, <2>2
  <2> QED BY <1>7, <2>1, <2>3
<1>10. CASE ~ IsUnsigned(s)
  <2>1. \A x : InRange(s, x) <=> x \in -h .. h - 1
    BY <1>1, <1>10 DEF InRange
  <2>2. 2 * e \in -h .. h - 1
    BY <1>8, <2>1
  <2>3. 2 * e + b \in -h .. h - 1
    BY <1>2, <2>2
  <2> QED BY <1>7, <2>1, <2>3
<1> QED BY <1>9, <1>10

LEMMA InitialInRange ==
  ASSUME NEW s \in Stage, NEW r \in InitialResult(s)
  PROVE  r \in Int /\ InRange(s, r)
<1>1. PICK w, m, h : w = Promise!Width(s) /\ m = PowerOf2(w) /\ h = PowerOf2(w - 1)
  OBVIOUS
<1>2. m = 2 * h /\ m \in Nat /\ h \in Nat /\ h > 0
  <2>1. w \in Nat \ {0, 1}
    BY <1>1, Widths
  <2>2. m = 2 * h /\ h = 2 * PowerOf2(w - 2) /\ m \in Nat /\ h \in Nat /\ PowerOf2(w - 2) > 0 /\ PowerOf2(w - 2) \in Nat
    BY <1>1, <2>1, Halves
  <2> QED BY <2>2
<1>3. CASE IsUnion(s)
  <2>1. s \in {6, 7} /\ ~ IsUnsigned(s)
    BY <1>3, Stages
  <2>2. w \in {INT_SIZE, DOUBLE_SIZE}
    BY <1>1, <2>1, Widths
  <2>3. Leftover \subseteq -h .. h - 1
    BY <1>1, <2>2, LeftoverAssumption
  <2>4. r \in Leftover
    BY <1>3 DEF InitialResult
  <2>5. r \in -h .. h - 1
    BY <2>3, <2>4
  <2> QED BY <1>1, <1>2, <2>1, <2>5 DEF InRange
<1>4. CASE ~ IsUnion(s)
  <2>1. r = 0
    BY <1>4 DEF InitialResult
  <2> QED BY <1>1, <1>2, <2>1 DEF InRange
<1> QED BY <1>3, <1>4

(***************************************************************************)
(* hw1: the inductive invariant.  The position in the file follows the     *)
(* number of values printed; and what has been shifted in is, at its       *)
(* place, the sum of the bits read so far, but for a multiple of 2^w:      *)
(* what was in the variable before leaves it on the other side.            *)
(***************************************************************************)
PrintedInOrder ==
  \A s \in Stage : /\ s < stage => Len(out[s]) = Promise!Total(s)
                   /\ s > stage => out[s] = <<>>

Shifted ==
  \E k \in Int : result * PowerOf2(Width - i)
                   = BitSums(Width, Bits(stage, Len(out[stage]) + 1))[i] + k * PowerOf2(Width)

IInv ==
  /\ file \in Files
  /\ TypeOK
  /\ result \in Int
  /\ PrintedInOrder
  /\ pc = "read" => cursor = Len(out[stage]) * Width
  /\ pc = "shift" => /\ cursor = Len(out[stage]) * Width + Width
                     /\ buffer = SubSeq(file, Len(out[stage]) * Width + 1, Len(out[stage]) * Width + Width)
                     /\ Shifted
  /\ pc \in {"rewind", "done"} => Len(out[stage]) = Promise!Total(stage) /\ i = 0
  /\ pc = "done" => stage = 7

(* The types, without the file and the value.                              *)
LEMMA Sizes ==
  ASSUME IInv
  PROVE  /\ file \in Seq(Character) /\ Len(file) \in Nat
         /\ stage \in 1 .. 7 /\ stage \in Stage
         /\ Width \in Nat \ {0, 1} /\ Width = Promise!Width(stage)
         /\ out \in [Stage -> Seq(Int)] /\ out[stage] \in Seq(Int) /\ Len(out[stage]) \in Nat
         /\ Len(out[stage]) * Width \in Nat
         /\ Promise!Total(stage) \in Nat
         /\ (Len(out[stage]) + 1) * Width = Len(out[stage]) * Width + Width
         /\ WrappedTo(stage, result) = result /\ InRange(stage, result)
<1>1. file \in Seq(Character)
  BY FilesAssumption DEF IInv
<1>2. stage \in Stage /\ out \in [Stage -> Seq(Int)]
  BY DEF IInv, TypeOK
<1>3. out[stage] \in Seq(Int) /\ stage \in 1 .. 7
  BY <1>2, Stages
<1>4. Len(file) \in Nat /\ Len(out[stage]) \in Nat
  BY <1>1, <1>3
<1>5. Width = Promise!Width(stage) /\ Width \in Nat \ {0, 1}
  BY <1>2, Widths DEF Width
<1>6. PICK w, l, n : w = Width /\ l = Len(file) /\ n = Len(out[stage])
  OBVIOUS
<1>7. w \in Nat \ {0} /\ l \in Nat /\ n \in Nat
  BY <1>4, <1>5, <1>6
<1>8. Promise!Total(stage) = l \div w
  BY <1>5, <1>6 DEF Promise!Total
<1>9. n * w \in Nat /\ (n + 1) * w = n * w + w /\ l \div w \in Nat
  BY <1>7, Quotient
<1>10. result \in Int /\ result = Wrapped(result)
  BY DEF IInv, TypeOK
<1>11. WrappedTo(stage, result) = result
  BY <1>10 DEF Wrapped, WrappedTo, Width
<1>12. InRange(stage, result)
  BY <1>2, <1>10, <1>11, WrappedRange
<1> QED BY <1>1, <1>2, <1>3, <1>4, <1>5, <1>6, <1>8, <1>9, <1>11, <1>12

LEMMA Fits ==
  ASSUME IInv, NEW n \in Nat
  PROVE  n * Width <= Len(file) <=> n <= Promise!Total(stage)
<1>1. Len(file) \in Nat /\ Width \in Nat \ {0, 1} /\ Width = Promise!Width(stage)
  BY Sizes
<1>2. PICK w, l : w = Width /\ l = Len(file)
  OBVIOUS
<1>3. w \in Nat \ {0} /\ l \in Nat
  BY <1>1, <1>2
<1>4. n * w <= l <=> n <= l \div w
  BY <1>3, Quotient
<1> QED BY <1>1, <1>2, <1>4 DEF Promise!Total

(* What the next state's value must be.                                    *)
LEMMA NextInRange ==
  ASSUME stage' \in Stage, result' \in Int, InRange(stage', result')
  PROVE  (result = Wrapped(result))'
<1>1. result' = WrappedTo(stage', result')
  BY WrappedRange
<1>2. (Wrapped(result))' = WrappedTo(stage', result')
  BY DEF Wrapped, WrappedTo, Width
<1> QED BY <1>1, <1>2

LEMMA InitHolds ==
  ASSUME Init
  PROVE  IInv
<1>1. stage = 1 /\ stage \in Stage /\ result \in InitialResult(1) /\ file \in Files
  BY Stages DEF Init
<1>2. out = [s \in Stage |-> <<>>]
  BY DEF Init
<1>3. out \in [Stage -> Seq(Int)] /\ out[stage] = <<>> /\ Len(out[stage]) = 0
  BY <1>1, <1>2
<1>4. file \in Seq(Character) /\ Len(file) \in Nat
  BY <1>1, FilesAssumption
<1>5. Width \in Nat \ {0, 1} /\ 0 * Width = 0
  BY <1>1, Widths DEF Width
<1>6. result \in Int /\ result = Wrapped(result)
  <2>1. result \in Int /\ InRange(stage, result)
    BY <1>1, InitialInRange
  <2>2. result = WrappedTo(stage, result)
    BY <1>1, <2>1, WrappedRange
  <2> QED BY <2>1, <2>2 DEF Wrapped, WrappedTo, Width
<1>7. PrintedInOrder
  BY <1>1, <1>2, Stages DEF PrintedInOrder
<1>8. TypeOK
  BY <1>1, <1>3, <1>4, <1>5, <1>6 DEF TypeOK, Init
<1> QED BY <1>1, <1>3, <1>5, <1>6, <1>7, <1>8 DEF IInv, Init

LEMMA ReadHolds ==
  ASSUME IInv, Read
  PROVE  IInv'
<1> DEFINE n == Len(out[stage])
           w == Width
<1> USE Sizes
<1>1. file' = file /\ stage' = stage /\ result' = result /\ out' = out /\ i' = 0 /\ pc = "read"
  BY DEF Read
<1>2. cursor = n * w /\ w \in Nat \ {0, 1} /\ n \in Nat /\ n * w \in Nat /\ (n + 1) * w = n * w + w
  BY <1>1 DEF IInv
<1>3. Width' = Width /\ (Len(out[stage]))' = n /\ (Promise!Total(stage))' = Promise!Total(stage)
  BY <1>1 DEF Width, Promise!Total, Promise!Width
<1>4. PrintedInOrder'
  BY <1>1 DEF IInv, PrintedInOrder, Promise!Total, Promise!Width
<1>5. (result = Wrapped(result))'
  BY <1>1, NextInRange DEF IInv
<1>6. CASE cursor + Width <= Len(file)
  <2>1. buffer' = SubSeq(file, n * w + 1, n * w + w) /\ cursor' = n * w + w /\ pc' = "shift"
    BY <1>2, <1>6 DEF Read
  <2>2. buffer' \in Seq(Character)
    <3>1. \A j \in n * w + 1 .. n * w + w : j \in 1 .. Len(file)
      BY <1>2, <1>6
    <3>2. PICK f, a, b : f = file /\ a = n * w + 1 /\ b = n * w + w
      OBVIOUS
    <3>3. f \in Seq(Character) /\ a \in Int /\ b \in Int /\ \A j \in a .. b : f[j] \in Character
      BY <1>2, <3>1, <3>2
    <3>4. SubSeq(f, a, b) \in Seq(Character)
      BY <3>3
    <3> QED BY <2>1, <3>2, <3>4
  <2>3. Shifted'
    <3>1. PICK m, bit : m = PowerOf2(w) /\ bit = Bits(stage, n + 1)
      OBVIOUS
    <3>2. m \in Nat
      BY <1>2, <3>1, PowerOf2Properties
    <3>3. BitSums(w, bit)[0] = 0
      <4>1. \A j \in 1 .. w : bit[j] \in {0, 1}
        BY <3>1, ValueOfBits
      <4> QED BY <1>2, <4>1, BitSumsSteps
    <3>4. result * PowerOf2(w - 0) = BitSums(w, bit)[0] + result * m
      <4>1. result * m \in Int /\ w - 0 = w
        BY <1>2, <3>2 DEF IInv
      <4> QED BY <3>1, <3>3, <4>1
    <3>5. result \in Int /\ (Bits(stage, n + 1))' = bit
      BY <1>1, <1>3, <3>1 DEF IInv, Bits, Group, Promise!Width
    <3> QED BY <1>1, <1>3, <3>1, <3>4, <3>5 DEF Shifted
  <2>4. TypeOK'
    <3>1. cursor' \in 0 .. Len(file) /\ 0 \in 0 .. Width
      BY <1>2, <1>6, <2>1
    <3> QED BY <1>1, <1>3, <1>5, <2>1, <2>2, <3>1 DEF TypeOK, IInv
  <2> QED BY <1>1, <1>3, <1>4, <2>1, <2>3, <2>4 DEF IInv
<1>7. CASE ~ (cursor + Width <= Len(file))
  <2>1. buffer' = buffer /\ cursor' = Len(file) /\ pc' = "rewind"
    BY <1>7 DEF Read
  <2>2. n = Promise!Total(stage)
    <3>1. ~ ((n + 1) * w <= Len(file)) /\ n * w <= Len(file) /\ n + 1 \in Nat
      BY <1>2, <1>7 DEF IInv, TypeOK
    <3>2. (n + 1) * w <= Len(file) <=> n + 1 <= Promise!Total(stage)
      BY <3>1, Fits
    <3>3. n * w <= Len(file) <=> n <= Promise!Total(stage)
      BY <1>2, Fits
    <3>4. ~ (n + 1 <= Promise!Total(stage)) /\ n <= Promise!Total(stage)
      BY <3>1, <3>2, <3>3
    <3> QED BY <1>2, <3>4
  <2>3. TypeOK'
    <3>1. cursor' \in 0 .. Len(file) /\ 0 \in 0 .. Width
      BY <1>2, <2>1
    <3> QED BY <1>1, <1>3, <1>5, <2>1, <3>1 DEF TypeOK, IInv
  <2> QED BY <1>1, <1>3, <1>4, <2>1, <2>2, <2>3 DEF IInv
<1> QED BY <1>6, <1>7

LEMMA ShiftHolds ==
  ASSUME IInv, Shift
  PROVE  IInv'
<1> USE Sizes
<1>1. /\ file' = file /\ stage' = stage /\ out' = out /\ pc = "shift" /\ pc' = "shift"
      /\ cursor' = cursor /\ buffer' = buffer /\ i' = i + 1 /\ i < Width
  BY DEF Shift
<1>2. PICK w, n, m, q, b :
           /\ w = Width /\ n = Len(out[stage]) /\ m = PowerOf2(w) /\ q = PowerOf2(w - (i + 1))
           /\ b = IF buffer[i + 1] = "1" THEN 1 ELSE 0
  OBVIOUS
<1>3. PICK k \in Int :
           /\ w = Width /\ n = Len(out[stage]) /\ m = PowerOf2(w) /\ q = PowerOf2(w - (i + 1))
           /\ b = IF buffer[i + 1] = "1" THEN 1 ELSE 0
           /\ result * PowerOf2(w - i) = BitSums(w, Bits(stage, n + 1))[i] + k * m
  BY <1>2, <1>1 DEF IInv, Shifted
<1>4. w \in Nat \ {0, 1} /\ n \in Nat /\ n * w \in Nat /\ b \in {0, 1} /\ i \in 0 .. w - 1
  BY <1>1, <1>3 DEF IInv, TypeOK
<1>5. PowerOf2(w - i) = 2 * q /\ q \in Nat /\ m \in Nat
  <2>1. w - (i + 1) \in Nat /\ w - i = w - (i + 1) + 1 /\ w \in Nat
    BY <1>4
  <2> QED BY <1>3, <2>1, PowerOf2Properties
<1>6. PICK bit : bit = Bits(stage, n + 1)
  OBVIOUS
<1>7. \A j \in 1 .. w : bit[j] \in {0, 1}
  BY <1>3, <1>6, ValueOfBits
<1>8. bit[i + 1] = b
  <2>1. buffer = SubSeq(file, n * w + 1, n * w + w) /\ n * w + w <= Len(file)
    BY <1>1, <1>3 DEF IInv, TypeOK
  <2>2. i + 1 \in 1 .. w /\ (n + 1 - 1) * w = n * w /\ n * w + 1 + (i + 1) - 1 = n * w + (i + 1)
    BY <1>4
  <2>3. buffer[i + 1] = file[n * w + (i + 1)]
    <3>1. PICK f, a, c, j : f = file /\ a = n * w + 1 /\ c = n * w + w /\ j = i + 1
      OBVIOUS
    <3>2. PICK d, l : d = n * w /\ l = Len(file)
      OBVIOUS
    <3>3. d \in Nat /\ l \in Nat /\ d + w <= l /\ w \in Nat /\ j \in 1 .. w
      BY <1>4, <2>1, <2>2, <3>1, <3>2
    <3>4. f \in Seq(Character) /\ Len(f) = l /\ a = d + 1 /\ c = d + w
      BY <1>4, <3>1, <3>2
    <3>5. a \in 1 .. l /\ c \in 1 .. l /\ j \in 1 .. c - a + 1
      BY <3>4, <3>3
    <3>6. f \in Seq(Character) /\ a \in 1 .. Len(f) /\ c \in 1 .. Len(f) /\ j \in 1 .. c - a + 1
      BY <3>4, <3>5
    <3>7. SubSeq(f, a, c)[j] = f[a + j - 1]
      BY <3>6, SMTT(30)
    <3> QED BY <2>1, <2>2, <3>1, <3>7
  <2>4. bit[i + 1] = IF file[(n + 1 - 1) * w + (i + 1)] = "1" THEN 1 ELSE 0
    BY <1>3, <1>6, <2>2 DEF Bits, Group
  <2> QED BY <1>3, <2>2, <2>3, <2>4
<1>9. PICK s : s = BitSums(w, bit)
  OBVIOUS
<1>10. s[i] \in Int /\ s[i + 1] = s[i] + b * q
  <2>1. i \in 0 .. w /\ i + 1 \in 1 .. w /\ (i + 1) - 1 = i /\ w \in Nat
    BY <1>4
  <2>2. /\ \A j \in 1 .. w : BitSums(w, bit)[j] = BitSums(w, bit)[j - 1] + bit[j] * PowerOf2(w - j)
        /\ \A j \in 0 .. w : BitSums(w, bit)[j] \in Nat
    BY <1>7, <2>1, BitSumsSteps
  <2>3. s[i + 1] = s[(i + 1) - 1] + bit[i + 1] * PowerOf2(w - (i + 1)) /\ s[i] \in Nat
    BY <1>9, <2>1, <2>2
  <2> QED BY <1>3, <1>8, <2>1, <2>3, SMTT(30)
<1>11. PICK r \in Int : r = result
  BY DEF IInv
<1>12. PICK c \in Int : WrappedTo(stage, 2 * r) = 2 * r - c * m
  <2>1. 2 * r \in Int
    OBVIOUS
  <2> QED BY <1>3, <2>1, WrappedBy
<1>13. result' = WrappedTo(stage, 2 * r) + b
  BY <1>3, <1>11 DEF Shift, Wrapped, WrappedTo, Width
<1>14. result' * q = s[i + 1] + (k - c * q) * m
  <2>1. r * (2 * q) = s[i] + k * m
    BY <1>3, <1>5, <1>6, <1>9, <1>11
  <2>2. q \in Int /\ m \in Int /\ b \in Int
    BY <1>4, <1>5
  <2>3. PICK x \in Int : x = s[i]
    BY <1>10
  <2>4. r * (2 * q) = x + k * m
    BY <2>1, <2>3
  <2>5. ((2 * r - c * m) + b) * q = (x + b * q) + (k - c * q) * m
    BY <2>2, <2>4, ShiftOne
  <2>6. ((2 * r - c * m) + b) * q = (s[i] + b * q) + (k - c * q) * m
    BY <2>3, <2>5
  <2> QED BY <1>10, <1>12, <1>13, <2>6
<1>15. result' \in Int /\ InRange(stage, result')
  <2>1. WrappedTo(stage, 2 * r) \in Int
    <3>1. c * m \in Int
      BY <1>5
    <3> QED BY <1>12, <3>1
  <2>2. InRange(stage, WrappedTo(stage, 2 * r) + b)
    BY <1>4, RoomForBit
  <2> QED BY <1>4, <1>13, <2>1, <2>2
<1>16. Width' = w /\ (Len(out[stage]))' = n /\ (Bits(stage, n + 1))' = bit
  BY <1>1, <1>3, <1>6 DEF Width, Promise!Width, Bits, Group
<1>17. Shifted'
  <2>1. (k - c * q) \in Int
    BY <1>5
  <2>2. i' = i + 1 /\ (stage = stage')
    BY <1>1
  <2>3. Bits(stage, Len(out[stage]) + 1)' = bit
    BY <1>1, <1>3, <1>6 DEF Bits, Group, Promise!Width
  <2> QED BY <1>3, <1>9, <1>14, <1>16, <2>1, <2>2, <2>3 DEF Shifted
<1>18. PrintedInOrder'
  BY <1>1 DEF IInv, PrintedInOrder, Promise!Total, Promise!Width
<1>19. TypeOK'
  <2>1. (result = Wrapped(result))'
    BY <1>1, <1>15, NextInRange
  <2>2. i + 1 \in 0 .. w
    BY <1>4
  <2> QED BY <1>1, <1>16, <2>1, <2>2 DEF TypeOK, IInv
<1> QED BY <1>1, <1>3, <1>15, <1>16, <1>17, <1>18, <1>19 DEF IInv

(* What is printed is the value of the group of bits.                      *)
LEMMA ShownIsValue ==
  ASSUME IInv, PrintValue
  PROVE  /\ Shown(result) = Promise!Value(stage, Len(out[stage]) + 1)
         /\ Len(out[stage]) < Promise!Total(stage)
         /\ Shown(result) \in Int
<1> USE Sizes
<1>1. pc = "shift" /\ i = Width
  BY DEF PrintValue
<1>2. PICK w, n, m, h, bit :
           /\ w = Width /\ n = Len(out[stage]) /\ m = PowerOf2(w) /\ h = PowerOf2(w - 1)
           /\ bit = Bits(stage, n + 1)
  OBVIOUS
<1>3. PICK k \in Int :
           /\ w = Width /\ n = Len(out[stage]) /\ m = PowerOf2(w) /\ h = PowerOf2(w - 1)
           /\ bit = Bits(stage, n + 1)
           /\ result * PowerOf2(w - w) = BitSums(w, bit)[w] + k * m
  BY <1>2, <1>1 DEF IInv, Shifted
<1>4. w \in Nat \ {0, 1} /\ w \in Nat \ {0} /\ n \in Nat /\ n * w \in Nat
  BY <1>3
<1>5. \A j \in 1 .. w : bit[j] \in {0, 1}
  BY <1>3, ValueOfBits
<1>6. PICK r \in Int : r = result
  BY DEF IInv
<1>7. r = BitSums(w, bit)[w] + k * PowerOf2(w)
  <2>1. PowerOf2(w - w) = 1 /\ r * 1 = r
    BY <1>4, PowerOf2Properties
  <2> QED BY <1>3, <1>6, <2>1
<1>8. PICK sum : sum = BitSums(w, bit)[w]
  OBVIOUS
<1>9. /\ r \in 0 .. m - 1 => r = sum
      /\ r \in -h .. h - 1 => r = sum - bit[1] * m /\ (r < 0 <=> bit[1] = 1)
      /\ r % m = sum
  <2>1. /\ r \in 0 .. PowerOf2(w) - 1 => r = BitSums(w, bit)[w]
        /\ r \in -PowerOf2(w - 1) .. PowerOf2(w - 1) - 1 =>
             r = BitSums(w, bit)[w] - bit[1] * PowerOf2(w) /\ (r < 0 <=> bit[1] = 1)
        /\ r % PowerOf2(w) = BitSums(w, bit)[w]
    BY <1>4, <1>5, <1>7, NumberOfBits
  <2> QED BY <1>3, <1>8, <2>1
<1>10. IF IsUnsigned(stage) THEN r \in 0 .. m - 1 ELSE r \in -h .. h - 1
  BY <1>3, <1>6 DEF InRange
<1>11. Promise!Value(stage, n + 1) =
          CASE stage = 2 /\ bit[1] = 1 -> Promise!Dot
            [] stage \in {1, 4} -> sum - bit[1] * m
            [] OTHER -> sum
  BY <1>3, <1>8, ValueOfBits, SMTT(30)
<1>12. Shown(r) =
          CASE stage = 2 /\ ~ (r >= 0 /\ r <= h - 1) -> Promise!Dot
            [] stage \in {6, 7} -> r % m
            [] OTHER -> r
  <2>1. (Promise!Types[stage] = "ascii" <=> stage = 2) /\ (IsUnion(stage) <=> stage \in {6, 7})
    BY Stages
  <2>2. Shown(r) =
          CASE Promise!Types[stage] = "ascii" /\ ~ (r >= 0 /\ r <= h - 1) -> Promise!Dot
            [] IsUnion(stage) -> r % m
            [] OTHER -> r
    BY <1>3 DEF Shown
  <2> QED BY <2>1, <2>2
<1>13. /\ IsUnsigned(stage) <=> stage \in {3, 5}
       /\ stage \in 1 .. 7
  BY Stages
<1>14. bit[1] \in {0, 1} /\ m \in Nat /\ h \in Nat
  <2>1. 1 \in 1 .. w
    BY <1>4
  <2>2. w \in Nat /\ w - 1 \in Nat
    BY <1>4
  <2> QED BY <1>3, <1>5, <2>1, <2>2, PowerOf2Properties
<1>15. Shown(r) = Promise!Value(stage, n + 1)
  <2>1. CASE stage \in {3, 5}
    BY <1>9, <1>10, <1>11, <1>12, <1>13, <2>1
  <2>2. CASE stage \in {6, 7}
    BY <1>9, <1>11, <1>12, <2>2
  <2>3. CASE stage \in {1, 4}
    BY <1>9, <1>10, <1>11, <1>12, <1>13, <2>3, SMTT(30)
  <2>4. CASE stage = 2
    <3>1. r \in -h .. h - 1
      BY <1>10, <1>13, <2>4
    <3>2. bit[1] = 1 => ~ (r >= 0 /\ r <= h - 1)
      BY <1>9, <3>1
    <3>3. bit[1] = 0 => r >= 0 /\ r <= h - 1 /\ r = sum
      <4>1. bit[1] = 0 => bit[1] * m = 0
        BY <1>14, BitTimes
      <4>2. sum \in Int
        BY <1>4, <1>5, <1>8, FirstBit
      <4> QED BY <1>9, <1>14, <3>1, <4>1, <4>2
    <3> QED BY <1>11, <1>12, <1>14, <2>4, <3>2, <3>3
  <2> QED BY <1>13, <2>1, <2>2, <2>3, <2>4
<1>16. n < Promise!Total(stage)
  <2>1. (n + 1) * w <= Len(file) /\ n + 1 \in Nat
    BY <1>1, <1>3, <1>4 DEF IInv, TypeOK
  <2>2. (n + 1) * Width <= Len(file) <=> n + 1 <= Promise!Total(stage)
    BY <2>1, Fits
  <2> QED BY <1>3, <1>4, <2>1, <2>2
<1>17. Promise!Value(stage, n + 1) \in Int
  BY ValueOfBits
<1> QED BY <1>3, <1>6, <1>15, <1>16, <1>17

LEMMA PrintHolds ==
  ASSUME IInv, PrintValue
  PROVE  IInv'
<1> USE Sizes
<1>1. /\ file' = file /\ stage' = stage /\ pc = "shift" /\ pc' = "read" /\ result' = 0
      /\ cursor' = cursor /\ buffer' = buffer /\ i' = i
  BY DEF PrintValue
<1>2. PICK w, n : w = Width /\ n = Len(out[stage]) /\ n \in Nat
  OBVIOUS
<1>3. out' = [out EXCEPT ![stage] = Append(out[stage], Shown(result))] /\ Shown(result) \in Int
  BY ShownIsValue DEF PrintValue
<1>4. out' \in [Stage -> Seq(Int)] /\ Len(out'[stage]) = n + 1 /\ \A s \in Stage : s # stage => out'[s] = out[s]
  BY <1>2, <1>3
<1>5. Width' = w /\ \A s \in Stage : (Promise!Total(s))' = Promise!Total(s)
  BY <1>1, <1>2 DEF Width, Promise!Width, Promise!Total
<1>6. (n + 1) * w = n * w + w /\ cursor = n * w + w
  BY <1>1, <1>2 DEF IInv
<1>7. PrintedInOrder'
  <2>1. \A s \in Stage : s < stage \/ s > stage => s # stage
    BY Stages
  <2> QED BY <1>1, <1>4, <1>5, <2>1 DEF IInv, PrintedInOrder
<1>8. InRange(stage, 0)
  <2>1. PowerOf2(Width) = 2 * PowerOf2(Width - 1) /\ PowerOf2(Width - 1) = 2 * PowerOf2(Width - 2)
        /\ PowerOf2(Width - 2) \in Nat /\ PowerOf2(Width - 2) > 0
    BY Halves
  <2>2. PowerOf2(Width - 1) \in Nat /\ PowerOf2(Width - 1) > 0 /\ PowerOf2(Width) \in Nat /\ PowerOf2(Width) > 0
    BY <2>1
  <2> QED BY <2>2 DEF InRange
<1>9. TypeOK'
  <2>1. (result = Wrapped(result))'
    BY <1>1, <1>8, NextInRange
  <2> QED BY <1>1, <1>2, <1>4, <1>5, <2>1 DEF TypeOK, IInv
<1>10. (Len(out[stage]))' * w = cursor'
  BY <1>1, <1>4, <1>6
<1> QED BY <1>1, <1>5, <1>7, <1>9, <1>10 DEF IInv

LEMMA RewindHolds ==
  ASSUME IInv, Rewind
  PROVE  IInv'
<1> USE Sizes
<1>1. /\ pc = "rewind" /\ cursor' = 0 /\ file' = file /\ buffer' = buffer /\ i' = i /\ out' = out
      /\ Len(out[stage]) = Promise!Total(stage) /\ i = 0
  BY DEF Rewind, IInv
<1>2. \A s \in Stage : (Promise!Total(s))' = Promise!Total(s)
  BY <1>1 DEF Promise!Width, Promise!Total
<1>3. CASE stage < 7
  <2>1. stage' = stage + 1 /\ pc' = "read" /\ result' \in InitialResult(stage')
    BY <1>3 DEF Rewind
  <2>2. Stage = 1 .. 7
    BY Stages
  <2>3. stage' \in Stage /\ stage' > stage
    <3>1. stage' \in 1 .. 7 /\ stage' > stage
      BY <1>3, <2>1
    <3> QED BY <2>2, <3>1
  <2>4. result' \in Int /\ InRange(stage', result')
    BY <2>1, <2>3, InitialInRange
  <2>5. (result = Wrapped(result))'
    BY <2>3, <2>4, NextInRange
  <2>6. PrintedInOrder'
    <3>1. ASSUME NEW s \in Stage
          PROVE (s < stage' <=> s < stage \/ s = stage) /\ (s > stage' => s > stage)
      <4>1. s \in 1 .. 7
        BY <2>2
      <4>2. PICK t : t = stage
        OBVIOUS
      <4>3. t \in 1 .. 7 /\ stage' = t + 1
        BY <2>1, <4>2
      <4>4. (s < t + 1 <=> s < t \/ s = t) /\ (s > t + 1 => s > t)
        BY <4>1, <4>3
      <4> QED BY <4>2, <4>3, <4>4
    <3> QED BY <1>1, <1>2, <3>1 DEF IInv, PrintedInOrder
  <2>7. out'[stage'] = <<>>
    BY <1>1, <2>3 DEF IInv, PrintedInOrder
  <2>8. Width' \in Nat \ {0, 1}
    <3>1. Width' = Promise!Width(stage')
      BY DEF Width, Promise!Width
    <3> QED BY <2>3, <3>1, Widths
  <2>9. cursor' = (Len(out[stage]))' * Width'
    <3>1. PICK w \in Nat : w = Width'
      BY <2>8
    <3>2. Len(<<>>) = 0 /\ 0 * w = 0
      OBVIOUS
    <3>3. (Len(out[stage]))' = 0
      BY <2>7, <3>2
    <3> QED BY <1>1, <3>1, <3>2, <3>3
  <2>10. i' \in 0 .. Width'
    BY <1>1, <2>8
  <2> QED BY <1>1, <2>1, <2>3, <2>4, <2>5, <2>6, <2>9, <2>10 DEF IInv, TypeOK
<1>4. CASE ~ (stage < 7)
  <2>1. stage' = stage /\ result' = result /\ pc' = "done" /\ stage = 7
    BY <1>4 DEF Rewind
  <2>2. (result = Wrapped(result))'
    BY <2>1, NextInRange DEF IInv
  <2>3. PrintedInOrder'
    BY <1>1, <1>2, <2>1 DEF IInv, PrintedInOrder
  <2>4. Width' = Width
    BY <2>1 DEF Width, Promise!Width
  <2> QED BY <1>1, <1>2, <2>1, <2>2, <2>3, <2>4 DEF IInv, TypeOK
<1> QED BY <1>3, <1>4

LEMMA StepHolds ==
  ASSUME IInv, [Next]_vars
  PROVE  IInv'
<1>1. CASE Read
  BY <1>1, ReadHolds
<1>2. CASE Shift
  BY <1>2, ShiftHolds
<1>3. CASE PrintValue
  BY <1>3, PrintHolds
<1>4. CASE Rewind
  BY <1>4, RewindHolds
<1>5. CASE UNCHANGED vars
  <2>1. PrintedInOrder'
    BY <1>5 DEF IInv, vars, PrintedInOrder, Promise!Total, Promise!Width
  <2>2. pc = "shift" => Shifted'
    BY <1>5 DEF IInv, vars, Shifted, Bits, Group, Width, Promise!Width
  <2>3. TypeOK'
    BY <1>5 DEF IInv, vars, TypeOK, Wrapped, Width, Promise!Width
  <2> QED BY <1>5, <2>1, <2>2, <2>3 DEF IInv, vars, Width, Promise!Width, Promise!Total
<1> QED BY <1>1, <1>2, <1>3, <1>4, <1>5 DEF Next

(* Every step prints the next value of the file, or nothing.               *)
LEMMA StepPrints ==
  ASSUME IInv, [Next]_vars
  PROVE  [Promise!Next]_<<file, out>>
<1> USE Sizes
<1>1. CASE PrintValue
  <2>1. /\ out' = [out EXCEPT ![stage] = Append(out[stage], Promise!Value(stage, Len(out[stage]) + 1))]
        /\ Len(out[stage]) < Promise!Total(stage)
        /\ file' = file
    BY <1>1, ShownIsValue DEF PrintValue
  <2>2. \A t \in 1 .. (stage - 1) : Len(out[t]) = Promise!Total(t)
    <3>1. Stage = 1 .. 7
      BY Stages
    <3>2. stage \in 1 .. 7
      OBVIOUS
    <3>3. \A t \in 1 .. (stage - 1) : t \in 1 .. 7 /\ t < stage
      BY <3>2
    <3>4. \A t \in 1 .. (stage - 1) : t \in Stage /\ t < stage
      BY <3>1, <3>3
    <3> QED BY <3>4 DEF IInv, PrintedInOrder
  <2>3. Promise!PrintValue(stage)
    BY <2>1, <2>2 DEF Promise!PrintValue
  <2>4. stage \in Promise!Stage
    BY DEF Stage
  <2> QED BY <2>1, <2>3, <2>4 DEF Promise!Next
<1>2. CASE Read \/ Shift \/ Rewind \/ UNCHANGED vars
  BY <1>2 DEF Read, Shift, Rewind, vars
<1> QED BY <1>1, <1>2 DEF Next

(***************************************************************************)
(* The model answer: types, widths and values                              *)
(***************************************************************************)
LEMMA AnswerStages ==
  /\ Answer!Stage = 1 .. 7 /\ Answer!Promise!Stage = 1 .. 7
  /\ \A s \in 1 .. 7 : /\ Answer!Promise!Types[s] = "ascii" <=> s = 2
                       /\ Answer!Promise!Types[s] \in {"signed_char", "int"} <=> s \in {1, 4}
<1>1. Answer!Stage = 1 .. 7 /\ Answer!Promise!Stage = 1 .. 7
  BY DEF Answer!Stage, Answer!Promise!Stage, Answer!Promise!Types
<1>2. ASSUME NEW s \in 1 .. 7
      PROVE  /\ Answer!Promise!Types[s] = "ascii" <=> s = 2
             /\ Answer!Promise!Types[s] \in {"signed_char", "int"} <=> s \in {1, 4}
  <2>1. s = 1 \/ s = 2 \/ s = 3 \/ s = 4 \/ s = 5 \/ s = 6 \/ s = 7
    OBVIOUS
  <2> QED BY <2>1 DEF Answer!Promise!Types
<1> QED BY <1>1, <1>2

(* The types fill bytes, and not more of them than a byte has bits.        *)
LEMMA AnswerWidths ==
  ASSUME NEW s \in 1 .. 7
  PROVE  /\ CHAR_SIZE \in Nat \ {0, 1}
         /\ \E v \in 1 .. CHAR_SIZE : /\ Answer!Promise!Width(s) = v * CHAR_SIZE
                                      /\ Answer!Promise!Width(s) \div CHAR_SIZE = v
                                      /\ v * CHAR_SIZE \in Nat \ {0, 1}
                                      /\ s = 2 => v = 1
<1>1. PICK c : c = CHAR_SIZE
  OBVIOUS
<1>2. c \in Nat \ {0, 1} /\ INT_BYTES \in 1 .. c /\ DOUBLE_BYTES \in 1 .. c
  BY <1>1, WidthAssumption, BytesAssumption
<1>3. s = 1 \/ s = 2 \/ s = 3 \/ s = 4 \/ s = 5 \/ s = 6 \/ s = 7
  OBVIOUS
<1>4. \/ s \in {1, 2, 3} /\ Answer!Promise!Width(s) = c
      \/ s \in {4, 5, 6} /\ Answer!Promise!Width(s) = INT_BYTES * c
      \/ s = 7 /\ Answer!Promise!Width(s) = DOUBLE_BYTES * c
  BY <1>1, <1>3 DEF Answer!Promise!Width, Answer!Promise!Types
<1>5. PICK v \in 1 .. c : Answer!Promise!Width(s) = v * c /\ (s = 2 => v = 1)
  <2>1. c = 1 * c /\ 1 \in 1 .. c
    BY <1>2
  <2> QED BY <1>2, <1>4, <2>1
<1>6. v * c >= 2 /\ v * c \in Nat
  <2>1. v >= 1 /\ c >= 2 /\ v \in Nat /\ c \in Nat
    BY <1>2
  <2>2. v * c >= 1 * c
    BY <2>1
  <2> QED BY <2>1, <2>2
<1>7. (v * c) \div c = v
  <2>1. v \in Int /\ c \in Nat /\ c > 0
    BY <1>2
  <2> QED BY <2>1
<1> QED BY <1>1, <1>2, <1>5, <1>6, <1>7

LEMMA AnswerValueOfBits ==
  ASSUME NEW s \in 1 .. 7, NEW k
  PROVE  LET w == Answer!Promise!Width(s)
             sum == BitSums(w, Group(w, k))[w]
         IN  /\ Answer!Promise!Value(s, k) =
                  CASE s = 2 /\ Group(w, k)[1] = 1 -> Answer!Promise!Dot
                    [] s \in {1, 4} -> sum - Group(w, k)[1] * PowerOf2(w)
                    [] OTHER -> sum
             /\ \A j \in 1 .. w : Group(w, k)[j] \in {0, 1}
             /\ Answer!Promise!Value(s, k) \in Int
<1>1. PICK w, bit : w = Answer!Promise!Width(s) /\ bit = Group(w, k)
  OBVIOUS
<1>2. bit = [j \in 1 .. w |-> IF file[(k - 1) * w + j] = "1" THEN 1 ELSE 0]
  BY <1>1 DEF Group
<1>3. w \in Nat \ {0, 1} /\ (\A j \in 1 .. w : bit[j] \in {0, 1}) /\ 1 \in 1 .. w
  <2>1. w \in Nat \ {0, 1}
    <3>1. PICK v \in 1 .. CHAR_SIZE : Answer!Promise!Width(s) = v * CHAR_SIZE /\ v * CHAR_SIZE \in Nat \ {0, 1}
      BY AnswerWidths
    <3> QED BY <1>1, <3>1
  <2> QED BY <1>2, <2>1
<1>4. PICK sum : sum = BitSums(w, bit)[w]
  OBVIOUS
<1>5. /\ sum = PrefixSums([j \in 1 .. w |-> bit[j] * PowerOf2(w - j)])[w]
      /\ [j \in 1 .. w |-> bit[j] * PowerOf2(w - j)] = [j \in 1 .. w |-> bit[j] * Answer!Promise!PowerOf2(w - j)]
      /\ \A x : PrefixSums(x) = Answer!Promise!PrefixSums(x)
      /\ PowerOf2(w) = Answer!Promise!PowerOf2(w)
  BY <1>4, SamePowers DEF BitSums
<1>6. /\ Answer!Promise!Types[s] = "ascii" <=> s = 2
      /\ Answer!Promise!Types[s] \in {"signed_char", "int"} <=> s \in {1, 4}
  BY AnswerStages
<1>7. Answer!Promise!Value(s, k) =
        CASE Answer!Promise!Types[s] = "ascii" /\ bit[1] = 1 -> Answer!Promise!Dot
          [] Answer!Promise!Types[s] \in {"signed_char", "int"} -> sum - bit[1] * PowerOf2(w)
          [] OTHER -> sum
  BY <1>1, <1>2, <1>5 DEF Answer!Promise!Value
<1>8. sum \in Int /\ PowerOf2(w) \in Nat /\ w \in 0 .. w
  BY <1>3, <1>4, FirstBit, PowerOf2Properties
<1>9. bit[1] * PowerOf2(w) \in Nat
  BY <1>3, <1>8, BitTimes
<1>10. Answer!Promise!Value(s, k) =
        CASE s = 2 /\ bit[1] = 1 -> Answer!Promise!Dot
          [] s \in {1, 4} -> sum - bit[1] * PowerOf2(w)
          [] OTHER -> sum
  BY <1>6, <1>7
<1>11. Answer!Promise!Value(s, k) \in Int
  BY <1>8, <1>9, <1>10 DEF Answer!Promise!Dot
<1> QED BY <1>1, <1>3, <1>4, <1>10, <1>11

LEMMA DivDiv ==
  ASSUME NEW l \in Nat, NEW c \in Nat \ {0}, NEW v \in Nat \ {0}, NEW w \in Nat \ {0}, w = v * c
  PROVE  (l \div c) \div v = l \div w
<1>1. PICK d, e, f : d = l \div c /\ e = (l \div c) \div v /\ f = l \div w
  OBVIOUS
<1>2. d \in Nat
  BY <1>1, Quotient
<1>3. e \in Nat /\ f \in Nat
  BY <1>1, <1>2, Quotient
<1>4. ASSUME NEW n \in Nat PROVE n <= e <=> n <= f
  <2>1. (n * v) * c = n * w /\ n * v \in Nat
    <3>1. (n * v) * c = n * (v * c)
      OBVIOUS
    <3> QED BY <3>1
  <2>2. n <= e <=> n * v <= d
    BY <1>1, <1>2, Quotient
  <2>3. n * v <= d <=> (n * v) * c <= l
    BY <1>1, <2>1, Quotient
  <2>4. n <= f <=> n * w <= l
    BY <1>1, Quotient
  <2> QED BY <2>1, <2>2, <2>3, <2>4
<1>5. e <= f /\ f <= e
  BY <1>3, <1>4
<1> QED BY <1>1, <1>3, <1>5

(***************************************************************************)
(* The model answer: the bytes                                             *)
(***************************************************************************)
BitAt(p) == IF p <= Len(file) /\ file[p] = "1" THEN 1 ELSE 0

LEMMA ByteExists ==
  ASSUME NEW c \in Nat, NEW m \in Nat \ {0}, NEW at
  PROVE  \E f : f = [k \in 0 .. c |-> IF k = 0 THEN 0 ELSE ((2 * f[k - 1]) % m) + BitAt(at + k)]
<1>1. PICK g : g = [k \in 1 .. c |-> [x \in Nat |-> ((2 * x) % m) + BitAt(at + k)]]
  OBVIOUS
<1>2. PICK A, a : A = Nat /\ a = 0
  OBVIOUS
<1>3. g \in [1 .. c -> [A -> A]] /\ a \in A
  <2>1. ASSUME NEW k \in 1 .. c, NEW x \in Nat PROVE ((2 * x) % m) + BitAt(at + k) \in Nat
    <3>1. (2 * x) % m \in Nat
      <4>1. 2 * x \in Int /\ m \in Nat /\ m > 0
        OBVIOUS
      <4>2. (2 * x) % m \in 0 .. m - 1
        BY <4>1, Remainder
      <4> QED BY <4>2
    <3> QED BY <3>1 DEF BitAt
  <2> QED BY <1>1, <1>2, <2>1
<1>4. Recursions(c, A, a, g) # {}
  BY <1>3, RecursionExists
<1>5. PICK f \in [0 .. c -> Nat] : f[0] = 0 /\ \A k \in 1 .. c : f[k] = g[k][f[k - 1]]
  BY <1>2, <1>4 DEF Recursions
<1>6. ASSUME NEW k \in 0 .. c
      PROVE  f[k] = IF k = 0 THEN 0 ELSE ((2 * f[k - 1]) % m) + BitAt(at + k)
  <2>1. CASE k = 0
    BY <1>5, <2>1
  <2>2. CASE k # 0
    <3>1. k \in 1 .. c /\ f[k - 1] \in Nat
      BY <2>2
    <3> QED BY <1>1, <1>5, <2>2, <3>1
  <2> QED BY <2>1, <2>2
<1>7. f = [k \in 0 .. c |-> f[k]]
  OBVIOUS
<1>8. f = [k \in 0 .. c |-> IF k = 0 THEN 0 ELSE ((2 * f[k - 1]) % m) + BitAt(at + k)]
  BY <1>6, <1>7
<1> QED BY <1>8

(* A smaller power is not above a larger one.                              *)
LEMMA PowersGrow ==
  ASSUME NEW c \in Nat
  PROVE  \A k \in 0 .. c : PowerOf2(k) <= PowerOf2(c) /\ PowerOf2(k) \in Nat
<1>1. ASSUME NEW k \in 0 .. c PROVE PowerOf2(k) <= PowerOf2(c) /\ PowerOf2(k) \in Nat
  <2>1. k \in Nat /\ c - k \in Nat /\ k + (c - k) = c
    OBVIOUS
  <2>2. PICK x, y : x = PowerOf2(k) /\ y = PowerOf2(c - k)
    OBVIOUS
  <2>3. x \in Nat /\ y \in Nat /\ y >= 1
    BY <2>1, <2>2, PowerOf2Properties
  <2>4. PowerOf2(c) = x * y
    BY <2>1, <2>2, PowerOf2Plus
  <2>5. x * y >= x * 1
    BY <2>3
  <2> QED BY <2>2, <2>3, <2>4, <2>5
<1> QED BY <1>1

(* The bits of a byte are shifted in, and none is lost.                    *)
LEMMA ByteSteps ==
  ASSUME NEW at
  PROVE  \E f : /\ f[0] = 0
                /\ \A k \in 1 .. CHAR_SIZE : f[k] = (2 * f[k - 1]) + BitAt(at + k)
                /\ \A k \in 0 .. CHAR_SIZE : f[k] \in Nat /\ f[k] < PowerOf2(k)
                /\ Answer!Byte(at) = f[CHAR_SIZE]
<1>1. PICK c, m : c = CHAR_SIZE /\ m = PowerOf2(c)
  OBVIOUS
<1>2. c \in Nat /\ m \in Nat \ {0}
  <2>1. c \in Nat
    BY <1>1, WidthAssumption
  <2> QED BY <1>1, <2>1, PowerOf2Properties
<1> DEFINE IsByte(f) == f = [k \in 0 .. c |-> IF k = 0 THEN 0 ELSE ((2 * f[k - 1]) % m) + BitAt(at + k)]
<1>3. \E f : IsByte(f)
  BY <1>2, ByteExists
<1>4. PICK f : IsByte(f) /\ Answer!Byte(at) = f[c]
  <2>1. \A n : Answer!PowerOf2(n) = PowerOf2(n)
    BY SamePowers
  <2>2. PICK f : f = Answer!Byte(at)
    OBVIOUS
  <2> QED BY <1>1, <1>3, <2>1 DEF Answer!Byte, BitAt
<1>5. f[0] = 0 /\ \A k \in 1 .. c : f[k] = ((2 * f[k - 1]) % m) + BitAt(at + k)
  <2>1. 0 \in 0 .. c /\ \A k \in 1 .. c : k \in 0 .. c /\ k # 0
    BY <1>2
  <2> QED BY <1>4, <2>1
<1> HIDE DEF IsByte
<1> DEFINE T == {k \in 0 .. c : /\ f[k] \in Nat /\ f[k] < PowerOf2(k)
                                /\ k > 0 => f[k] = (2 * f[k - 1]) + BitAt(at + k)}
<1>6. 0 \in T
  BY <1>2, <1>5, PowerOf2Properties
<1>7. ASSUME NEW k \in 0 .. c - 1, k \in T PROVE k + 1 \in T
  <2>1. k + 1 \in 1 .. c /\ k + 1 - 1 = k /\ k \in Nat /\ k + 1 \in 0 .. c
    BY <1>2
  <2>2. f[k] \in Nat /\ f[k] < PowerOf2(k)
    BY <1>7
  <2>3. PowerOf2(k + 1) = 2 * PowerOf2(k) /\ PowerOf2(k) \in Nat /\ PowerOf2(k + 1) <= m
    BY <1>1, <1>2, <2>1, PowerOf2Properties, PowersGrow
  <2>4. 2 * f[k] \in Int /\ 0 <= 2 * f[k] /\ 2 * f[k] < m /\ m > 0 /\ m \in Nat
    BY <1>2, <2>2, <2>3
  <2>5. (2 * f[k]) % m = 2 * f[k]
    BY <2>4, SmallRemainder
  <2>6. f[k + 1] = ((2 * f[k]) % m) + BitAt(at + (k + 1))
    BY <1>5, <2>1
  <2>7. BitAt(at + (k + 1)) \in {0, 1}
    BY DEF BitAt
  <2>8. f[k + 1] \in Nat /\ f[k + 1] < PowerOf2(k + 1) /\ f[k + 1] = (2 * f[k]) + BitAt(at + (k + 1))
    BY <2>2, <2>3, <2>5, <2>6, <2>7
  <2> QED BY <2>1, <2>8
<1> HIDE DEF T
<1>8. \A k \in 0 .. c : k \in T
  BY <1>2, <1>6, <1>7, InductTo
<1>9. \A k \in 0 .. c : f[k] \in Nat /\ f[k] < PowerOf2(k)
  BY <1>8 DEF T
<1>10. \A k \in 1 .. c : f[k] = (2 * f[k - 1]) + BitAt(at + k)
  BY <1>2, <1>8 DEF T
<1> QED BY <1>1, <1>4, <1>5, <1>9, <1>10

LEMMA ByteRange ==
  ASSUME NEW at
  PROVE  Answer!Byte(at) \in 0 .. PowerOf2(CHAR_SIZE) - 1
<1>1. CHAR_SIZE \in 0 .. CHAR_SIZE /\ CHAR_SIZE \in Nat
  BY WidthAssumption
<1>2. PowerOf2(CHAR_SIZE) \in Nat
  BY <1>1, PowerOf2Properties
<1> QED BY <1>1, <1>2, ByteSteps

(* Facts about bits and bytes that the lemmas pass on as a whole.           *)
AreBits(w, bit) == \A j \in 1 .. w : bit[j] \in {0, 1}
InByte(at, p, bit) == \A k \in 1 .. CHAR_SIZE : BitAt(at + k) = bit[p + k]
ArePlaced(n, c, w, bit, part) ==
  \A b \in 1 .. n : /\ part[b] \in Nat
                    /\ part[b] = BitSums(w, bit)[(n - b + 1) * c] - BitSums(w, bit)[(n - b) * c]
AreOfFile(from, w, bit) == \A j \in 1 .. w : bit[j] = BitAt(from + j)
PartsSum(n, part) == PrefixSums([b \in 1 .. n |-> part[b]])[n]
LoadedSum(v, c, bytes) == PrefixSums([b \in 1 .. v |-> bytes[b] * PowerOf2(c * (b - 1))])[v]
AreBytes(from, v, c, bytes) == \A b \in 1 .. v : bytes[b] = Answer!Byte(from + (v - b) * c)

(* What the bits of one byte are worth at their place in the value.        *)
LEMMA ByteOfGroup ==
  ASSUME NEW w \in Nat, NEW bit, AreBits(w, bit),
         NEW p \in Nat, p + CHAR_SIZE <= w, NEW at \in Nat,
         InByte(at, p, bit)
  PROVE  /\ Answer!Byte(at) * PowerOf2(w - (p + CHAR_SIZE))
              = BitSums(w, bit)[p + CHAR_SIZE] - BitSums(w, bit)[p]
         /\ Answer!Byte(at) * PowerOf2(w - (p + CHAR_SIZE)) \in Nat
<1>1. PICK c, s : c = CHAR_SIZE /\ s = BitSums(w, bit)
  OBVIOUS
<1>2. c \in Nat
  BY <1>1, WidthAssumption
<1>3. PICK f : /\ f[0] = 0
               /\ \A k \in 1 .. c : f[k] = (2 * f[k - 1]) + BitAt(at + k)
               /\ \A k \in 0 .. c : f[k] \in Nat
               /\ Answer!Byte(at) = f[c]
  BY <1>1, ByteSteps
<1>4. /\ \A j \in 1 .. w : s[j] = s[j - 1] + bit[j] * PowerOf2(w - j)
      /\ \A j \in 0 .. w : s[j] \in Nat
  BY <1>1, BitSumsSteps DEF AreBits
<1> DEFINE T == {k \in 0 .. c : f[k] * PowerOf2(w - (p + k)) = s[p + k] - s[p]}
<1>5. 0 \in T
  <2>1. p + 0 = p /\ w - p \in Nat /\ p \in 0 .. w
    BY <1>1, <1>2
  <2>2. PowerOf2(w - p) \in Nat /\ s[p] \in Nat
    BY <1>4, <2>1, PowerOf2Properties
  <2>3. 0 * PowerOf2(w - p) = 0
    BY <2>2
  <2> QED BY <1>2, <1>3, <2>1, <2>2, <2>3
<1>6. ASSUME NEW k \in 0 .. c - 1, k \in T PROVE k + 1 \in T
  <2>1. PICK j : j = p + k + 1
    OBVIOUS
  <2>2. /\ j \in 1 .. w /\ j - 1 = p + k /\ j - 1 \in 0 .. w /\ j \in 0 .. w /\ p + (k + 1) = j /\ p \in 0 .. w
        /\ w - j \in Nat /\ w - (p + k) = w - j + 1 /\ w - (p + (k + 1)) = w - j
        /\ k + 1 \in 1 .. c /\ k + 1 - 1 = k /\ k + 1 \in 0 .. c
    BY <1>1, <1>2, <2>1
  <2>3. PICK q, b, x : q = PowerOf2(w - j) /\ b = bit[j] /\ x = f[k]
    OBVIOUS
  <2>4. x \in Nat /\ b \in {0, 1}
    <3>1. k \in 0 .. c /\ j \in 1 .. w
      BY <1>2, <2>2
    <3> QED BY <1>3, <2>3, <3>1 DEF AreBits
  <2>5. q \in Nat /\ PowerOf2(w - j + 1) = 2 * q
    BY <2>2, <2>3, PowerOf2Properties
  <2>6. PowerOf2(w - (p + k)) = 2 * q /\ q \in Nat /\ x \in Nat /\ b \in {0, 1}
    BY <2>2, <2>4, <2>5
  <2>7. f[k + 1] = (2 * x) + b
    BY <1>1, <1>3, <2>2, <2>3 DEF InByte
  <2>8. x * (2 * q) = s[j - 1] - s[p]
    BY <1>6, <2>2, <2>3, <2>6
  <2>9. ((2 * x) + b) * q = x * (2 * q) + b * q
    BY <2>6
  <2>10. s[j] = s[j - 1] + b * q /\ s[j] \in Nat /\ s[j - 1] \in Nat /\ s[p] \in Nat /\ b * q \in Nat
    BY <1>4, <2>2, <2>3, <2>6, BitTimes
  <2>11. f[k + 1] * q = s[j] - s[p]
    BY <2>7, <2>8, <2>9, <2>10
  <2> QED BY <2>2, <2>3, <2>11
<1> HIDE DEF T
<1>7. \A k \in 0 .. c : k \in T
  BY <1>2, <1>5, <1>6, InductTo
<1>8. c \in T
  BY <1>2, <1>7
<1>9. f[c] * PowerOf2(w - (p + c)) = s[p + c] - s[p]
  BY <1>8 DEF T
<1>10. f[c] * PowerOf2(w - (p + c)) \in Nat
  <2>1. w - (p + c) \in Nat /\ c \in 0 .. c
    BY <1>1, <1>2
  <2>2. f[c] \in Nat /\ PowerOf2(w - (p + c)) \in Nat
    BY <1>3, <2>1, PowerOf2Properties
  <2> QED BY <2>2
<1> QED BY <1>1, <1>3, <1>9, <1>10

(* The bytes of a value, lowest address last in the file, sum up to it.    *)
LEMMA BytesOfGroup ==
  ASSUME NEW n \in Nat \ {0}, NEW c \in Nat \ {0}, NEW w \in Nat, w = n * c,
         NEW bit, AreBits(w, bit),
         NEW part, ArePlaced(n, c, w, bit, part)
  PROVE  PartsSum(n, part) = BitSums(w, bit)[w]
<1>1. PICK s, t : s = BitSums(w, bit) /\ t = [b \in 1 .. n |-> part[b]]
  OBVIOUS
<1>2. t \in Seq(Nat) /\ Len(t) = n
  BY <1>1 DEF ArePlaced
<1>3. PICK f : f = PrefixSums(t)
  OBVIOUS
<1>4. f[0] = 0 /\ \A b \in 1 .. n : f[b] = f[b - 1] + t[b]
  BY <1>2, <1>3, PrefixSumsProperties
<1>5. s[0] = 0 /\ \A j \in 0 .. w : s[j] \in Nat
  BY <1>1, BitSumsSteps DEF AreBits
<1>6. ASSUME NEW k \in 0 .. n PROVE (n - k) * c \in 0 .. w
  <2>1. n - k \in Nat /\ n - k <= n
    OBVIOUS
  <2>2. PICK d : d = n - k
    OBVIOUS
  <2>3. d * c \in Nat /\ d * c <= n * c
    BY <2>1, <2>2
  <2> QED BY <2>2, <2>3
<1> DEFINE T == {k \in 0 .. n : f[k] = s[w] - s[(n - k) * c]}
<1>7. 0 \in T
  <2>1. n - 0 = n /\ w \in 0 .. w
    OBVIOUS
  <2> QED BY <1>4, <1>5, <2>1
<1>8. ASSUME NEW k \in 0 .. n - 1, k \in T PROVE k + 1 \in T
  <2>1. k + 1 \in 1 .. n /\ k + 1 - 1 = k /\ n - (k + 1) + 1 = n - k /\ k + 1 \in 0 .. n /\ k \in 0 .. n /\ w \in 0 .. w
    OBVIOUS
  <2>2. PICK x, y : x = (n - k) * c /\ y = (n - (k + 1)) * c
    OBVIOUS
  <2>3. s[x] \in Nat /\ s[y] \in Nat /\ s[w] \in Nat
    BY <1>5, <1>6, <2>1, <2>2
  <2>4. t[k + 1] = s[x] - s[y]
    BY <1>1, <2>1, <2>2 DEF ArePlaced
  <2>5. f[k] = s[w] - s[x]
    BY <1>8, <2>2
  <2>6. f[k + 1] = f[k] + t[k + 1]
    BY <1>4, <2>1
  <2>7. f[k + 1] = s[w] - s[y]
    BY <2>3, <2>4, <2>5, <2>6
  <2> QED BY <2>1, <2>2, <2>7
<1> HIDE DEF T
<1>9. \A k \in 0 .. n : k \in T
  BY <1>7, <1>8, InductTo
<1>10. n \in T
  BY <1>9
<1>11. f[n] = s[w] - s[(n - n) * c]
  BY <1>10 DEF T
<1>12. (n - n) * c = 0 /\ s[w] \in Nat
  BY <1>5
<1> QED BY <1>1, <1>3, <1>5, <1>11, <1>12 DEF PartsSum

(***************************************************************************)
(* The model answer: the inductive invariant.  The values in the buffer    *)
(* are those of the groups of the file, in their order, and the last is    *)
(* one that begins at the end of the file or before it.                    *)
(***************************************************************************)
AnswerWidth == Answer!Promise!Width(answerStage)

(* The value that load_value makes of group k.                             *)
LoadedGroup(k) ==
  [b \in 1 .. Answer!ValueSize |-> Answer!Byte((k - 1) * AnswerWidth + (Answer!ValueSize - b) * CHAR_SIZE)]

AnswerInOrder ==
  \A s \in 1 .. 7 : /\ s < answerStage => Len(answerOut[s]) = Answer!Promise!Total(s)
                    /\ s > answerStage => answerOut[s] = <<>>

AnswerTyped ==
  /\ answerStage \in 1 .. 7
  /\ answerPc \in {"open", "load", "print", "done"}
  /\ answerCursor \in 0 .. Len(file)
  /\ values \in Seq(Seq(0 .. PowerOf2(CHAR_SIZE) - 1))
  /\ answerOut \in [1 .. 7 -> Seq(Int)]

(* feof() is true once a read has come short.                              *)
EofAgrees ==
  /\ eof \in BOOLEAN
  /\ answerPc = "load" =>
       IF Len(values) * AnswerWidth <= Len(file) THEN eof = FALSE ELSE eof = TRUE

AnswerInv ==
  /\ file \in Files
  /\ AnswerTyped
  /\ AnswerInOrder
  /\ \A k \in 1 .. Len(values) : (k - 1) * CHAR_SIZE <= Len(file)
  /\ answerPc \in {"open", "load"} => answerOut[answerStage] = <<>>
  /\ EofAgrees
  /\ answerPc = "load" =>
       answerCursor = IF Len(values) * AnswerWidth <= Len(file) THEN Len(values) * AnswerWidth ELSE Len(file)
  /\ answerPc \in {"load", "print"} => \A k \in 1 .. Len(values) : values[k] = LoadedGroup(k)
  /\ answerPc = "print" => /\ ~ (Len(values) * AnswerWidth <= Len(file))
                           /\ Len(answerOut[answerStage]) <= Answer!Promise!Total(answerStage)

LEMMA AnswerSizes ==
  ASSUME AnswerInv
  PROVE  /\ file \in Seq(Character) /\ Len(file) \in Nat
         /\ answerStage \in 1 .. 7
         /\ CHAR_SIZE \in Nat \ {0, 1} /\ Answer!ValueSize \in 1 .. CHAR_SIZE
         /\ AnswerWidth = Answer!ValueSize * CHAR_SIZE /\ AnswerWidth \in Nat \ {0, 1}
         /\ answerStage = 2 => Answer!ValueSize = 1
         /\ answerOut \in [1 .. 7 -> Seq(Int)] /\ answerOut[answerStage] \in Seq(Int)
         /\ Len(answerOut[answerStage]) \in Nat
         /\ values \in Seq(Seq(0 .. PowerOf2(CHAR_SIZE) - 1)) /\ Len(values) \in Nat
         /\ Answer!Promise!Total(answerStage) \in Nat
         /\ Answer!Count = Answer!Promise!Total(answerStage)
<1>1. file \in Seq(Character)
  BY FilesAssumption DEF AnswerInv
<1>2. answerStage \in 1 .. 7 /\ answerOut \in [1 .. 7 -> Seq(Int)] /\ values \in Seq(Seq(0 .. PowerOf2(CHAR_SIZE) - 1))
  BY DEF AnswerInv, AnswerTyped
<1>3. answerOut[answerStage] \in Seq(Int)
  BY <1>2
<1>4. Len(file) \in Nat /\ Len(answerOut[answerStage]) \in Nat /\ Len(values) \in Nat
  BY <1>1, <1>2, <1>3
<1>5. PICK v \in 1 .. CHAR_SIZE : /\ AnswerWidth = v * CHAR_SIZE
                                  /\ Answer!ValueSize = v
                                  /\ v * CHAR_SIZE \in Nat \ {0, 1}
                                  /\ answerStage = 2 => v = 1
  BY <1>2, AnswerWidths DEF AnswerWidth, Answer!ValueSize
<1>6. CHAR_SIZE \in Nat \ {0, 1}
  BY <1>2, AnswerWidths
<1>7. PICK w, l, c : w = AnswerWidth /\ l = Len(file) /\ c = CHAR_SIZE
  OBVIOUS
<1>8. w \in Nat \ {0} /\ l \in Nat /\ c \in Nat \ {0} /\ v \in Nat \ {0} /\ w = v * c
  BY <1>4, <1>5, <1>6, <1>7
<1>9. Answer!Promise!Total(answerStage) = l \div w
  BY <1>7 DEF Answer!Promise!Total, AnswerWidth
<1>10. Answer!Count = l \div w
  <2>1. (l \div c) \div v = l \div w
    BY <1>8, DivDiv
  <2> QED BY <1>5, <1>7, <2>1 DEF Answer!Count
<1>11. l \div w \in Nat
  <2>1. 0 \in Nat
    OBVIOUS
  <2> QED BY <1>8, <2>1, Quotient
<1>12. AnswerWidth = Answer!ValueSize * CHAR_SIZE
  BY <1>5
<1> QED BY <1>1, <1>2, <1>3, <1>4, <1>5, <1>6, <1>7, <1>9, <1>10, <1>11, <1>12

LEMMA AnswerFits ==
  ASSUME AnswerInv, NEW n \in Nat
  PROVE  /\ n * AnswerWidth <= Len(file) <=> n <= Answer!Promise!Total(answerStage)
         /\ n * AnswerWidth \in Nat /\ (n + 1) * AnswerWidth = n * AnswerWidth + AnswerWidth
<1>1. Len(file) \in Nat /\ AnswerWidth \in Nat \ {0, 1}
  BY AnswerSizes
<1>2. PICK w, l : w = AnswerWidth /\ l = Len(file)
  OBVIOUS
<1>3. w \in Nat \ {0} /\ l \in Nat
  BY <1>1, <1>2
<1>4. (n * w <= l <=> n <= l \div w) /\ n * w \in Nat /\ (n + 1) * w = n * w + w
  BY <1>3, Quotient
<1> QED BY <1>2, <1>4 DEF Answer!Promise!Total, AnswerWidth

LEMMA AnswerInitHolds ==
  ASSUME file \in Files, Answer!Init
  PROVE  AnswerInv
<1>1. /\ answerStage = 1 /\ answerPc = "open" /\ answerCursor = 0 /\ eof = FALSE /\ values = <<>>
      /\ answerOut = [s \in 1 .. 7 |-> <<>>]
  BY AnswerStages DEF Answer!Init
<1>2. Len(file) \in Nat
  BY FilesAssumption
<1>3. AnswerTyped
  <2>1. answerOut \in [1 .. 7 -> Seq(Int)] /\ values \in Seq(Seq(0 .. PowerOf2(CHAR_SIZE) - 1))
    BY <1>1
  <2>2. answerStage \in 1 .. 7 /\ answerCursor \in 0 .. Len(file)
    BY <1>1, <1>2
  <2> QED BY <1>1, <2>1, <2>2 DEF AnswerTyped
<1>4. AnswerInOrder
  BY <1>1 DEF AnswerInOrder
<1>5. Len(values) = 0 /\ answerOut[answerStage] = <<>>
  BY <1>1
<1>6. EofAgrees
  BY <1>1 DEF EofAgrees
<1> QED BY <1>1, <1>3, <1>4, <1>5, <1>6 DEF AnswerInv

LEMMA OpenHolds ==
  ASSUME AnswerInv, Answer!Open, UNCHANGED vars
  PROVE  AnswerInv'
<1>1. /\ Len(file) \in Nat /\ answerStage \in 1 .. 7 /\ AnswerWidth \in Nat \ {0, 1}
  BY AnswerSizes
<1>2. /\ answerStage' = answerStage /\ answerOut' = answerOut /\ file' = file /\ answerPc = "open"
      /\ answerPc' = "load" /\ answerCursor' = 0 /\ eof' = FALSE /\ values' = <<>>
  BY DEF Answer!Open, vars
<1>3. values' \in Seq(Seq(0 .. PowerOf2(CHAR_SIZE) - 1)) /\ Len(values') = 0
  BY <1>2
<1>4. AnswerTyped'
  <2>1. answerCursor' \in 0 .. Len(file')
    BY <1>1, <1>2
  <2> QED BY <1>2, <1>3, <2>1 DEF AnswerInv, AnswerTyped
<1>5. AnswerInOrder'
  BY <1>2 DEF AnswerInv, AnswerInOrder, Answer!Promise!Total, Answer!Promise!Width
<1>6. AnswerWidth' = AnswerWidth
  BY <1>2 DEF AnswerWidth, Answer!Promise!Width
<1>7. (Len(values) * AnswerWidth)' = 0 /\ (Len(values) * AnswerWidth <= Len(file))'
  <2>1. PICK w \in Nat : w = AnswerWidth
    BY <1>1
  <2>2. 0 * w = 0 /\ 0 <= Len(file)
    BY <1>1, <2>1
  <2> QED BY <1>2, <1>3, <1>6, <2>1, <2>2
<1>8. EofAgrees'
  <2>1. eof' = FALSE
    BY <1>2
  <2> QED BY <1>7, <2>1, Zenon DEF EofAgrees
<1>9. answerOut'[answerStage'] = <<>> /\ file' \in Files
  BY <1>2 DEF AnswerInv
<1> QED BY <1>2, <1>3, <1>4, <1>5, <1>7, <1>8, <1>9 DEF AnswerInv

LEMMA LoadHolds ==
  ASSUME AnswerInv, Answer!LoadValue, UNCHANGED vars
  PROVE  AnswerInv'
<1>1. /\ Len(file) \in Nat /\ AnswerWidth \in Nat \ {0, 1} /\ Len(values) \in Nat
      /\ CHAR_SIZE \in Nat \ {0, 1} /\ Answer!ValueSize \in 1 .. CHAR_SIZE
      /\ AnswerWidth = Answer!ValueSize * CHAR_SIZE
      /\ values \in Seq(Seq(0 .. PowerOf2(CHAR_SIZE) - 1))
      /\ Answer!Promise!Total(answerStage) \in Nat
  BY AnswerSizes
<1>2. answerStage' = answerStage /\ answerOut' = answerOut /\ file' = file /\ answerPc = "load"
  BY DEF Answer!LoadValue, vars
<1>3. PICK w, m, v, l, c : /\ w = AnswerWidth /\ m = Len(values) /\ v = Answer!ValueSize /\ l = Len(file)
                           /\ c = CHAR_SIZE
  OBVIOUS
<1>4. w \in Nat \ {0} /\ w = v * c /\ m \in Nat /\ v \in 1 .. c /\ l \in Nat /\ c \in Nat \ {0, 1}
      /\ m * w \in Nat /\ (m + 1) * w = m * w + w
  BY <1>1, <1>3, AnswerFits
<1>5. AnswerWidth' = AnswerWidth /\ Answer!ValueSize' = Answer!ValueSize
      /\ \A s \in 1 .. 7 : (Answer!Promise!Total(s))' = Answer!Promise!Total(s)
  BY <1>2 DEF AnswerWidth, Answer!ValueSize, Answer!Promise!Total, Answer!Promise!Width
<1>6. AnswerInOrder'
  BY <1>2, <1>5 DEF AnswerInv, AnswerInOrder
<1>7. \A k : LoadedGroup(k)' = LoadedGroup(k)
  BY <1>2, <1>5 DEF LoadedGroup, Answer!Byte
<1>8. CASE eof
  <2>1. answerPc' = "print" /\ answerCursor' = answerCursor /\ eof' = eof /\ values' = values
    BY <1>8 DEF Answer!LoadValue
  <2>2. AnswerTyped'
    BY <1>2, <2>1 DEF AnswerInv, AnswerTyped
  <2>3. ~ (Len(values) * AnswerWidth <= Len(file))
    <3>1. EofAgrees
      BY DEF AnswerInv
    <3> QED BY <1>2, <1>8, <3>1 DEF EofAgrees
  <2>4. Len(answerOut[answerStage]) = 0
    BY <1>2 DEF AnswerInv
  <2>5. EofAgrees'
    <3>1. EofAgrees
      BY DEF AnswerInv
    <3> QED BY <2>1, <3>1 DEF EofAgrees
  <2>6. (~ (Len(values) * AnswerWidth <= Len(file)))'
    BY <1>2, <1>5, <2>1, <2>3
  <2>7. (Len(answerOut[answerStage]) <= Answer!Promise!Total(answerStage))'
    <3>1. (Answer!Promise!Total(answerStage))' = Answer!Promise!Total(answerStage)
      BY <1>2 DEF Answer!Promise!Total, Answer!Promise!Width
    <3> QED BY <1>1, <1>2, <2>4, <3>1
  <2>8. (\A k \in 1 .. Len(values) : (k - 1) * CHAR_SIZE <= Len(file) /\ values[k] = LoadedGroup(k))'
    BY <1>2, <1>7, <2>1 DEF AnswerInv
  <2>9. file' \in Files
    BY <1>2 DEF AnswerInv
  <2> QED BY <1>6, <2>1, <2>2, <2>5, <2>6, <2>7, <2>8, <2>9 DEF AnswerInv
<1>9. CASE ~ eof
  <2>1. answerCursor = m * w /\ m * w <= l
    <3>1. EofAgrees
      BY DEF AnswerInv
    <3>2. Len(values) * AnswerWidth <= Len(file)
      BY <1>2, <1>9, <3>1 DEF EofAgrees
    <3> QED BY <1>2, <1>3, <3>2 DEF AnswerInv
  <2>2. /\ values' = Append(values, Answer!Loaded)
        /\ answerCursor' = IF m * w + w <= l THEN m * w + w ELSE l
        /\ eof' = (m * w + w > l)
        /\ answerPc' = "load"
    <3>1. /\ values' = Append(values, Answer!Loaded)
          /\ answerCursor' = IF answerCursor + Answer!ValueSize * CHAR_SIZE <= Len(file)
                             THEN answerCursor + Answer!ValueSize * CHAR_SIZE ELSE Len(file)
          /\ eof' = (answerCursor + Answer!ValueSize * CHAR_SIZE > Len(file))
          /\ answerPc' = "load"
      BY <1>2, <1>9, Zenon DEF Answer!LoadValue
    <3>2. answerCursor + Answer!ValueSize * CHAR_SIZE = m * w + w /\ Len(file) = l
      BY <1>3, <1>4, <2>1
    <3> QED BY <3>1, <3>2
  <2>3. Answer!Loaded = LoadedGroup(m + 1)
    <3>1. (m + 1) - 1 = m
      BY <1>4
    <3> QED BY <1>3, <2>1, <3>1 DEF Answer!Loaded, LoadedGroup
  <2>4. Answer!Loaded \in Seq(0 .. PowerOf2(CHAR_SIZE) - 1)
    <3>1. v \in Nat /\ \A b \in 1 .. v : m * w + (v - b) * c \in Nat
      <4>1. ASSUME NEW b \in 1 .. v PROVE m * w + (v - b) * c \in Nat
        <5>1. v - b \in Nat /\ c \in Nat
          BY <1>4
        <5>2. (v - b) * c \in Nat
          BY <5>1
        <5> QED BY <1>4, <5>2
      <4> QED BY <1>4, <4>1
    <3>2. Answer!Loaded = [b \in 1 .. v |-> Answer!Byte(m * w + (v - b) * c)]
      BY <1>3, <2>1 DEF Answer!Loaded
    <3>3. Answer!Loaded \in [1 .. v -> 0 .. PowerOf2(CHAR_SIZE) - 1]
      BY <3>1, <3>2, ByteRange
    <3>4. PICK B : B = 0 .. PowerOf2(CHAR_SIZE) - 1
      OBVIOUS
    <3>5. Answer!Loaded \in [1 .. v -> B]
      BY <3>3, <3>4
    <3>6. Answer!Loaded \in Seq(B)
      BY <3>1, <3>5
    <3> QED BY <3>4, <3>6
  <2>5. /\ values' \in Seq(Seq(0 .. PowerOf2(CHAR_SIZE) - 1)) /\ Len(values') = m + 1
        /\ values'[m + 1] = LoadedGroup(m + 1) /\ \A k \in 1 .. m : values'[k] = values[k]
    BY <1>1, <1>3, <2>2, <2>3, <2>4
  <2>6. m * c <= l
    <3>1. PICK d \in Nat : d = m * c
      BY <1>4
    <3>2. m * w = v * d
      <4>1. m * (v * c) = v * (m * c)
        BY <1>4
      <4> QED BY <1>4, <3>1, <4>1
    <3>3. v * d >= d
      <4>1. v >= 1 /\ v \in Nat
        BY <1>4
      <4>2. v * d >= 1 * d
        BY <4>1
      <4> QED BY <4>1, <4>2
    <3>4. d <= l
      <4>1. PICK e : e = v * d
        OBVIOUS
      <4>2. e >= d /\ e <= l
        BY <2>1, <3>2, <3>3, <4>1
      <4>3. e \in Nat
        BY <1>4, <3>2, <4>1
      <4> QED BY <1>4, <4>2, <4>3
    <3> QED BY <3>1, <3>4
  <2>7. ASSUME NEW k \in 1 .. m + 1 PROVE (k - 1) * c <= l
    <3>1. CASE k \in 1 .. m
      BY <1>3, <3>1 DEF AnswerInv
    <3>2. CASE k = m + 1
      <4>1. k - 1 = m
        BY <1>4, <3>2
      <4> QED BY <2>6, <4>1
    <3> QED BY <1>4, <3>1, <3>2
  <2>8. ASSUME NEW k \in 1 .. m + 1 PROVE values'[k] = LoadedGroup(k)
    <3>1. CASE k \in 1 .. m
      BY <1>2, <1>3, <2>5, <3>1 DEF AnswerInv
    <3>2. CASE k = m + 1
      BY <2>5, <3>2
    <3> QED BY <1>4, <3>1, <3>2
  <2>9. AnswerTyped'
    <3>1. answerCursor' \in 0 .. l
      BY <1>4, <2>2
    <3> QED BY <1>2, <1>3, <2>2, <2>5, <3>1 DEF AnswerInv, AnswerTyped
  <2>10. answerCursor' = IF (m + 1) * w <= l THEN (m + 1) * w ELSE l
    BY <1>4, <2>2
  <2>11. /\ (Len(values))' = m + 1 /\ AnswerWidth' = w /\ (Len(file))' = l
         /\ answerOut'[answerStage'] = <<>>
    BY <1>2, <1>3, <1>5, <2>5 DEF AnswerInv
  <2>12. (\A k \in 1 .. Len(values) : (k - 1) * CHAR_SIZE <= Len(file))'
    BY <1>3, <2>7, <2>11
  <2>13. (\A k \in 1 .. Len(values) : values[k] = LoadedGroup(k))'
    BY <1>7, <2>8, <2>11
  <2>14. file' \in Files
    BY <1>2 DEF AnswerInv
  <2>15. EofAgrees'
    <3>1. PICK x : x = m * w + w /\ x \in Nat /\ x = (m + 1) * w
      BY <1>4
    <3>2. eof' = (x > l)
      BY <2>2, <3>1
    <3>3. (Len(values) * AnswerWidth)' = x /\ (Len(file))' = l
      BY <2>11, <3>1
    <3>4. CASE x <= l
      <4>1. ~ (x > l)
        BY <1>4, <3>1, <3>4
      <4>2. (x > l) = FALSE
        BY <4>1
      <4>3. eof' = FALSE
        BY <3>2, <4>2, Zenon
      <4>4. (Len(values) * AnswerWidth <= Len(file))'
        BY <3>3, <3>4
      <4> QED BY <4>3, <4>4, Zenon DEF EofAgrees
    <3>5. CASE ~ (x <= l)
      <4>1. x > l
        BY <1>4, <3>1, <3>5
      <4>2. eof' = TRUE
        BY <3>2, <4>1, Zenon
      <4>3. (~ (Len(values) * AnswerWidth <= Len(file)))'
        BY <3>3, <3>5
      <4> QED BY <4>2, <4>3, Zenon DEF EofAgrees
    <3> QED BY <3>4, <3>5
  <2>16. answerCursor' = (IF Len(values) * AnswerWidth <= Len(file) THEN Len(values) * AnswerWidth ELSE Len(file))'
    BY <2>10, <2>11
  <2> QED BY <1>6, <2>2, <2>9, <2>11, <2>12, <2>13, <2>14, <2>15, <2>16 DEF AnswerInv
<1> QED BY <1>8, <1>9

(* The bytes of a loaded value, each at its place, are worth its bits.     *)
LEMMA LoadedIsBits ==
  ASSUME NEW v \in Nat \ {0}, NEW c \in Nat \ {0}, c = CHAR_SIZE, NEW w \in Nat, w = v * c, NEW from \in Nat,
         NEW bit, AreBits(w, bit), AreOfFile(from, w, bit),
         NEW bytes, AreBytes(from, v, c, bytes)
  PROVE  LoadedSum(v, c, bytes) = BitSums(w, bit)[w]
<1>1. PICK s, part : s = BitSums(w, bit) /\ part = [b \in 1 .. v |-> bytes[b] * PowerOf2(c * (b - 1))]
  OBVIOUS
<1>2. ASSUME NEW b \in 1 .. v
      PROVE  part[b] \in Nat /\ part[b] = s[(v - b + 1) * c] - s[(v - b) * c]
  <2>1. PICK d, e : d = v - b /\ e = b - 1
    OBVIOUS
  <2>2. d \in Nat /\ e \in Nat /\ v = d + 1 + e /\ v - b + 1 = d + 1
    BY <2>1
  <2>3. PICK p, at : p = d * c /\ at = from + p
    OBVIOUS
  <2>4. p \in Nat /\ p + c = (d + 1) * c /\ at \in Nat
    BY <2>2, <2>3
  <2>5. w = (d + 1) * c + e * c /\ e * c \in Nat /\ c * e = e * c
    BY <2>2
  <2>6. w - (p + c) = c * e /\ p + c <= w
    BY <2>4, <2>5
  <2>7. \A k \in 1 .. c : BitAt(at + k) = bit[p + k]
    <3>1. ASSUME NEW k \in 1 .. c PROVE BitAt(at + k) = bit[p + k]
      <4>1. p + k \in 1 .. w /\ at + k = from + (p + k)
        BY <2>3, <2>4, <2>6
      <4> QED BY <4>1 DEF AreOfFile
    <3> QED BY <3>1
  <2>8. /\ Answer!Byte(at) * PowerOf2(w - (p + c)) = s[p + c] - s[p]
        /\ Answer!Byte(at) * PowerOf2(w - (p + c)) \in Nat
    <3>1. p + CHAR_SIZE <= w /\ InByte(at, p, bit)
      BY <2>6, <2>7 DEF InByte
    <3>2. /\ Answer!Byte(at) * PowerOf2(w - (p + CHAR_SIZE)) = BitSums(w, bit)[p + CHAR_SIZE] - BitSums(w, bit)[p]
          /\ Answer!Byte(at) * PowerOf2(w - (p + CHAR_SIZE)) \in Nat
      BY <2>4, <3>1, ByteOfGroup
    <3> QED BY <1>1, <3>2
  <2>9. bytes[b] = Answer!Byte(at)
    BY <2>1, <2>3 DEF AreBytes
  <2>10. part[b] = Answer!Byte(at) * PowerOf2(w - (p + c))
    BY <1>1, <2>1, <2>6, <2>9
  <2> QED BY <2>1, <2>2, <2>3, <2>4, <2>8, <2>10
<1>3. ArePlaced(v, c, w, bit, part)
  BY <1>1, <1>2 DEF ArePlaced
<1>4. PartsSum(v, part) = BitSums(w, bit)[w]
  BY <1>3, BytesOfGroup
<1>5. part = [b \in 1 .. v |-> part[b]]
  BY <1>1
<1> QED BY <1>1, <1>4, <1>5 DEF LoadedSum, PartsSum

(* The sign that the machine reads from the highest bit.                   *)
LEMMA SignOfBits ==
  ASSUME NEW w \in Nat \ {0}, NEW bit, \A j \in 1 .. w : bit[j] \in {0, 1}, NEW sum, sum = BitSums(w, bit)[w]
  PROVE  LET signed == IF sum >= PowerOf2(w - 1) THEN sum - PowerOf2(w) ELSE sum
         IN  /\ signed = sum - bit[1] * PowerOf2(w)
             /\ bit[1] = 0 => signed >= 0 /\ signed <= PowerOf2(w - 1) - 1 /\ signed = sum
             /\ bit[1] = 1 => ~ (signed >= 0)
             /\ bit[1] \in {0, 1}
<1>1. PICK p, h : p = PowerOf2(w) /\ h = PowerOf2(w - 1)
  OBVIOUS
<1>2. /\ sum \in 0 .. p - 1 /\ (bit[1] = 1 <=> sum >= h)
      /\ p = 2 * h /\ h \in Nat /\ h > 0
  BY <1>1, FirstBit
<1>3. bit[1] \in {0, 1} /\ (bit[1] = 0 => bit[1] * p = 0) /\ (bit[1] = 1 => bit[1] * p = p)
  <2>1. 1 \in 1 .. w /\ p \in Nat
    BY <1>2
  <2>2. bit[1] \in {0, 1}
    BY <2>1
  <2> QED BY <2>1, <2>2, BitTimes
<1>4. PICK signed : signed = IF sum >= h THEN sum - p ELSE sum
  OBVIOUS
<1>5. /\ signed = sum - bit[1] * p
      /\ bit[1] = 0 => signed >= 0 /\ signed <= h - 1 /\ signed = sum
      /\ bit[1] = 1 => ~ (signed >= 0)
  BY <1>2, <1>3, <1>4
<1> QED BY <1>1, <1>3, <1>4, <1>5

(* What is printed is the value of the group of bits.                      *)
LEMMA AnswerShownIsValue ==
  ASSUME AnswerInv, answerPc = "print", Len(answerOut[answerStage]) < Answer!Count
  PROVE  LET n == Len(answerOut[answerStage]) + 1
         IN  /\ Answer!Shown(values[n]) = Answer!Promise!Value(answerStage, n)
             /\ Answer!Shown(values[n]) \in Int
<1>1. PICK w, n, v, l, c, m, from :
           /\ w = AnswerWidth /\ n = Len(answerOut[answerStage]) /\ v = Answer!ValueSize
           /\ l = Len(file) /\ c = CHAR_SIZE /\ m = Len(values) /\ from = n * w
  OBVIOUS
<1>2. /\ w \in Nat \ {0, 1} /\ w = v * c /\ n \in Nat /\ v \in 1 .. c
      /\ l \in Nat /\ c \in Nat \ {0, 1} /\ m \in Nat
      /\ answerStage \in 1 .. 7 /\ (answerStage = 2 => v = 1)
      /\ n < Answer!Promise!Total(answerStage) /\ Answer!Promise!Total(answerStage) \in Nat
  BY <1>1, AnswerSizes
<1>3. n \in Nat /\ n + 1 \in Nat /\ m \in Nat /\ w \in Nat \ {0} /\ c \in Nat \ {0} /\ v \in Nat \ {0} /\ w \in Nat /\ l \in Nat
      /\ n + 1 <= Answer!Promise!Total(answerStage) /\ n + 1 - 1 = n
  BY <1>2
<1>4. from + w <= l /\ from \in Nat
  <2>1. n * w \in Nat /\ (n + 1) * w = n * w + w
    BY <1>1, <1>2, AnswerFits
  <2>2. (n + 1) * w <= l
    BY <1>1, <1>3, AnswerFits
  <2> QED BY <1>1, <2>1, <2>2
<1>5. n + 1 \in 1 .. m
  <2>1. ~ (Len(values) * AnswerWidth <= Len(file))
    BY DEF AnswerInv
  <2>2. ~ (m <= Answer!Promise!Total(answerStage))
    BY <1>1, <1>3, <2>1, AnswerFits
  <2> QED BY <1>2, <1>3, <2>2
<1>6. PICK bit, bytes : bit = Group(w, n + 1) /\ bytes = values[n + 1]
  OBVIOUS
<1>7. AreBytes(from, v, c, bytes)
  <2>1. bytes = LoadedGroup(n + 1)
    BY <1>1, <1>5, <1>6 DEF AnswerInv
  <2>2. bytes = [b \in 1 .. v |-> Answer!Byte((n + 1 - 1) * w + (v - b) * c)]
    BY <1>1, <2>1 DEF LoadedGroup
  <2>3. bytes = [b \in 1 .. v |-> Answer!Byte(from + (v - b) * c)]
    BY <1>1, <1>3, <2>2
  <2> QED BY <2>3 DEF AreBytes
<1>8. AreBits(w, bit) /\ AreOfFile(from, w, bit)
  <2>1. ASSUME NEW j \in 1 .. w PROVE bit[j] \in {0, 1} /\ bit[j] = BitAt(from + j)
    <3>1. from + j <= l
      BY <1>3, <1>4
    <3>2. bit[j] = IF file[from + j] = "1" THEN 1 ELSE 0
      <4>1. PICK k : k = n + 1
        OBVIOUS
      <4>2. bit = [b \in 1 .. w |-> IF file[(k - 1) * w + b] = "1" THEN 1 ELSE 0]
        BY <1>6, <4>1 DEF Group
      <4>3. bit[j] = IF file[(k - 1) * w + j] = "1" THEN 1 ELSE 0
        BY <4>2
      <4>4. k - 1 = n
        BY <1>3, <4>1
      <4> QED BY <1>1, <4>3, <4>4
    <3> QED BY <1>1, <3>1, <3>2 DEF BitAt
  <2> QED BY <2>1 DEF AreBits, AreOfFile
<1>9. PICK sum : sum = LoadedSum(v, c, bytes)
  OBVIOUS
<1>10. sum = BitSums(w, bit)[w]
  <2>1. w = v * c /\ c = CHAR_SIZE
    BY <1>1, <1>2
  <2> QED BY <1>3, <1>4, <1>7, <1>8, <1>9, <2>1, LoadedIsBits
<1>11. PICK p, h, signed : /\ p = PowerOf2(w) /\ h = PowerOf2(w - 1)
                           /\ signed = IF sum >= h THEN sum - p ELSE sum
  OBVIOUS
<1>12. /\ signed = sum - bit[1] * p
       /\ bit[1] = 0 => signed >= 0 /\ signed <= h - 1 /\ signed = sum
       /\ bit[1] = 1 => ~ (signed >= 0)
       /\ bit[1] \in {0, 1}
  <2>1. \A j \in 1 .. w : bit[j] \in {0, 1}
    BY <1>8 DEF AreBits
  <2> QED BY <1>3, <1>10, <1>11, <2>1, SignOfBits
<1>13. Answer!Shown(bytes) =
          CASE Answer!Promise!Types[answerStage] = "ascii" /\ ~ (signed >= 0 /\ signed <= PowerOf2(c - 1) - 1)
                 -> Answer!Promise!Dot
            [] Answer!Promise!Types[answerStage] \in {"signed_char", "int"} -> signed
            [] OTHER -> sum
  <2>1. /\ \A x : Answer!PowerOf2(x) = PowerOf2(x)
        /\ \A x : Answer!PrefixSums(x) = PrefixSums(x)
    BY SamePowers
  <2>2. Answer!ValueSize * CHAR_SIZE = w
    BY <1>1, <1>2
  <2>3. sum = Answer!PrefixSums([b \in 1 .. v |-> bytes[b] * Answer!PowerOf2(c * (b - 1))])[v]
    BY <1>9, <2>1 DEF LoadedSum
  <2>4. signed = IF sum >= Answer!PowerOf2(w - 1) THEN sum - Answer!PowerOf2(w) ELSE sum
    BY <1>11, <2>1
  <2>5. PowerOf2(c - 1) = Answer!PowerOf2(c - 1)
    BY <2>1
  <2> QED BY <1>1, <2>2, <2>3, <2>4, <2>5 DEF Answer!Shown
<1>14. /\ Answer!Promise!Types[answerStage] = "ascii" <=> answerStage = 2
       /\ Answer!Promise!Types[answerStage] \in {"signed_char", "int"} <=> answerStage \in {1, 4}
  BY <1>2, AnswerStages
<1>15. Answer!Promise!Value(answerStage, n + 1) =
          CASE answerStage = 2 /\ bit[1] = 1 -> Answer!Promise!Dot
            [] answerStage \in {1, 4} -> sum - bit[1] * p
            [] OTHER -> sum
  <2>1. bit = Group(Answer!Promise!Width(answerStage), n + 1)
    BY <1>1, <1>6 DEF AnswerWidth
  <2>2. n + 1 \in 1 .. Answer!Promise!Total(answerStage)
    BY <1>2, <1>3
  <2>3. PICK k : k = n + 1
    OBVIOUS
  <2>4. Answer!Promise!Value(answerStage, k) =
          CASE answerStage = 2 /\ bit[1] = 1 -> Answer!Promise!Dot
            [] answerStage \in {1, 4} -> BitSums(w, bit)[w] - bit[1] * PowerOf2(w)
            [] OTHER -> BitSums(w, bit)[w]
    <3>1. w = Answer!Promise!Width(answerStage) /\ k \in 1 .. Answer!Promise!Total(answerStage)
          /\ bit = Group(w, k) /\ answerStage \in 1 .. 7
      BY <1>1, <1>2, <2>1, <2>2, <2>3 DEF AnswerWidth
    <3> QED BY <3>1, AnswerValueOfBits
  <2> QED BY <1>10, <1>11, <2>3, <2>4
<1>16. answerStage = 2 => PowerOf2(c - 1) = h
  <2>1. answerStage = 2 => w = c
    <3>1. 1 * c = c
      BY <1>2
    <3> QED BY <1>2, <3>1
  <2> QED BY <1>11, <2>1
<1>17. Answer!Shown(bytes) = Answer!Promise!Value(answerStage, n + 1)
  <2>1. CASE answerStage = 2 /\ bit[1] = 1
    BY <1>12, <1>13, <1>14, <1>15, <2>1
  <2>2. CASE answerStage = 2 /\ bit[1] = 0
    BY <1>12, <1>13, <1>14, <1>15, <1>16, <2>2
  <2>3. CASE answerStage # 2
    BY <1>12, <1>13, <1>14, <1>15, <2>3
  <2> QED BY <1>12, <2>1, <2>2, <2>3
<1>18. Answer!Promise!Value(answerStage, n + 1) \in Int
  BY <1>2, AnswerValueOfBits
<1> QED BY <1>1, <1>6, <1>17, <1>18

LEMMA AnswerPrintHolds ==
  ASSUME AnswerInv, Answer!PrintValue, UNCHANGED vars
  PROVE  AnswerInv'
<1>1. /\ answerStage \in 1 .. 7 /\ answerOut \in [1 .. 7 -> Seq(Int)] /\ answerOut[answerStage] \in Seq(Int)
      /\ Len(answerOut[answerStage]) \in Nat /\ Answer!Promise!Total(answerStage) \in Nat
      /\ Answer!Count = Answer!Promise!Total(answerStage)
  BY AnswerSizes
<1>2. /\ file' = file /\ answerCursor' = answerCursor /\ eof' = eof /\ values' = values /\ answerPc = "print"
  BY DEF Answer!PrintValue, vars
<1>3. \A s \in 1 .. 7 : (Answer!Promise!Total(s))' = Answer!Promise!Total(s)
  BY <1>2 DEF Answer!Promise!Total, Answer!Promise!Width
<1>4. Len(answerOut[answerStage]) <= Answer!Promise!Total(answerStage)
  BY <1>2 DEF AnswerInv
<1>5. CASE Len(answerOut[answerStage]) < Answer!Count
  <2>1. PICK n : n = Len(answerOut[answerStage]) /\ n \in Nat
    BY <1>1
  <2>2. /\ answerOut' = [answerOut EXCEPT ![answerStage] = Append(answerOut[answerStage], Answer!Shown(values[n + 1]))]
        /\ answerStage' = answerStage /\ answerPc' = "print" /\ Answer!Shown(values[n + 1]) \in Int
    BY <1>2, <1>5, <2>1, AnswerShownIsValue DEF Answer!PrintValue
  <2>3. /\ answerOut' \in [1 .. 7 -> Seq(Int)] /\ Len(answerOut'[answerStage]) = n + 1
        /\ \A s \in 1 .. 7 : s # answerStage => answerOut'[s] = answerOut[s]
    <3>1. PICK x, o : x = Answer!Shown(values[n + 1]) /\ o = answerOut[answerStage]
      OBVIOUS
    <3>2. Append(o, x) \in Seq(Int) /\ Len(Append(o, x)) = n + 1
      BY <1>1, <2>1, <2>2, <3>1
    <3>3. answerOut' = [answerOut EXCEPT ![answerStage] = Append(o, x)]
      BY <2>2, <3>1
    <3> QED BY <1>1, <3>2, <3>3
  <2>4. AnswerInOrder'
    <3>1. \A s \in 1 .. 7 : s < answerStage \/ s > answerStage => s # answerStage
      BY <1>1
    <3> QED BY <1>3, <2>2, <2>3, <3>1 DEF AnswerInv, AnswerInOrder
  <2>5. AnswerTyped'
    BY <1>2, <2>2, <2>3  DEF AnswerInv, AnswerTyped
  <2>6. n + 1 <= Answer!Promise!Total(answerStage)
    <3>1. PICK c : c = Answer!Promise!Total(answerStage)
      OBVIOUS
    <3>2. n < c /\ c \in Nat /\ n \in Nat
      BY <1>1, <1>5, <2>1, <3>1
    <3> QED BY <3>1, <3>2
  <2>7. AnswerWidth' = AnswerWidth /\ \A k : LoadedGroup(k)' = LoadedGroup(k)
    BY <1>2, <2>2 DEF AnswerWidth, LoadedGroup, Answer!Byte, Answer!ValueSize, Answer!Promise!Width
  <2>8. EofAgrees'
    <3>1. EofAgrees
      BY DEF AnswerInv
    <3>2. ~ (answerPc' = "load") /\ eof' = eof
      BY <1>2, <2>2
    <3> QED BY <3>1, <3>2, Zenon DEF EofAgrees
  <2>9. (/\ ~ (Len(values) * AnswerWidth <= Len(file))
         /\ Len(answerOut[answerStage]) <= Answer!Promise!Total(answerStage))'
    <3>1. ~ (Len(values) * AnswerWidth <= Len(file))
      BY <1>2 DEF AnswerInv
    <3>2. (Answer!Promise!Total(answerStage))' = Answer!Promise!Total(answerStage)
      BY <1>2, <2>2 DEF Answer!Promise!Total, Answer!Promise!Width
    <3>3. (~ (Len(values) * AnswerWidth <= Len(file)))'
      BY <1>2, <2>7, <3>1
    <3>4. (Len(answerOut[answerStage]))' = n + 1
      BY <2>2, <2>3
    <3> QED BY <2>6, <3>2, <3>3, <3>4
  <2>10. (\A k \in 1 .. Len(values) : (k - 1) * CHAR_SIZE <= Len(file) /\ values[k] = LoadedGroup(k))'
    <3>1. \A k \in 1 .. Len(values) : (k - 1) * CHAR_SIZE <= Len(file) /\ values[k] = LoadedGroup(k)
      BY <1>2 DEF AnswerInv
    <3> QED BY <1>2, <2>7, <3>1
  <2>11. file' \in Files
    BY <1>2 DEF AnswerInv
  <2> QED BY <2>2, <2>4, <2>5, <2>8, <2>9, <2>10, <2>11 DEF AnswerInv
<1>6. CASE ~ (Len(answerOut[answerStage]) < Answer!Count)
  <2>1. Len(answerOut[answerStage]) = Answer!Promise!Total(answerStage)
    BY <1>1, <1>4, <1>6
  <2>2. answerOut' = answerOut
    BY <1>6 DEF Answer!PrintValue
  <2>3. ASSUME ~ (answerPc' = "load") PROVE EofAgrees'
    <3>1. EofAgrees
      BY DEF AnswerInv
    <3> QED BY <1>2, <2>3, <3>1, Zenon DEF EofAgrees
  <2>4. (\A k \in 1 .. Len(values) : (k - 1) * CHAR_SIZE <= Len(file))' /\ file' \in Files
    BY <1>2 DEF AnswerInv
  <2>5. CASE answerStage < 7
    <3>1. answerStage' = answerStage + 1 /\ answerPc' = "open" /\ answerStage' \in 1 .. 7
      <4>1. answerStage' = answerStage + 1 /\ answerPc' = "open"
        BY <1>6, <2>5 DEF Answer!PrintValue
      <4> QED BY <1>1, <2>5, <4>1
    <3>2. AnswerInOrder'
      <4>1. ASSUME NEW s \in 1 .. 7
            PROVE  /\ s < answerStage' <=> s < answerStage \/ s = answerStage
                   /\ s > answerStage' => s > answerStage
        BY <1>1, <3>1
      <4> QED BY <1>3, <2>1, <2>2, <4>1 DEF AnswerInv, AnswerInOrder
    <3>3. answerOut'[answerStage'] = <<>>
      <4>1. answerStage' > answerStage
        BY <1>1, <3>1
      <4> QED BY <2>2, <3>1, <4>1 DEF AnswerInv, AnswerInOrder
    <3>4. AnswerTyped'
      BY <1>2, <2>2, <3>1  DEF AnswerInv, AnswerTyped
    <3>5. EofAgrees'
      BY <2>3, <3>1
    <3> QED BY <2>4, <3>1, <3>2, <3>3, <3>4, <3>5 DEF AnswerInv
  <2>6. CASE ~ (answerStage < 7)
    <3>1. answerStage' = answerStage /\ answerPc' = "done"
      BY <1>6, <2>6 DEF Answer!PrintValue
    <3>2. AnswerInOrder'
      BY <1>3, <2>2, <3>1 DEF AnswerInv, AnswerInOrder
    <3>3. AnswerTyped'
      BY <1>2, <2>2, <3>1 DEF AnswerInv, AnswerTyped
    <3>4. EofAgrees'
      BY <2>3, <3>1
    <3> QED BY <2>4, <3>1, <3>2, <3>3, <3>4 DEF AnswerInv
  <2> QED BY <2>5, <2>6
<1> QED BY <1>5, <1>6

LEMMA AnswerStays ==
  ASSUME AnswerInv, UNCHANGED <<file, answerVars>>
  PROVE  AnswerInv'
<1>1. /\ file' = file /\ answerStage' = answerStage /\ answerPc' = answerPc /\ answerCursor' = answerCursor
      /\ eof' = eof /\ values' = values /\ answerOut' = answerOut
  BY DEF answerVars
<1>2. AnswerWidth' = AnswerWidth /\ (\A k : LoadedGroup(k)' = LoadedGroup(k))
      /\ \A s : (Answer!Promise!Total(s))' = Answer!Promise!Total(s)
  BY <1>1 DEF AnswerWidth, LoadedGroup, Answer!Byte, Answer!ValueSize, Answer!Promise!Width, Answer!Promise!Total
<1>3. AnswerTyped'
  BY <1>1 DEF AnswerInv, AnswerTyped
<1>4. AnswerInOrder'
  BY <1>1, <1>2 DEF AnswerInv, AnswerInOrder
<1>5. EofAgrees'
  <2>1. EofAgrees
    BY DEF AnswerInv
  <2> QED BY <1>1, <1>2, <2>1, Zenon DEF EofAgrees
<1>6. (answerPc = "load" =>
         answerCursor = IF Len(values) * AnswerWidth <= Len(file) THEN Len(values) * AnswerWidth ELSE Len(file))'
  BY <1>1, <1>2 DEF AnswerInv
<1>7. (answerPc \in {"load", "print"} => \A k \in 1 .. Len(values) : values[k] = LoadedGroup(k))'
  BY <1>1, <1>2 DEF AnswerInv
<1>8. (answerPc = "print" => /\ ~ (Len(values) * AnswerWidth <= Len(file))
                             /\ Len(answerOut[answerStage]) <= Answer!Promise!Total(answerStage))'
  BY <1>1, <1>2 DEF AnswerInv
<1>9. (/\ file \in Files
       /\ \A k \in 1 .. Len(values) : (k - 1) * CHAR_SIZE <= Len(file)
       /\ answerPc \in {"open", "load"} => answerOut[answerStage] = <<>>)'
  BY <1>1 DEF AnswerInv
<1> QED BY <1>3, <1>4, <1>5, <1>6, <1>7, <1>8, <1>9 DEF AnswerInv

(* Every step prints the next value of the file, or nothing.               *)
LEMMA AnswerStepPrints ==
  ASSUME AnswerInv, Answer!Next, UNCHANGED vars
  PROVE  [Answer!Promise!Next]_<<file, answerOut>>
<1>1. answerStage \in 1 .. 7 /\ Len(answerOut[answerStage]) \in Nat /\ Answer!Count = Answer!Promise!Total(answerStage)
  BY AnswerSizes
<1>2. file' = file
  BY DEF vars
<1>3. CASE Answer!Open \/ Answer!LoadValue
  BY <1>2, <1>3 DEF Answer!Open, Answer!LoadValue
<1>4. CASE Answer!PrintValue
  <2>1. CASE Len(answerOut[answerStage]) < Answer!Count
    <3>1. PICK n : n = Len(answerOut[answerStage]) /\ n \in Nat
      BY <1>1
    <3>2. answerOut' = [answerOut EXCEPT ![answerStage] =
                          Append(answerOut[answerStage], Answer!Promise!Value(answerStage, n + 1))]
      <4>1. Answer!Shown(values[n + 1]) = Answer!Promise!Value(answerStage, n + 1)
        BY <1>4, <2>1, <3>1, AnswerShownIsValue DEF Answer!PrintValue
      <4> QED BY <1>4, <2>1, <3>1, <4>1 DEF Answer!PrintValue
    <3>3. \A t \in 1 .. (answerStage - 1) : Len(answerOut[t]) = Answer!Promise!Total(t)
      <4>1. \A t \in 1 .. (answerStage - 1) : t \in 1 .. 7 /\ t < answerStage
        BY <1>1
      <4> QED BY <4>1 DEF AnswerInv, AnswerInOrder
    <3>4. Answer!Promise!PrintValue(answerStage)
      BY <1>1, <2>1, <3>1, <3>2, <3>3 DEF Answer!Promise!PrintValue
    <3> QED BY <1>1, <1>2, <3>4, AnswerStages DEF Answer!Promise!Next
  <2>2. CASE ~ (Len(answerOut[answerStage]) < Answer!Count)
    BY <1>2, <1>4, <2>2 DEF Answer!PrintValue
  <2> QED BY <2>1, <2>2
<1> QED BY <1>3, <1>4 DEF Answer!Next

(* What is loaded is within the buffer, and it is enough.                  *)
LEMMA AnswerInvMeans ==
  ASSUME AnswerInv
  PROVE  AnswerBufferHolds
<1>1. /\ file \in Seq(Character) /\ Len(file) \in Nat /\ Len(values) \in Nat /\ CHAR_SIZE \in Nat \ {0, 1}
      /\ Answer!ValueSize \in 1 .. CHAR_SIZE /\ Answer!Promise!Total(answerStage) \in Nat
      /\ Answer!Count = Answer!Promise!Total(answerStage)
  BY AnswerSizes
<1>2. PICK m, v, l, c : m = Len(values) /\ v = Answer!ValueSize /\ l = Len(file) /\ c = CHAR_SIZE
  OBVIOUS
<1>3. m \in Nat /\ v \in 1 .. c /\ l \in Nat /\ c \in Nat \ {0, 1}
  BY <1>1, <1>2
<1>4. ASSUME file # <<>> PROVE m * v <= l * c
  <2>1. l >= 1
    BY <1>1, <1>2, <1>3, <1>4
  <2>2. m * v <= m * c /\ m * c \in Nat /\ m * v \in Nat /\ l * c \in Nat
    BY <1>3
  <2>3. CASE m <= 1
    <3>1. m * c <= l * c
      BY <1>3, <2>1, <2>3
    <3> QED BY <2>2, <3>1
  <2>4. CASE m > 1
    <3>1. m \in 1 .. m /\ m - 1 \in Nat /\ m - 1 >= 1
      BY <1>3, <2>4
    <3>2. (m - 1) * c <= l
      BY <1>2, <3>1 DEF AnswerInv
    <3>3. m * c = (m - 1) * c + c /\ (m - 1) * c >= 1 * c /\ (m - 1) * c \in Nat
      BY <1>3, <3>1
    <3>4. m * c <= l + l
      <4>1. PICK x, y : x = (m - 1) * c /\ y = m * c
        OBVIOUS
      <4>2. y = x + c /\ x >= c /\ x <= l /\ x \in Nat
        BY <1>3, <3>2, <3>3, <4>1
      <4>3. y <= l + l
        BY <1>3, <4>2
      <4> QED BY <4>1, <4>3
    <3>5. l * 2 <= l * c
      BY <1>3
    <3>6. l * 2 = l + l
      BY <1>3
    <3>7. PICK x, y, z : x = m * v /\ y = m * c /\ z = l * c
      OBVIOUS
    <3>8. x <= y /\ y <= l + l /\ l + l <= z /\ x \in Nat /\ y \in Nat /\ z \in Nat
      BY <2>2, <3>4, <3>5, <3>6, <3>7
    <3>9. x <= z
      BY <1>3, <3>8
    <3> QED BY <3>7, <3>9
  <2> QED BY <1>3, <2>3, <2>4
<1>5. ASSUME answerPc = "print" PROVE m > Answer!Count
  <2>1. ~ (m <= Answer!Promise!Total(answerStage))
    <3>1. m \in Nat /\ ~ (m * AnswerWidth <= Len(file))
      BY <1>2, <1>3, <1>5 DEF AnswerInv
    <3> QED BY <3>1, AnswerFits
  <2>2. PICK x : x = Answer!Promise!Total(answerStage)
    OBVIOUS
  <2>3. x \in Nat /\ ~ (m <= x)
    BY <1>1, <2>1, <2>2
  <2>4. m > x
    BY <1>3, <2>3
  <2> QED BY <1>1, <2>2, <2>4
<1> QED BY <1>2, <1>4, <1>5 DEF AnswerBufferHolds, Answer!BufferHolds
-----------------------------------------------------------------------------
(***************************************************************************)
(* Both programs                                                           *)
(***************************************************************************)
BothInv == IInv /\ AnswerInv

LEMMA BothStepHolds ==
  ASSUME BothInv, [BothNext]_<<vars, answerVars>>
  PROVE  BothInv'
<1>1. [Next]_vars
  BY DEF BothNext
<1>2. IInv'
  BY <1>1, StepHolds DEF BothInv
<1>3. AnswerInv'
  <2>1. CASE UNCHANGED answerVars
    <3>1. file' = file
      BY <1>1 DEF Next, Read, Shift, PrintValue, Rewind, vars
    <3> QED BY <2>1, <3>1, AnswerStays DEF BothInv
  <2>2. CASE Answer!Next /\ UNCHANGED vars
    BY <2>2, OpenHolds, LoadHolds, AnswerPrintHolds DEF BothInv, Answer!Next
  <2> QED BY <2>1, <2>2 DEF BothNext
<1> QED BY <1>2, <1>3 DEF BothInv

LEMMA BothInvCorrect == BothSpec => []BothInv
<1>1. BothInit => BothInv
  BY InitHolds, AnswerInitHolds DEF BothInit, BothInv, IInv
<1> QED BY <1>1, BothStepHolds, PTL DEF BothSpec

(* The types hold, with variables of any width and files of any length: no *)
(* bit goes beyond the sign when hw1 shifts it into `result', whatever     *)
(* was in an uninitialised union, and no byte of the answer beyond its     *)
(* width.                                                                  *)
THEOREM BothTypeOKCorrect == BothSpec => []BothTypeOK
<1>1. BothInv => BothTypeOK
  <2> SUFFICES ASSUME BothInv PROVE BothTypeOK
    OBVIOUS
  <2>1. Answer!TypeOK
    <3>1. Answer!PowerOf2(CHAR_SIZE) = PowerOf2(CHAR_SIZE)
      BY SamePowers
    <3>2. AnswerTyped /\ EofAgrees
      BY DEF BothInv, AnswerInv
    <3>3. eof \in BOOLEAN
      BY <3>2 DEF EofAgrees
    <3> QED BY <3>1, <3>2, <3>3, AnswerStages DEF AnswerTyped, Answer!TypeOK
  <2> QED BY <2>1 DEF BothInv, IInv, BothTypeOK
<1> QED BY <1>1, BothInvCorrect, PTL

(* The buffer of load_values, eight bytes for every byte of the file, is   *)
(* never too small although feof() is only true after one more read than   *)
(* there are values; and never too few values are loaded for the loop that *)
(* prints them.                                                            *)
THEOREM AnswerBufferHoldsCorrect == BothSpec => []AnswerBufferHolds
<1>1. BothInv => AnswerBufferHolds
  BY AnswerInvMeans DEF BothInv
<1> QED BY <1>1, BothInvCorrect, PTL

(* Both programs print the value of each whole group of bits, in order and *)
(* for all seven types, and nothing else: hw1 shifting them in, the answer *)
(* loading bytes backwards.  That all of them are printed in the end needs *)
(* fairness and is left to the model checker.                              *)
THEOREM BothPrintValues == BothSpec => ImplementsBitValues /\ Answer!ImplementsBitValues
<1>1. BothInit => Promise!Init /\ Answer!Promise!Init
  BY DEF BothInit, Init, Answer!Init, Promise!Init, Answer!Promise!Init, Stage, Answer!Stage
<1>2. BothInv /\ [BothNext]_<<vars, answerVars>> => [Promise!Next]_<<file, out>>
  <2> SUFFICES ASSUME BothInv, [BothNext]_<<vars, answerVars>> PROVE [Promise!Next]_<<file, out>>
    OBVIOUS
  <2>1. [Next]_vars
    BY DEF BothNext
  <2> QED BY <2>1, StepPrints DEF BothInv
<1>3. BothInv /\ [BothNext]_<<vars, answerVars>> => [Answer!Promise!Next]_<<file, answerOut>>
  <2> SUFFICES ASSUME BothInv, [BothNext]_<<vars, answerVars>> PROVE [Answer!Promise!Next]_<<file, answerOut>>
    OBVIOUS
  <2>1. CASE UNCHANGED answerVars
    <3>1. [Next]_vars
      BY DEF BothNext
    <3>2. file' = file
      BY <3>1 DEF Next, Read, Shift, PrintValue, Rewind, vars
    <3> QED BY <2>1, <3>2 DEF answerVars
  <2>2. CASE Answer!Next /\ UNCHANGED vars
    BY <2>2, AnswerStepPrints DEF BothInv
  <2> QED BY <2>1, <2>2 DEF BothNext
<1> QED BY <1>1, <1>2, <1>3, BothInvCorrect, PTL
        DEF BothSpec, ImplementsBitValues, Promise!Spec, Answer!ImplementsBitValues, Answer!Promise!Spec
=============================================================================
