---------------------------- MODULE CoThreadsProofs --------------------------
(***************************************************************************)
(* Theorems about hw6/20170767.h, for any number of threads and any order  *)
(* in which they call yield, P and V, as long as no P has to block: the    *)
(* links of addQueue and delQueue keep every thread in the queue or at     *)
(* work, and schedule them first come, first served.                       *)
(***************************************************************************)
EXTENDS CoThreadsClient, SequenceTheorems, NaturalsInduction,
        WellFoundedInduction, FiniteSetTheorems, TLAPS

(***************************************************************************)
(* Induction over sets of numbers                                          *)
(***************************************************************************)
LEMMA Least ==
  ASSUME NEW T \in SUBSET Nat, T # {}
  PROVE  \E n \in T : \A m \in T : n <= m
<1> DEFINE R == OpToRel(<, Nat)
<1>1. IsWellFoundedOn(R, Nat)
  BY NatLessThanWellFounded
<1>2. \A x, y \in Nat : <<y, x>> \in R <=> y < x
  BY DEF OpToRel
<1> HIDE DEF R
<1>3. \E x \in T : \A y \in T : ~ (<<y, x>> \in R)
  BY <1>1, WFMin
<1>4. PICK n \in T : \A m \in T : ~ (<<m, n>> \in R)
  BY <1>3
<1>5. ASSUME NEW m \in T PROVE n <= m
  <2>1. ~ (m < n)
    BY <1>2, <1>4
  <2> QED BY <2>1
<1> QED BY <1>5

LEMMA Induct ==
  ASSUME NEW T \in SUBSET Nat, 0 \in T, \A n \in T : n + 1 \in T
  PROVE  T = Nat
<1> SUFFICES ASSUME T # Nat PROVE FALSE
  OBVIOUS
<1>1. Nat \ T \in SUBSET Nat /\ Nat \ T # {}
  OBVIOUS
<1>2. PICK n \in Nat \ T : \A m \in Nat \ T : n <= m
  BY <1>1, Least
<1>3. n - 1 \in Nat /\ n - 1 \in T
  BY <1>2
<1>4. n - 1 + 1 \in T
  BY <1>3
<1> QED BY <1>2, <1>4

(* From 0 up to a bound.                                                   *)
LEMMA InductTo ==
  ASSUME NEW b \in Nat, NEW T, 0 \in T, \A n \in 0 .. b - 1 : n \in T => n + 1 \in T
  PROVE  \A n \in 0 .. b : n \in T
<1> DEFINE U == {n \in Nat : n <= b => n \in T}
<1>1. 0 \in U
  OBVIOUS
<1>2. ASSUME NEW n \in U PROVE n + 1 \in U
  OBVIOUS
<1>3. U \in SUBSET Nat
  OBVIOUS
<1> HIDE DEF U
<1>4. U = Nat
  BY <1>1, <1>2, <1>3, Induct
<1> QED BY <1>4 DEF U

(* A sequence without its first element.                                   *)
LEMMA TailIs ==
  ASSUME NEW S, NEW s \in Seq(S), Len(s) # 0
  PROVE  /\ Tail(s) \in Seq(S) /\ Len(s) - 1 \in Nat /\ Len(Tail(s)) = Len(s) - 1
         /\ \A i \in 1 .. Len(s) - 1 : Tail(s)[i] = s[i + 1]
OBVIOUS

(***************************************************************************)
(* Linked lists                                                            *)
(***************************************************************************)

(* thread_queue links the threads of s, in this order and in both          *)
(* directions.                                                             *)
IsQueue(m, s) ==
  /\ m \in MemType /\ s \in Seq(Thread)
  /\ \A i, k \in 1 .. Len(s) : s[i] = s[k] => i = k
  /\ m.head["thread_queue"] = IF Len(s) = 0 THEN NULL ELSE s[1]
  /\ \A i \in 1 .. Len(s) : m.next[s[i]] = IF i = Len(s) THEN NULL ELSE s[i + 1]
  /\ \A i \in 1 .. Len(s) : m.prev[s[i]] = IF i = 1 THEN NULL ELSE s[i - 1]

NotIn(t, s) == \A i \in 1 .. Len(s) : s[i] # t

Loose(m, t) == m.next[t] = NULL /\ m.prev[t] = NULL

(* There are no more threads in it than there are.                         *)
LEMMA QueueLength ==
  ASSUME NEW m, NEW s, IsQueue(m, s)
  PROVE  Cardinality(Thread) \in Nat /\ Len(s) \in 0 .. Cardinality(Thread)
<1>1. PICK n : n = Len(s) /\ n \in Nat
  <2>1. Len(s) \in Nat
    BY DEF IsQueue
  <2> QED BY <2>1
<1>2. s \in [1 .. n -> Thread]
  BY <1>1 DEF IsQueue
<1>3. s \in Injection(1 .. n, Thread)
  BY <1>1, <1>2 DEF IsQueue, Injection, IsInjective
<1>4. Cardinality(1 .. n) = n
  <2>1. 1 \in Int /\ n \in Int /\ n - 1 + 1 = n /\ (1 > n => n = 0)
    BY <1>1
  <2>2. Cardinality(1 .. n) = IF 1 > n THEN 0 ELSE n - 1 + 1
    BY <2>1, FS_Interval
  <2> QED BY <2>1, <2>2
<1>5. n <= Cardinality(Thread) /\ Cardinality(Thread) \in Nat
  BY <1>3, <1>4, ThreadAssumption, FS_Injection, FS_CardinalityType
<1> QED BY <1>1, <1>5

(* The walk along the links meets its threads, then NULL.                  *)
LEMMA WalkIs ==
  ASSUME NEW m, NEW s, IsQueue(m, s)
  PROVE  /\ DOMAIN Walk(m, "thread_queue") = 0 .. Cardinality(Thread)
         /\ \A i \in 0 .. Cardinality(Thread) :
              Walk(m, "thread_queue")[i] = IF i < Len(s) THEN s[i + 1] ELSE NULL
<1>1. PICK c, n, h, x : c = Cardinality(Thread) /\ n = Len(s) /\ h = m.head["thread_queue"] /\ x = m.next
  OBVIOUS
<1>2. c \in Nat /\ n \in 0 .. c /\ n \in Nat
  BY <1>1, QueueLength
<1>3. /\ h = IF n = 0 THEN NULL ELSE s[1]
      /\ \A i \in 1 .. n : x[s[i]] = IF i = n THEN NULL ELSE s[i + 1]
      /\ \A i \in 1 .. n : s[i] # NULL
  <2>1. \A i \in 1 .. n : s[i] \in Thread
    BY <1>1, ElementOfSeq DEF IsQueue
  <2> QED BY <1>1, <2>1, ThreadAssumption DEF IsQueue
<1> DEFINE IsWalk(w) == w = [k \in 0 .. c |-> IF k = 0 THEN h
                                              ELSE IF w[k - 1] = NULL THEN NULL ELSE x[w[k - 1]]]
<1>4. PICK g : g = [k \in 0 .. c |-> IF k < n THEN s[k + 1] ELSE NULL]
  OBVIOUS
<1>5. IsWalk(g)
  <2>1. ASSUME NEW k \in 0 .. c
        PROVE  g[k] = IF k = 0 THEN h ELSE IF g[k - 1] = NULL THEN NULL ELSE x[g[k - 1]]
    <3>1. CASE k = 0
      BY <1>2, <1>3, <1>4, <3>1
    <3>2. CASE k # 0 /\ k - 1 < n
      <4>1. k - 1 \in 0 .. c /\ k - 1 + 1 = k /\ k \in 1 .. n /\ (k < n <=> k # n)
        BY <1>2, <3>2
      <4>2. g[k - 1] = s[k]
        BY <1>4, <3>2, <4>1
      <4> QED BY <1>3, <1>4, <3>2, <4>1, <4>2
    <3>3. CASE k # 0 /\ ~(k - 1 < n)
      <4>1. k - 1 \in 0 .. c /\ ~(k < n)
        BY <1>2, <3>3, SMTT(30)
      <4> QED BY <1>4, <3>3, <4>1
    <3> QED BY <3>1, <3>2, <3>3
  <2> QED BY <1>4, <2>1
<1>6. IsWalk(Walk(m, "thread_queue"))
  BY <1>1, <1>5 DEF Walk
<1>7. PICK w : w = Walk(m, "thread_queue")
  OBVIOUS
<1>8. DOMAIN w = 0 .. c
  BY <1>6, <1>7
<1>9. \A k \in 0 .. c : /\ w[k] = IF k = 0 THEN h ELSE IF w[k - 1] = NULL THEN NULL ELSE x[w[k - 1]]
                        /\ g[k] = IF k = 0 THEN h ELSE IF g[k - 1] = NULL THEN NULL ELSE x[g[k - 1]]
  BY <1>5, <1>6, <1>7
<1> DEFINE T == {k \in 0 .. c : w[k] = g[k]}
<1>10. 0 \in T
  BY <1>2, <1>9
<1>11. ASSUME NEW k \in 0 .. c - 1, k \in T PROVE k + 1 \in T
  <2>1. k + 1 \in 0 .. c /\ k + 1 # 0 /\ k + 1 - 1 = k
    BY <1>2
  <2> QED BY <1>9, <1>11, <2>1
<1> HIDE DEF T
<1>12. \A k \in 0 .. c : k \in T
  BY <1>2, <1>10, <1>11, InductTo
<1>13. \A k \in 0 .. c : w[k] = g[k]
  BY <1>12 DEF T
<1> QED BY <1>1, <1>4, <1>7, <1>8, <1>13

(* What Content makes of it.                                               *)
LEMMA QueueContent ==
  ASSUME NEW m, NEW s, IsQueue(m, s)
  PROVE  Ends(m, "thread_queue") /\ Content(m, "thread_queue") = s
<1>1. PICK c, n, w : c = Cardinality(Thread) /\ n = Len(s) /\ w = Walk(m, "thread_queue")
  OBVIOUS
<1>2. c \in Nat /\ n \in 0 .. c /\ n \in Nat
  BY <1>1, QueueLength
<1>3. DOMAIN w = 0 .. c /\ \A i \in 0 .. c : w[i] = IF i < n THEN s[i + 1] ELSE NULL
  BY <1>1, WalkIs
<1>4. \A i \in 1 .. n : s[i] # NULL
  <2>1. \A i \in 1 .. n : s[i] \in Thread
    BY <1>1, ElementOfSeq DEF IsQueue
  <2> QED BY <2>1, ThreadAssumption
<1>5. w[n] = NULL /\ \A k \in 0 .. n - 1 : w[k] # NULL
  <2>1. ASSUME NEW k \in 0 .. n - 1 PROVE w[k] # NULL
    <3>1. k \in 0 .. c /\ k < n /\ k + 1 \in 1 .. n
      BY <1>2
    <3> QED BY <1>3, <1>4, <3>1
  <2> QED BY <1>2, <1>3, <2>1
<1>6. PICK length : length = CHOOSE k \in 0 .. c : w[k] = NULL /\ \A i \in 0 .. k - 1 : w[i] # NULL
  OBVIOUS
<1>7. length \in 0 .. c /\ w[length] = NULL /\ \A i \in 0 .. length - 1 : w[i] # NULL
  BY <1>2, <1>5, <1>6
<1>8. length = n
  <2>1. ~(length < n)
    <3>1. length < n => length \in 0 .. n - 1
      BY <1>2, <1>7
    <3> QED BY <1>5, <1>7, <3>1
  <2>2. ~(n < length)
    <3>1. n < length => n \in 0 .. length - 1
      BY <1>2, <1>7
    <3> QED BY <1>5, <1>7, <3>1
  <2> QED BY <1>2, <1>7, <2>1, <2>2
<1>9. Content(m, "thread_queue") = [i \in 1 .. n |-> w[i - 1]]
  BY <1>1, <1>3, <1>6, <1>8 DEF Content
<1>10. s = [i \in 1 .. n |-> w[i - 1]]
  <2>1. s = [i \in 1 .. n |-> s[i]]
    BY <1>1 DEF IsQueue
  <2>2. ASSUME NEW i \in 1 .. n PROVE w[i - 1] = s[i]
    <3>1. i - 1 \in 0 .. c /\ i - 1 < n /\ i - 1 + 1 = i
      BY <1>2
    <3> QED BY <1>3, <3>1
  <2> QED BY <2>1, <2>2
<1>11. Ends(m, "thread_queue")
  BY <1>1, <1>2, <1>3, <1>5 DEF Ends
<1> QED BY <1>9, <1>10, <1>11
-----------------------------------------------------------------------------
(***************************************************************************)
(* The operations                                                          *)
(***************************************************************************)

(* From m to r nothing but the queue and thread t changes.                 *)
OnlyQueueChanges(m, r, s, t) ==
  /\ r.fault = "none"
  /\ r.head["sem_q"] = m.head["sem_q"]
  /\ \A x \in Thread : x # t /\ NotIn(x, s) /\ Loose(m, x) => Loose(r, x)

(* addQueue sets the link of the last thread and the one back, the queue's *)
(* head if there is none.                                                  *)
LEMMA AddOne ==
  ASSUME NEW m, NEW s, NEW t \in Thread, IsQueue(m, s),
         m.fault = "none", Loose(m, t), NotIn(t, s)
  PROVE  /\ IsQueue(AddQueue(m, "thread_queue", t), Append(s, t))
         /\ OnlyQueueChanges(m, AddQueue(m, "thread_queue", t), s, t)
<1>1. PICK n, u, r : n = Len(s) /\ n \in Nat /\ u = Append(s, t) /\ r = AddQueue(m, "thread_queue", t)
  <2>1. Len(s) \in Nat
    BY DEF IsQueue
  <2> QED BY <2>1
<1>2. /\ u \in Seq(Thread) /\ Len(u) = n + 1 /\ u[n + 1] = t
      /\ \A i \in 1 .. n : u[i] = s[i]
  BY <1>1, AppendProperties DEF IsQueue
<1>3. \A i \in 1 .. n : s[i] \in Thread
  BY <1>1, ElementOfSeq DEF IsQueue
<1>4. \A i, k \in 1 .. n + 1 : u[i] = u[k] => i = k
  <2> SUFFICES ASSUME NEW i \in 1 .. n + 1, NEW k \in 1 .. n + 1, u[i] = u[k] PROVE i = k
    OBVIOUS
  <2>1. (i \in 1 .. n \/ i = n + 1) /\ (k \in 1 .. n \/ k = n + 1)
    BY <1>1
  <2> QED BY <1>1, <1>2, <2>1 DEF IsQueue, NotIn
<1>5. CASE n = 0
  <2>1. m \in MemType /\ m.head["thread_queue"] = NULL
    BY <1>1, <1>5 DEF IsQueue
  <2>2. r = [m EXCEPT !.head["thread_queue"] = t]
    BY <1>1, <2>1 DEF AddQueue
  <2>3. /\ r \in MemType /\ r.next = m.next /\ r.prev = m.prev /\ r.fault = m.fault
        /\ r.head["thread_queue"] = t /\ r.head["sem_q"] = m.head["sem_q"]
    BY <2>1, <2>2 DEF MemType, TcbPointer, Queue
  <2>4. IsQueue(r, u)
    <3>1. Len(u) = 1 /\ u[1] = t /\ \A i \in 1 .. 1 : i = 1
      BY <1>2, <1>5
    <3> QED BY <1>2, <1>4, <1>5, <2>3, <3>1 DEF IsQueue, Loose
  <2>5. OnlyQueueChanges(m, r, s, t)
    BY <2>3 DEF OnlyQueueChanges, Loose
  <2> QED BY <1>1, <2>4, <2>5
<1>6. CASE n # 0
  <2>1. PICK last : last = s[n]
    OBVIOUS
  <2>2. n \in 1 .. n /\ 1 \in 1 .. n /\ last \in Thread /\ last # t /\ ~(n + 1 \in 1 .. n) /\ n + 1 # 0 /\ n + 1 # 1
    BY <1>1, <1>3, <1>6, <2>1 DEF NotIn
  <2>3. m \in MemType /\ m.head["thread_queue"] = s[1] /\ s[1] # NULL
    BY <1>1, <1>3, <1>6, <2>2, ThreadAssumption DEF IsQueue
  <2>4. Rear(m, "thread_queue") = last /\ Ends(m, "thread_queue")
    BY <1>1, <2>1, QueueContent DEF Rear
  <2>5. r = [m EXCEPT !.next[last] = t, !.prev[t] = last]
    BY <1>1, <2>3, <2>4 DEF AddQueue
  <2>6. /\ r \in MemType /\ r.head = m.head /\ r.fault = m.fault
        /\ r.next = [m.next EXCEPT ![last] = t]
        /\ r.prev = [m.prev EXCEPT ![t] = last]
    BY <2>2, <2>3, <2>5 DEF MemType, TcbPointer
  <2>7. m.next \in [Thread -> TcbPointer] /\ m.prev \in [Thread -> TcbPointer]
    BY <2>3 DEF MemType
  <2>8. ASSUME NEW i \in 1 .. n + 1 PROVE r.next[u[i]] = IF i = n + 1 THEN NULL ELSE u[i + 1]
    <3>1. CASE i = n + 1
      <4>1. u[i] = t /\ m.next[t] = NULL
        BY <1>2, <3>1 DEF Loose
      <4> QED BY <2>2, <2>6, <2>7, <3>1, <4>1
    <3>2. CASE i = n
      <4>1. u[i] = last /\ u[i + 1] = t /\ i # n + 1
        BY <1>2, <2>1, <2>2, <3>2
      <4> QED BY <2>2, <2>6, <2>7, <4>1
    <3>3. CASE i # n + 1 /\ i # n
      <4>1. i \in 1 .. n /\ i + 1 \in 1 .. n
        BY <1>1, <3>3
      <4>2. u[i] = s[i] /\ u[i + 1] = s[i + 1] /\ s[i] \in Thread /\ m.next[s[i]] = s[i + 1]
        BY <1>1, <1>2, <1>3, <3>3, <4>1 DEF IsQueue
      <4>3. s[i] # last
        BY <1>1, <2>1, <2>2, <3>3, <4>1 DEF IsQueue
      <4> QED BY <2>6, <2>7, <3>3, <4>2, <4>3
    <3> QED BY <3>1, <3>2, <3>3
  <2>9. ASSUME NEW i \in 1 .. n + 1 PROVE r.prev[u[i]] = IF i = 1 THEN NULL ELSE u[i - 1]
    <3>1. CASE i = n + 1
      <4>1. u[i] = t /\ i # 1 /\ u[i - 1] = last
        BY <1>1, <1>2, <2>1, <2>2, <3>1
      <4> QED BY <2>6, <2>7, <4>1
    <3>2. CASE i # n + 1
      <4>1. i \in 1 .. n /\ (i # 1 => i - 1 \in 1 .. n)
        BY <1>1, <3>2
      <4>2. /\ u[i] = s[i] /\ s[i] \in Thread /\ s[i] # t
            /\ m.prev[s[i]] = IF i = 1 THEN NULL ELSE s[i - 1]
        BY <1>1, <1>2, <1>3, <4>1 DEF IsQueue, NotIn
      <4> QED BY <1>2, <2>6, <2>7, <4>1, <4>2
    <3> QED BY <3>1, <3>2
  <2>10. IsQueue(r, u)
    <3>1. u[1] = s[1] /\ Len(u) # 0
      BY <1>2, <2>2
    <3> QED BY <1>2, <1>4, <2>3, <2>6, <2>8, <2>9, <3>1 DEF IsQueue
  <2>11. OnlyQueueChanges(m, r, s, t)
    <3>1. ASSUME NEW x \in Thread, x # t, NotIn(x, s), Loose(m, x) PROVE Loose(r, x)
      <4>1. x # last
        BY <1>1, <2>1, <2>2, <3>1 DEF NotIn
      <4> QED BY <2>6, <2>7, <3>1, <4>1 DEF Loose
    <3> QED BY <2>6, <3>1 DEF OnlyQueueChanges
  <2> QED BY <1>1, <2>10, <2>11
<1> QED BY <1>5, <1>6

(* The first goes, one comes last.                                         *)
LEMMA TailAppend ==
  ASSUME NEW S, NEW s \in Seq(S), Len(s) # 0, NEW t \in S
  PROVE  Tail(Append(s, t)) = Append(Tail(s), t)
<1>1. s # <<>>
  OBVIOUS
<1> QED BY <1>1, HeadTailAppend

(* delQueue takes the first thread, if it is not the only one.             *)
LEMMA DelOne ==
  ASSUME NEW m, NEW s, IsQueue(m, s), m.fault = "none", Len(s) # 0, Len(s) # 1
  PROVE  /\ IsQueue(DelQueue(m, "thread_queue"), Tail(s))
         /\ OnlyQueueChanges(m, DelQueue(m, "thread_queue"), s, s[1])
         /\ Loose(DelQueue(m, "thread_queue"), s[1])
<1>1. PICK n, u, r, front, second :
        /\ n = Len(s) /\ n \in Nat /\ u = Tail(s) /\ r = DelQueue(m, "thread_queue")
        /\ front = s[1] /\ second = s[2]
  <2>1. Len(s) \in Nat
    BY DEF IsQueue
  <2> QED BY <2>1
<1>2. /\ 1 \in 1 .. n /\ 2 \in 1 .. n /\ 1 # n /\ n # 0 /\ n - 1 \in Nat /\ n - 1 # 0
      /\ 1 \in 1 .. n - 1
  BY <1>1
<1>3. u \in Seq(Thread) /\ Len(u) = n - 1 /\ \A i \in 1 .. n - 1 : u[i] = s[i + 1]
  <2>1. s \in Seq(Thread)
    BY DEF IsQueue
  <2> QED BY <1>1, <2>1, TailIs
<1>4. \A i \in 1 .. n : s[i] \in Thread /\ s[i] # NULL
  <2>1. \A i \in 1 .. n : s[i] \in Thread
    BY <1>1, ElementOfSeq DEF IsQueue
  <2> QED BY <2>1, ThreadAssumption
<1>5. /\ m \in MemType /\ m.head["thread_queue"] = front /\ m.next[front] = second /\ m.prev[front] = NULL
      /\ front \in Thread /\ second \in Thread /\ front # NULL /\ second # NULL /\ front # second
  BY <1>1, <1>2, <1>4 DEF IsQueue
<1>6. r = [m EXCEPT !.prev[second] = NULL, !.next[front] = NULL, !.head["thread_queue"] = second]
  BY <1>1, <1>5 DEF DelQueue
<1>7. /\ r \in MemType /\ r.fault = m.fault
      /\ r.head["thread_queue"] = second /\ r.head["sem_q"] = m.head["sem_q"]
      /\ r.next = [m.next EXCEPT ![front] = NULL]
      /\ r.prev = [m.prev EXCEPT ![second] = NULL]
  BY <1>5, <1>6 DEF MemType, TcbPointer, Queue
<1>8. m.next \in [Thread -> TcbPointer] /\ m.prev \in [Thread -> TcbPointer]
  BY <1>5 DEF MemType
<1>9. ASSUME NEW i \in 1 .. n - 1
      PROVE  /\ r.next[u[i]] = IF i = n - 1 THEN NULL ELSE u[i + 1]
             /\ r.prev[u[i]] = IF i = 1 THEN NULL ELSE u[i - 1]
  <2>1. PICK k : k = i + 1
    OBVIOUS
  <2>2. k \in 1 .. n /\ k # 1 /\ (i = n - 1 <=> k = n) /\ k - 1 = i /\ (i = 1 <=> k = 2)
    BY <1>1, <2>1
  <2>3. /\ u[i] = s[k] /\ s[k] \in Thread
        /\ m.next[s[k]] = IF k = n THEN NULL ELSE s[k + 1]
        /\ m.prev[s[k]] = s[i]
    BY <1>1, <1>3, <1>4, <2>1, <2>2 DEF IsQueue
  <2>4. s[k] # front /\ (s[k] = second <=> k = 2)
    BY <1>1, <1>2, <2>2 DEF IsQueue
  <2>5. i # n - 1 => i + 1 \in 1 .. n - 1 /\ u[i + 1] = s[k + 1]
    <3>1. i # n - 1 => i + 1 \in 1 .. n - 1
      BY <1>1
    <3> QED BY <1>3, <2>1, <3>1
  <2>6. i # 1 => u[i - 1] = s[i]
    <3>1. i # 1 => i - 1 \in 1 .. n - 1 /\ i - 1 + 1 = i
      BY <1>1
    <3> QED BY <1>3, <3>1
  <2>7. r.next[u[i]] = m.next[s[k]]
    BY <1>7, <1>8, <2>3, <2>4
  <2>8. r.prev[u[i]] = IF k = 2 THEN NULL ELSE s[i]
    BY <1>7, <1>8, <2>3, <2>4
  <2> QED BY <2>1, <2>2, <2>3, <2>5, <2>6, <2>7, <2>8
<1>10. \A i, k \in 1 .. n - 1 : u[i] = u[k] => i = k
  <2> SUFFICES ASSUME NEW i \in 1 .. n - 1, NEW k \in 1 .. n - 1, u[i] = u[k] PROVE i = k
    OBVIOUS
  <2>1. i + 1 \in 1 .. n /\ k + 1 \in 1 .. n /\ (i + 1 = k + 1 => i = k)
    BY <1>1
  <2> QED BY <1>1, <1>3, <2>1 DEF IsQueue
<1>11. IsQueue(r, u)
  <2>1. u[1] = second
    BY <1>1, <1>2, <1>3
  <2> QED BY <1>2, <1>3, <1>7, <1>9, <1>10, <2>1 DEF IsQueue
<1>12. OnlyQueueChanges(m, r, s, front)
  <2>1. ASSUME NEW x \in Thread, x # front, NotIn(x, s), Loose(m, x) PROVE Loose(r, x)
    <3>1. x # second
      BY <1>1, <1>2, <2>1 DEF NotIn
    <3> QED BY <1>7, <1>8, <2>1, <3>1 DEF Loose
  <2> QED BY <1>7, <2>1 DEF OnlyQueueChanges
<1>13. Loose(r, front)
  BY <1>5, <1>7, <1>8 DEF Loose
<1> QED BY <1>1, <1>11, <1>12, <1>13

(* yield: the first thread in the queue gets the processor, its links      *)
(* cleared, and the one that had it becomes the last.                      *)
LEMMA YieldOne ==
  ASSUME NEW m, NEW s, NEW t \in Thread, IsQueue(m, s),
         m.fault = "none", Loose(m, t), NotIn(t, s), Len(s) # 0, Yielding(m, t)
  PROVE  /\ IsQueue(mem', Append(Tail(s), t))
         /\ mem'.fault = "none" /\ mem'.head["sem_q"] = m.head["sem_q"]
         /\ curr' = s[1] /\ curr' \in Thread /\ NotIn(curr', Append(Tail(s), t)) /\ Loose(mem', curr')
         /\ \A x \in Thread : x # t /\ NotIn(x, s) /\ Loose(m, x) => Loose(mem', x)
<1>1. PICK n, u, a : n = Len(s) /\ n \in Nat /\ u = Append(s, t) /\ a = AddQueue(m, "thread_queue", t)
  <2>1. Len(s) \in Nat
    BY DEF IsQueue
  <2> QED BY <2>1
<1>2. s \in Seq(Thread) /\ 1 \in 1 .. n /\ s[1] \in Thread /\ n # 0
  <2>1. s \in Seq(Thread) /\ 1 \in 1 .. n
    BY <1>1 DEF IsQueue
  <2> QED BY <1>1, <2>1, ElementOfSeq
<1>3. IsQueue(a, u) /\ OnlyQueueChanges(m, a, s, t)
  BY <1>1, AddOne
<1>4. Len(u) = n + 1 /\ u[n + 1] = t /\ n + 1 # 0 /\ n + 1 # 1 /\ \A i \in 1 .. n : u[i] = s[i]
  BY <1>1, <1>2, AppendProperties
<1>5. mem' = DelQueue(a, "thread_queue") /\ curr' = a.head["thread_queue"]
  BY <1>1 DEF Yielding, Requeued
<1>6. u[1] = s[1] /\ curr' = s[1]
  BY <1>2, <1>3, <1>4, <1>5 DEF IsQueue
<1>7. /\ IsQueue(mem', Tail(u)) /\ OnlyQueueChanges(a, mem', u, s[1]) /\ Loose(mem', s[1])
  BY <1>3, <1>4, <1>5, <1>6, DelOne DEF OnlyQueueChanges
<1>8. Tail(u) = Append(Tail(s), t)
  BY <1>1, <1>2, TailAppend
<1>9. NotIn(s[1], Tail(u))
  <2>1. u \in Seq(Thread) /\ Len(u) # 0
    BY <1>3, <1>4 DEF IsQueue
  <2>2. Len(Tail(u)) = n /\ \A i \in 1 .. n : Tail(u)[i] = u[i + 1]
    <3>1. PICK k : k = Len(u) /\ k - 1 = n
      BY <1>1, <1>4
    <3>2. Len(Tail(u)) = k - 1 /\ \A i \in 1 .. k - 1 : Tail(u)[i] = u[i + 1]
      BY <2>1, <3>1, TailIs
    <3> QED BY <3>1, <3>2
  <2>3. ASSUME NEW i \in 1 .. n PROVE u[i + 1] # u[1]
    <3>1. i + 1 \in 1 .. n + 1 /\ 1 \in 1 .. n + 1 /\ i + 1 # 1
      BY <1>1, <1>2
    <3> QED BY <1>3, <1>4, <3>1 DEF IsQueue
  <2> QED BY <1>6, <2>2, <2>3 DEF NotIn
<1>10. ASSUME NEW x \in Thread, x # t, NotIn(x, s), Loose(m, x) PROVE Loose(mem', x)
  <2>1. Loose(a, x)
    BY <1>3, <1>10 DEF OnlyQueueChanges
  <2>2. x # s[1] /\ NotIn(x, u)
    <3>1. \A i \in 1 .. n + 1 : i \in 1 .. n \/ i = n + 1
      BY <1>1
    <3> QED BY <1>1, <1>2, <1>4, <1>10, <3>1 DEF NotIn
  <2> QED BY <1>7, <2>1, <2>2 DEF OnlyQueueChanges
<1> QED BY <1>2, <1>3, <1>6, <1>7, <1>8, <1>9, <1>10 DEF OnlyQueueChanges
-----------------------------------------------------------------------------
(***************************************************************************)
(* Programs that do not block: the inductive invariant                     *)
(***************************************************************************)
Ready == Content(mem, "thread_queue")

InReady(t) == \E i \in 1 .. Len(Ready) : Ready[i] = t

IInv ==
  /\ IsQueue(mem, Ready)
  /\ Healthy
  /\ mem.head["sem_q"] = NULL
  /\ curr \in TcbPointer /\ counter \in Nat
  /\ created \subseteq Thread /\ inP = {} /\ value \in Int
  /\ \A t \in Thread : InReady(t) <=> t \in created /\ t # curr
  /\ curr # NULL => curr \in created /\ Loose(mem, curr) /\ Len(Ready) # 0

(* How many wait.                                                          *)
LEMMA ReadyCount ==
  ASSUME IInv
  PROVE  /\ {Ready[i] : i \in DOMAIN Ready} = created \ {curr}
         /\ Len(Ready) = Cardinality(created \ {curr})
<1>1. PICK s, n, others : s = Ready /\ n = Len(Ready) /\ others = created \ {curr}
  OBVIOUS
<1>2. s \in Seq(Thread) /\ n = Len(s) /\ n \in Nat
  BY <1>1 DEF IInv, IsQueue
<1>3. \A i \in 1 .. n : s[i] \in Thread
  BY <1>2, ElementOfSeq
<1>4. DOMAIN s = 1 .. n /\ s \in [1 .. n -> Thread]
  BY <1>2
<1>5. {s[i] : i \in 1 .. n} = others
  <2>1. ASSUME NEW i \in 1 .. n PROVE s[i] \in others
    BY <1>1, <1>3, <2>1 DEF IInv, InReady
  <2>2. ASSUME NEW t \in others PROVE \E i \in 1 .. n : s[i] = t
    BY <1>1, <2>2 DEF IInv, InReady
  <2> QED BY <2>1, <2>2
<1>6. s \in Injection(1 .. n, others) /\ s \in Surjection(1 .. n, others)
  <2>1. s \in [1 .. n -> others]
    BY <1>4, <1>5
  <2>2. \A i, k \in 1 .. n : s[i] = s[k] => i = k
    BY <1>1 DEF IInv, IsQueue
  <2>3. \A t \in others : \E i \in 1 .. n : s[i] = t
    BY <1>5
  <2> QED BY <2>1, <2>2, <2>3 DEF Injection, IsInjective, Surjection
<1>7. IsFiniteSet(1 .. n) /\ Cardinality(1 .. n) = n
  <2>1. 1 \in Int /\ n \in Int /\ n - 1 + 1 = n /\ (1 > n => n = 0)
    BY <1>2
  <2>2. IsFiniteSet(1 .. n) /\ Cardinality(1 .. n) = IF 1 > n THEN 0 ELSE n - 1 + 1
    BY <2>1, FS_Interval
  <2> QED BY <2>1, <2>2
<1>8. Cardinality(others) = n
  BY <1>6, <1>7, FS_Surjection
<1> QED BY <1>1, <1>4, <1>5, <1>8

(* A fresh control block is in no queue.                                   *)
Cleared(m, t) == [m EXCEPT !.next[t] = NULL, !.prev[t] = NULL]

LEMMA ClearOne ==
  ASSUME NEW m, NEW s, NEW t \in Thread, IsQueue(m, s), NotIn(t, s)
  PROVE  /\ IsQueue(Cleared(m, t), s) /\ Loose(Cleared(m, t), t)
         /\ Cleared(m, t).fault = m.fault /\ Cleared(m, t).head = m.head
<1> DEFINE c == Cleared(m, t)
<1>1. \A i \in 1 .. Len(s) : s[i] \in Thread /\ s[i] # t
  <2>1. \A i \in 1 .. Len(s) : s[i] \in Thread
    BY ElementOfSeq DEF IsQueue
  <2> QED BY <2>1 DEF NotIn
<1>2. m \in MemType
  BY DEF IsQueue
<1>3. /\ c \in MemType /\ c.fault = m.fault /\ c.head = m.head
      /\ c.next = [m.next EXCEPT ![t] = NULL]
      /\ c.prev = [m.prev EXCEPT ![t] = NULL]
  BY <1>2 DEF MemType, TcbPointer, Cleared
<1>4. m.next \in [Thread -> TcbPointer] /\ m.prev \in [Thread -> TcbPointer]
  BY <1>2 DEF MemType
<1>5. \A x \in Thread : x # t => c.next[x] = m.next[x] /\ c.prev[x] = m.prev[x]
  BY <1>3, <1>4
<1>6. IsQueue(c, s)
  BY <1>1, <1>3, <1>5 DEF IsQueue
<1>7. Loose(c, t)
  BY <1>3, <1>4 DEF Loose
<1> QED BY <1>3, <1>6, <1>7

LEMMA InitInv == Init => IInv
<1> SUFFICES ASSUME Init PROVE IInv
  OBVIOUS
<1>1. mem = [head |-> [q \in Queue |-> NULL], next |-> [t \in Thread |-> NULL],
             prev |-> [t \in Thread |-> NULL], fault |-> "none"]
      /\ curr = NULL /\ counter = InitialValue /\ created = {} /\ inP = {} /\ value = InitialValue
  BY DEF Init, LibInit
<1>2. mem \in MemType /\ mem.head["thread_queue"] = NULL /\ mem.head["sem_q"] = NULL /\ mem.fault = "none"
  BY <1>1 DEF MemType, TcbPointer, Queue
<1>3. IsQueue(mem, <<>>)
  BY <1>2 DEF IsQueue
<1>4. Ready = <<>>
  BY <1>3, QueueContent DEF Ready
<1> QED BY <1>1, <1>2, <1>3, <1>4, ValueAssumption DEF IInv, Healthy, TcbPointer, InReady

(* The queue in the next state.                                            *)
LEMMA ReadyNext ==
  ASSUME NEW s, IsQueue(mem', s) PROVE Ready' = s
<1>1. PICK m : m = mem'
  OBVIOUS
<1>2. Content(m, "thread_queue") = s
  BY <1>1, QueueContent
<1> QED BY <1>1, <1>2 DEF Ready

LEMMA CreateInv == ASSUME IInv, NEW t \in Thread, Create(t) PROVE IInv' /\ Ready' = Append(Ready, t)
<1>1. PICK s, n, c : /\ s = Ready /\ n = Len(s) /\ n \in Nat
                     /\ c = Cleared(mem, t)
  <2>1. Len(Ready) \in Nat
    BY DEF IInv, IsQueue
  <2> QED BY <2>1
<1>2. curr = NULL /\ t \notin created /\ t # NULL /\ created' = created \cup {t} /\ UNCHANGED <<curr, counter, inP, value>>
  BY ThreadAssumption DEF Create, CreateThread
<1>3. mem' = AddQueue(c, "thread_queue", t)
  BY <1>1 DEF Create, CreateThread, Cleared
<1>4. IsQueue(mem, s) /\ NotIn(t, s)
  BY <1>1, <1>2 DEF IInv, NotIn, InReady
<1>5. IsQueue(c, s) /\ Loose(c, t) /\ c.fault = "none" /\ c.head = mem.head
  BY <1>1, <1>4, ClearOne DEF IInv, Healthy
<1>6. IsQueue(mem', Append(s, t)) /\ OnlyQueueChanges(c, mem', s, t)
  BY <1>3, <1>4, <1>5, AddOne
<1>7. Ready' = Append(s, t)
  BY <1>6, ReadyNext
<1>8. PICK u : u = Append(s, t)
  OBVIOUS
<1>9. Len(u) = n + 1 /\ u[n + 1] = t /\ \A i \in 1 .. n : u[i] = s[i]
  BY <1>1, <1>4, <1>8, AppendProperties DEF IsQueue
<1>10. ASSUME NEW x \in Thread PROVE (\E i \in 1 .. n + 1 : u[i] = x) <=> x \in created' /\ x # curr'
  <2>1. (\E i \in 1 .. n + 1 : u[i] = x) <=> (\E i \in 1 .. n : s[i] = x) \/ x = t
    <3>1. \A i \in 1 .. n + 1 : i \in 1 .. n \/ i = n + 1
      BY <1>1
    <3>2. \A i \in 1 .. n : i \in 1 .. n + 1
      BY <1>1
    <3>3. n + 1 \in 1 .. n + 1
      BY <1>1
    <3> QED BY <1>9, <3>1, <3>2, <3>3
  <2> QED BY <1>1, <1>2, <2>1 DEF IInv, InReady
<1>11. mem'.fault = "none" /\ mem'.head["sem_q"] = NULL
  BY <1>5, <1>6 DEF OnlyQueueChanges, IInv
<1> QED BY <1>1, <1>2, <1>6, <1>7, <1>8, <1>9, <1>10, <1>11 DEF IInv, Healthy, InReady

LEMMA StartInv ==
  ASSUME IInv, MinThreads >= 2, Start
  PROVE  IInv' /\ Ready # <<>> /\ curr' = Head(Ready) /\ Ready' = Tail(Ready)
<1>1. PICK s, n : s = Ready /\ n = Len(s) /\ n \in Nat /\ s \in Seq(Thread)
  <2>1. Len(Ready) \in Nat /\ Ready \in Seq(Thread)
    BY DEF IInv, IsQueue
  <2> QED BY <2>1
<1>2. curr = NULL /\ Cardinality(created) >= MinThreads /\ UNCHANGED <<counter, created, inP, value>>
      /\ curr' = mem.head["thread_queue"] /\ mem' = DelQueue(mem, "thread_queue")
  BY DEF Start, Run
<1>3. n >= 2
  <2>1. created \ {curr} = created
    BY <1>2, ThreadAssumption DEF IInv
  <2>2. n = Cardinality(created)
    BY <1>1, <2>1, ReadyCount
  <2> QED BY <1>1, <1>2, <2>2, ValueAssumption
<1>4. n # 0 /\ n # 1 /\ 1 \in 1 .. n /\ IsQueue(mem, s) /\ mem.fault = "none"
  BY <1>1, <1>3 DEF IInv, Healthy
<1>5. IsQueue(mem', Tail(s)) /\ OnlyQueueChanges(mem, mem', s, s[1]) /\ Loose(mem', s[1])
  BY <1>1, <1>2, <1>4, DelOne
<1>6. Ready' = Tail(s)
  BY <1>5, ReadyNext
<1>7. curr' = s[1] /\ s[1] \in Thread
  BY <1>1, <1>2, <1>4, ElementOfSeq DEF IsQueue
<1>8. PICK u : u = Tail(s)
  OBVIOUS
<1>9. Len(u) = n - 1 /\ \A i \in 1 .. n - 1 : u[i] = s[i + 1]
  BY <1>1, <1>4, <1>8, TailIs
<1>10. ASSUME NEW x \in Thread PROVE (\E i \in 1 .. n - 1 : u[i] = x) <=> x \in created /\ x # curr'
  <2>1. (\E i \in 1 .. n - 1 : u[i] = x) <=> (\E i \in 1 .. n : s[i] = x) /\ x # s[1]
    <3>1. ASSUME NEW i \in 1 .. n - 1 PROVE i + 1 \in 1 .. n /\ s[i + 1] # s[1]
      <4>1. i + 1 \in 1 .. n /\ i + 1 # 1
        BY <1>1
      <4> QED BY <1>1, <1>4, <4>1 DEF IsQueue
    <3>2. ASSUME NEW i \in 1 .. n, i # 1 PROVE i - 1 \in 1 .. n - 1 /\ u[i - 1] = s[i]
      <4>1. i - 1 \in 1 .. n - 1 /\ i - 1 + 1 = i
        BY <1>1, <3>2
      <4> QED BY <1>9, <4>1
    <3> QED BY <1>9, <3>1, <3>2
  <2>2. x # NULL
    BY ThreadAssumption
  <2> QED BY <1>1, <1>2, <1>7, <2>1, <2>2 DEF IInv, InReady
<1>11. curr' # NULL /\ curr' \in created /\ n - 1 # 0
  <2>1. InReady(s[1])
    BY <1>1, <1>4 DEF InReady
  <2> QED BY <1>1, <1>3, <1>7, <2>1, ThreadAssumption DEF IInv
<1>12. mem'.fault = "none" /\ mem'.head["sem_q"] = NULL
  BY <1>5 DEF OnlyQueueChanges, IInv
<1>13. s # <<>> /\ Head(s) = s[1]
  BY <1>1, <1>4
<1> QED BY <1>1, <1>2, <1>5, <1>6, <1>7, <1>8, <1>9, <1>10, <1>11, <1>12, <1>13 DEF IInv, Healthy, InReady, TcbPointer

(* A switch: every thread that waited still waits, or runs.                *)
LEMMA SwitchInv ==
  ASSUME IInv, curr # NULL, Yielding(mem, curr), UNCHANGED <<created, inP>>, counter' \in Nat, value' \in Int
  PROVE  IInv' /\ Ready # <<>> /\ curr' = Head(Ready) /\ Ready' = Append(Tail(Ready), curr)
<1>1. PICK s, n, t : s = Ready /\ n = Len(s) /\ n \in Nat /\ s \in Seq(Thread) /\ t = curr
  <2>1. Len(Ready) \in Nat /\ Ready \in Seq(Thread)
    BY DEF IInv, IsQueue
  <2> QED BY <2>1
<1>2. /\ t \in Thread /\ t \in created /\ IsQueue(mem, s) /\ mem.fault = "none" /\ Loose(mem, t)
      /\ NotIn(t, s) /\ n # 0 /\ Yielding(mem, t)
  BY <1>1 DEF IInv, Healthy, NotIn, InReady
<1>3. PICK u : u = Append(Tail(s), t)
  OBVIOUS
<1>4. /\ IsQueue(mem', u) /\ mem'.fault = "none" /\ mem'.head["sem_q"] = NULL
      /\ curr' = s[1] /\ curr' \in Thread /\ NotIn(curr', u) /\ Loose(mem', curr')
  BY <1>1, <1>2, <1>3, YieldOne DEF IInv
<1>5. Ready' = u
  BY <1>4, ReadyNext
<1>6. Len(u) = n /\ u[n] = t /\ \A i \in 1 .. n - 1 : u[i] = s[i + 1]
  <2>1. PICK b : b = Tail(s)
    OBVIOUS
  <2>2. b \in Seq(Thread) /\ Len(b) = n - 1 /\ n - 1 \in Nat /\ \A i \in 1 .. n - 1 : b[i] = s[i + 1]
    BY <1>1, <1>2, <2>1, TailIs
  <2>3. n - 1 + 1 = n
    BY <1>1
  <2> QED BY <1>2, <1>3, <2>1, <2>2, <2>3, AppendProperties
<1>7. ASSUME NEW x \in Thread PROVE (\E i \in 1 .. n : u[i] = x) <=> x \in created /\ x # s[1]
  <2>1. (\E i \in 1 .. n : u[i] = x) <=> ((\E i \in 1 .. n : s[i] = x) \/ x = t) /\ x # s[1]
    <3>1. ASSUME NEW i \in 1 .. n PROVE u[i] # s[1] /\ (u[i] = t \/ \E k \in 1 .. n : s[k] = u[i])
      <4>1. u[i] # s[1]
        BY <1>4, <1>6 DEF NotIn
      <4>2. CASE i = n
        BY <1>6, <4>1, <4>2
      <4>3. CASE i # n
        <5>1. i \in 1 .. n - 1 /\ i + 1 \in 1 .. n
          BY <1>1, <4>3
        <5> QED BY <1>6, <4>1, <5>1
      <4> QED BY <4>2, <4>3
    <3>2. ASSUME NEW i \in 1 .. n, i # 1 PROVE i - 1 \in 1 .. n /\ u[i - 1] = s[i]
      <4>1. i - 1 \in 1 .. n - 1 /\ i - 1 \in 1 .. n /\ i - 1 + 1 = i
        BY <1>1, <3>2
      <4> QED BY <1>6, <4>1
    <3>3. n \in 1 .. n
      BY <1>1, <1>2
    <3> QED BY <1>6, <3>1, <3>2, <3>3
  <2>2. InReady(x) <=> \E i \in 1 .. n : s[i] = x
    BY <1>1 DEF InReady
  <2> QED BY <1>1, <1>2, <2>1, <2>2 DEF IInv
<1>8. curr' \in created /\ curr' # NULL
  <2>1. InReady(s[1])
    <3>1. 1 \in 1 .. n
      BY <1>1, <1>2
    <3> QED BY <1>1, <3>1 DEF InReady
  <2> QED BY <1>4, <2>1, ThreadAssumption DEF IInv
<1>9. s # <<>> /\ Head(s) = s[1]
  BY <1>1, <1>2
<1>10. \A x \in Thread : InReady(x)' <=> x \in created' /\ x # curr'
  BY <1>4, <1>5, <1>6, <1>7 DEF InReady
<1> QED BY <1>1, <1>2, <1>3, <1>4, <1>5, <1>6, <1>8, <1>9, <1>10 DEF IInv, Healthy, TcbPointer

LEMMA StepInv ==
  ASSUME IInv, MinThreads >= 2, ~Contended, [Next]_vars
  PROVE  IInv' /\ [Scheduler!Next]_<<Ready, curr>>
<1>1. ASSUME NEW t \in Thread, Create(t) PROVE IInv' /\ [Scheduler!Next]_<<Ready, curr>>
  <2>1. IInv' /\ Ready' = Append(Ready, t) /\ UNCHANGED curr
    BY <1>1, CreateInv DEF Create, CreateThread
  <2>2. ~InReady(t) /\ t # curr
    BY <1>1, ThreadAssumption DEF IInv, Create
  <2>3. Ready \in Seq(Thread)
    BY DEF IInv, IsQueue
  <2>4. DOMAIN Ready = 1 .. Len(Ready)
    BY <2>3
  <2>5. ~Scheduler!Queued(t)
    BY <2>2, <2>4 DEF Scheduler!Queued, Ready, InReady
  <2>6. Scheduler!Create(t)
    BY <2>1, <2>2, <2>5 DEF Scheduler!Create, Ready
  <2> QED BY <2>1, <2>6 DEF Scheduler!Next
<1>2. ASSUME Start PROVE IInv' /\ [Scheduler!Next]_<<Ready, curr>>
  <2>1. IInv' /\ Ready # <<>> /\ curr' = Head(Ready) /\ Ready' = Tail(Ready)
    BY <1>2, StartInv
  <2>2. Scheduler!Start
    BY <1>2, <2>1 DEF Start, Scheduler!Start, Ready
  <2> QED BY <2>1, <2>2 DEF Scheduler!Next
<1>3. ASSUME curr # NULL, Yielding(mem, curr), UNCHANGED created, inP' = {}, counter' \in Nat, value' \in Int
      PROVE  IInv' /\ [Scheduler!Next]_<<Ready, curr>>
  <2>1. IInv' /\ Ready # <<>> /\ curr' = Head(Ready) /\ Ready' = Append(Tail(Ready), curr)
    BY <1>3, SwitchInv DEF IInv
  <2>2. Scheduler!Switch
    BY <1>3, <2>1 DEF Scheduler!Switch, Ready
  <2> QED BY <2>1, <2>2 DEF Scheduler!Next
<1>4. CASE CallYield
  <2>1. /\ curr # NULL /\ Yielding(mem, curr) /\ UNCHANGED <<created, counter>>
        /\ inP' = inP \ {curr'} /\ (curr' \notin inP => value' = value)
    BY <1>4 DEF CallYield, Yield, Returning
  <2>2. inP' = {} /\ value' \in Int /\ counter' \in Nat
    BY <2>1 DEF IInv
  <2> QED BY <1>3, <2>1, <2>2
<1>5. CASE CallP
  <2>1. counter > 0 /\ counter' = counter - 1 /\ counter \in Nat
    BY <1>5 DEF CallP, P, IInv
  <2>2. ~(counter' < 0) /\ counter' \in Nat
    BY <2>1
  <2>3. UNCHANGED <<mem, curr, created>> /\ inP' = (inP \cup {curr}) \ {curr'}
        /\ value' = IF curr' \in inP \cup {curr} THEN value - 1 ELSE value
    BY <1>5, <2>2 DEF CallP, P, Returning
  <2>4. inP' = {} /\ value' \in Int
    BY <2>3 DEF IInv
  <2>5. Ready' = Ready
    BY <2>3 DEF Ready
  <2>6. IInv'
    BY <2>2, <2>3, <2>4, <2>5 DEF IInv, InReady, Healthy
  <2> QED BY <2>3, <2>5, <2>6
<1>6. CASE CallV
  <2>1. counter' = counter + 1 /\ counter \in Nat
    BY <1>6 DEF CallV, V, IInv
  <2>2. ~(counter' < 1) /\ counter' \in Nat
    BY <2>1
  <2>3. /\ curr # NULL /\ Yielding(mem, curr) /\ UNCHANGED created /\ inP' = inP \ {curr'}
        /\ (curr' \notin inP => value' = value + 1)
    BY <1>6, <2>2 DEF CallV, V, Returning
  <2>4. inP' = {} /\ value' \in Int
    BY <2>3 DEF IInv
  <2> QED BY <1>3, <2>2, <2>3, <2>4
<1>7. CASE UNCHANGED vars
  <2>1. UNCHANGED <<mem, curr, counter, created, inP, value>>
    BY <1>7 DEF vars, libVars
  <2>2. Ready' = Ready
    BY <2>1 DEF Ready
  <2>3. IInv'
    BY <2>1, <2>2 DEF IInv, InReady, Healthy
  <2> QED BY <2>1, <2>2, <2>3
<1> QED BY <1>1, <1>2, <1>4, <1>5, <1>6, <1>7 DEF Next
-----------------------------------------------------------------------------
(***************************************************************************)
(* Theorems                                                                *)
(***************************************************************************)

(* In a program that creates at least two threads and never calls P on a   *)
(* semaphore that is used up, the links of create_thread, run, yield and V *)
(* always make one list, of exactly the threads that do not run.           *)
THEOREM InvCorrect ==
  ASSUME MinThreads >= 2, ~Contended
  PROVE  Spec => []IInv
<1>1. Init => IInv
  BY InitInv
<1>2. IInv /\ [Next]_vars => IInv'
  BY StepInv
<1> QED BY <1>1, <1>2, PTL DEF Spec

LEMMA NobodyLostInInv == ASSUME IInv, ~Contended PROVE NobodyLost
<1>1. PICK s, n : s = Ready /\ n = Len(s) /\ n \in Nat
  <2>1. Len(Ready) \in Nat
    BY DEF IInv, IsQueue
  <2> QED BY <2>1
<1>2. IsQueue(mem, s) /\ Content(mem, "thread_queue") = s /\ Ends(mem, "thread_queue") /\ mem \in MemType
  <2>1. IsQueue(mem, s)
    BY <1>1 DEF IInv
  <2> QED BY <2>1, QueueContent DEF IsQueue
<1>3. TypeOK
  BY <1>2 DEF TypeOK, LibTypeOK, IInv
<1>4. WellFormed("thread_queue")
  <2>1. ASSUME NEW i \in 1 .. n - 1 PROVE mem.prev[s[i + 1]] = s[i]
    <3>1. i + 1 \in 1 .. n /\ i + 1 # 1 /\ i + 1 - 1 = i
      BY <1>1
    <3> QED BY <1>1, <1>2, <3>1 DEF IsQueue
  <2>2. s # <<>> => mem.prev[s[1]] = NULL
    <3>1. s # <<>> => 1 \in 1 .. n
      BY <1>1, <1>2 DEF IsQueue
    <3> QED BY <1>1, <1>2, <3>1 DEF IsQueue
  <2> QED BY <1>1, <1>2, <2>1, <2>2 DEF WellFormed
<1>5. {s[i] : i \in DOMAIN s} = created \ {curr} /\ Len(s) = Cardinality(created \ {curr})
  BY <1>1, ReadyCount
<1>6. Healthy /\ mem.head["sem_q"] = NULL /\ (curr # NULL => curr \in created /\ mem.next[curr] = NULL)
  BY DEF IInv, Loose
<1> QED BY <1>2, <1>3, <1>4, <1>5, <1>6 DEF NobodyLost

(* Nobody is lost or queued twice, and the links agree in both directions. *)
THEOREM NobodyLostCorrect ==
  ASSUME MinThreads >= 2, ~Contended
  PROVE  Spec => []NobodyLost
<1>1. IInv => NobodyLost
  BY NobodyLostInInv
<1> QED BY <1>1, InvCorrect, PTL

(* The linked lists implement first come, first served scheduling: every   *)
(* step of the library is a step of the scheduler, or leaves it alone.     *)
THEOREM RefinesRoundRobin ==
  ASSUME MinThreads >= 2, ~Contended
  PROVE  Spec => ImplementsRoundRobin
<1>1. Init => Scheduler!Init
  <2>1. ASSUME Init PROVE Ready = <<>> /\ curr = NULL
    <3>1. IInv /\ created = {} /\ curr = NULL
      BY <2>1, InitInv DEF Init, LibInit
    <3>2. Ready \in Seq(Thread)
      BY <3>1 DEF IInv, IsQueue
    <3>3. \A i \in 1 .. Len(Ready) : Ready[i] \in Thread
      BY <3>2, ElementOfSeq
    <3>4. ~(1 \in 1 .. Len(Ready))
      BY <3>1, <3>3 DEF IInv, InReady
    <3> QED BY <3>1, <3>2, <3>4
  <2> QED BY <2>1 DEF Scheduler!Init, Ready
<1>2. IInv /\ [Next]_vars => [Scheduler!Next]_<<Ready, curr>>
  BY StepInv
<1>3. [Scheduler!Next]_<<Ready, curr>> => [Scheduler!Next]_<<Content(mem, "thread_queue"), curr>>
  BY DEF Ready
<1>4. IInv /\ [Next]_vars => [Scheduler!Next]_Scheduler!vars
  BY <1>2, <1>3 DEF Scheduler!vars
<1> QED BY <1>1, <1>4, InvCorrect, PTL DEF Spec, ImplementsRoundRobin, Scheduler!Spec
=============================================================================
