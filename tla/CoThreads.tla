------------------------------ MODULE CoThreads -----------------------------
(***************************************************************************)
(* hw6/20170767.h: cooperative threads on ucontext, with one semaphore.    *)
(* Threads switch only inside yield(), so each library call is one action. *)
(*                                                                         *)
(* The queues are what the code makes them: head pointers into control     *)
(* blocks that each have one `next' and one `prev' for whatever queue they *)
(* are in.  `mem' holds the heads and the links.  A NULL that is followed, *)
(* or a walk along `next' that never ends, is a fault: the process is      *)
(* killed, or hangs.                                                       *)
(***************************************************************************)
EXTENDS Integers, Sequences, FiniteSets

CONSTANTS
  Thread,   \* the control blocks
  NULL

ASSUME ThreadAssumption == IsFiniteSet(Thread) /\ NULL \notin Thread

VARIABLES
  mem,       \* queue heads, links, fault
  curr,      \* curr_thread
  counter    \* the semaphore's counter

libVars == <<mem, curr, counter>>

Queue == {"thread_queue", "sem_q"}
TcbPointer == Thread \cup {NULL}

(* The control block `n' links down a queue, NULL from its end on.         *)
Walk(m, q) ==
  LET w[n \in 0 .. Cardinality(Thread)] ==
        IF n = 0 THEN m.head[q]
        ELSE IF w[n - 1] = NULL THEN NULL ELSE m.next[w[n - 1]]
  IN  w

Ends(m, q) == \E n \in DOMAIN Walk(m, q) : Walk(m, q)[n] = NULL

(* The control blocks of a queue that ends, in order.                      *)
Content(m, q) ==
  LET w == Walk(m, q)
      length == CHOOSE n \in DOMAIN w : w[n] = NULL /\ \A k \in 0 .. (n - 1) : w[k] # NULL
  IN  [i \in 1 .. length |-> w[i - 1]]

Rear(m, q) == Content(m, q)[Len(Content(m, q))]

Fault(m, kind) == [m EXCEPT !.fault = kind]

(* Fault: the back link of the item is not set (line 34).                  *)
AddQueue_NoPrev(m, q, item) ==
  IF m.fault # "none" THEN m
  ELSE IF m.head[q] = NULL THEN [m EXCEPT !.head[q] = item]
  ELSE IF ~Ends(m, q) THEN Fault(m, "endless")
  ELSE [m EXCEPT !.next[Rear(m, q)] = item]

(* Fault: the item is queued in front.                                     *)
AddQueue_InFront(m, q, item) ==
  IF m.fault # "none" THEN m
  ELSE IF m.head[q] = NULL THEN [m EXCEPT !.head[q] = item]
  ELSE [m EXCEPT !.next[item] = m.head[q], !.prev[m.head[q]] = item, !.head[q] = item]

(* item->next is left as it is: callers pass an item that is in no queue,  *)
(* P passes one it is about to queue again.                                *)
AddQueue(m, q, item) ==
  IF m.fault # "none" THEN m
  ELSE IF m.head[q] = NULL THEN [m EXCEPT !.head[q] = item]
  ELSE IF ~Ends(m, q) THEN Fault(m, "endless")
  ELSE [m EXCEPT !.next[Rear(m, q)] = item, !.prev[item] = Rear(m, q)]

(* The item deleted is m.head[q].  The test on line 41 is of the pointer   *)
(* to the head, so an empty queue, and one whose only item is deleted, end *)
(* in a NULL that is followed (lines 45 and 46).                           *)
DelQueue(m, q) ==
  LET front == m.head[q] IN
    IF m.fault # "none" THEN m
    ELSE IF front = NULL \/ m.next[front] = NULL THEN Fault(m, "null")
    ELSE [m EXCEPT !.prev[m.next[front]] = NULL,
                   !.next[front] = NULL,
                   !.head[q] = m.next[front]]

(* What yield does to the queues, and the thread it switches to.           *)
Requeued(m, t) == AddQueue(m, "thread_queue", t)

Yielding(m, t) ==
  /\ mem' = DelQueue(Requeued(m, t), "thread_queue")
  /\ curr' = Requeued(m, t).head["thread_queue"]

LibInit(value) ==
  /\ mem = [head |-> [q \in Queue |-> NULL], next |-> [t \in Thread |-> NULL],
            prev |-> [t \in Thread |-> NULL], fault |-> "none"]
  /\ curr = NULL
  /\ counter = value

Healthy == mem.fault = "none"

(* create_thread: t is a fresh control block, its links cleared.           *)
CreateThread(t) ==
  /\ mem' = AddQueue([mem EXCEPT !.next[t] = NULL, !.prev[t] = NULL], "thread_queue", t)
  /\ UNCHANGED <<curr, counter>>

Run ==
  /\ curr' = mem.head["thread_queue"]
  /\ mem' = DelQueue(mem, "thread_queue")
  /\ UNCHANGED counter

Yield == Yielding(mem, curr) /\ UNCHANGED counter

(* P: below zero the caller is queued on the semaphore and yields, which   *)
(* queues it on thread_queue as well.                                      *)
P ==
  /\ counter' = counter - 1
  /\ IF counter' < 0
     THEN Yielding(AddQueue(mem, "sem_q", curr), curr)
     ELSE UNCHANGED <<mem, curr>>

(* Fault: V yields but does not count.                                     *)
V_NotCounted == Yielding(mem, curr) /\ UNCHANGED counter

V ==
  /\ counter' = counter + 1
  /\ IF counter' < 1
     THEN Yielding(AddQueue(DelQueue(mem, "sem_q"), "thread_queue", mem.head["sem_q"]), curr)
     ELSE Yielding(mem, curr)
-----------------------------------------------------------------------------
MemType ==
  [head : [Queue -> TcbPointer], next : [Thread -> TcbPointer],
   prev : [Thread -> TcbPointer], fault : {"none", "null", "endless"}]

LibTypeOK == mem \in MemType /\ curr \in TcbPointer /\ counter \in Int

(* A queue as a doubly linked list: it ends, prev undoes next, and nothing *)
(* comes before its head.                                                  *)
WellFormed(q) ==
  /\ Ends(mem, q)
  /\ LET s == Content(mem, q) IN
       /\ \A i \in 1 .. (Len(s) - 1) : mem.prev[s[i + 1]] = s[i]
       /\ s # <<>> => mem.prev[s[1]] = NULL

InQueue(t, q) == \E n \in DOMAIN Walk(mem, q) : Walk(mem, q)[n] = t
=============================================================================
