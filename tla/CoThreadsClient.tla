-------------------------- MODULE CoThreadsClient ---------------------------
(***************************************************************************)
(* Programs on hw6/20170767.h in general: main creates some threads and    *)
(* runs them; the running thread calls yield, P and V in any order it      *)
(* likes.  A program is contended if it calls P when P has to block.       *)
(***************************************************************************)
EXTENDS CoThreads

CONSTANTS
  InitialValue,   \* the argument of sem_create
  MaxCounter,     \* bound on the counter: V is not called beyond it
  MinThreads,     \* how many threads a program creates at least
  Contended       \* may P be called on a semaphore that is not positive?

ASSUME ValueAssumption ==
  InitialValue \in Nat /\ MaxCounter \in Nat /\ MinThreads \in Nat
ASSUME ContendedAssumption == Contended \in BOOLEAN

VARIABLES
  created,   \* the threads created
  inP,       \* the threads whose call of P has switched to another thread
  value      \* InitialValue, minus the P's that returned, plus the V's called

vars == <<libVars, created, inP, value>>

Init ==
  /\ LibInit(InitialValue)
  /\ created = {}
  /\ inP = {}
  /\ value = InitialValue

Create(t) ==
  /\ curr = NULL
  /\ t \notin created
  /\ CreateThread(t)
  /\ created' = created \cup {t}
  /\ UNCHANGED <<inP, value>>

Start ==
  /\ curr = NULL
  /\ Cardinality(created) >= MinThreads
  /\ Run
  /\ UNCHANGED <<created, inP, value>>

(* The thread that is switched to may return from a P it is in.            *)
Returning(waiting, v) ==
  /\ inP' = waiting \ {curr'}
  /\ value' = IF curr' \in waiting THEN v - 1 ELSE v

CallYield ==
  /\ curr # NULL
  /\ Yield
  /\ Returning(inP, value)
  /\ UNCHANGED created

CallP ==
  /\ curr # NULL
  /\ Contended \/ counter > 0
  /\ P
  /\ Returning(inP \cup {curr}, value)
  /\ UNCHANGED created

CallV ==
  /\ curr # NULL
  /\ counter < MaxCounter
  /\ V
  /\ Returning(inP, value + 1)
  /\ UNCHANGED created

Next ==
  /\ Healthy
  /\ \/ \E t \in Thread : Create(t)
     \/ Start \/ CallYield \/ CallP \/ CallV

Spec == Init /\ [][Next]_vars
-----------------------------------------------------------------------------
(* The type invariant.                                                     *)
TypeOK ==
  /\ LibTypeOK
  /\ Contended \/ counter \in Nat
  /\ created \subseteq Thread
  /\ inP \subseteq created
  /\ value \in Int

(* Whatever a program that does not block calls, the state is well typed   *)
(* and every thread it created                                             *)
(* is running or once in thread_queue, whose links agree in both           *)
(* directions; nobody is ever lost or queued twice although addQueue and   *)
(* delQueue each leave some links of the item as they find them.           *)
NobodyLost ==
  /\ TypeOK
  /\ Healthy
  /\ WellFormed("thread_queue")
  /\ LET s == Content(mem, "thread_queue") IN
       /\ Len(s) = Cardinality(created \ {curr})
       /\ {s[i] : i \in DOMAIN s} = created \ {curr}
  /\ mem.head["sem_q"] = NULL
  /\ curr # NULL => curr \in created /\ mem.next[curr] = NULL

(* Lines 116-117: P blocks the caller when the semaphore is used up, so    *)
(* at most InitialValue more P's have returned than V's been called.       *)
SemaphoreNotNegative == value >= 0

Scheduler == INSTANCE RoundRobin WITH
               ready <- Content(mem, "thread_queue"),
               running <- curr

(* The linked lists implement first come, first served scheduling.         *)
ImplementsRoundRobin == Scheduler!Spec
=============================================================================
