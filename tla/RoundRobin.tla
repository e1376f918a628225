----------------------------- MODULE RoundRobin -----------------------------
(***************************************************************************)
(* What a cooperative scheduler promises: the threads that are ready wait  *)
(* in one queue, first come first served.  A switch takes the first of     *)
(* them and puts the thread that was running behind the last.              *)
(***************************************************************************)
EXTENDS Sequences

CONSTANTS Thread, NULL

VARIABLES
  ready,     \* the threads that wait for the processor, in order
  running    \* the thread that has it, NULL before the first

vars == <<ready, running>>

Queued(t) == \E i \in DOMAIN ready : ready[i] = t

Init == ready = <<>> /\ running = NULL

Create(t) ==
  /\ ~Queued(t) /\ t # running
  /\ ready' = Append(ready, t)
  /\ UNCHANGED running

Start ==
  /\ running = NULL
  /\ ready # <<>>
  /\ running' = Head(ready)
  /\ ready' = Tail(ready)

Switch ==
  /\ running # NULL
  /\ ready # <<>>
  /\ running' = Head(ready)
  /\ ready' = Append(Tail(ready), running)

Next == Start \/ Switch \/ \E t \in Thread : Create(t)

Spec == Init /\ [][Next]_vars
=============================================================================
