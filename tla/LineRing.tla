------------------------------ MODULE LineRing ------------------------------
(***************************************************************************)
(* What a ring of processes that share one open file promises, whatever    *)
(* the pipe protocol that realises it: the processes print the file in     *)
(* order, one line each, in ring order starting with the process at        *)
(* position 0, and once all of it is printed they leave from the last      *)
(* position down to position 0.                                            *)
(*                                                                         *)
(* Both programs of the third assignment (hw3 and its model answer) are    *)
(* shown to implement this specification.                                  *)
(***************************************************************************)
EXTENDS Integers, Sequences

CONSTANTS
  N,      \* the last position of the ring: there are N + 1 processes
  Files   \* the files the program may be started on: sequences in which
          \* "nl" is the newline that ends a line

VARIABLES
  file,   \* the content of the file, fixed at the start
  taken,  \* how many bytes of it have been printed
  turn,   \* the position whose turn it is to print
  gone    \* the positions that have left the ring

vars == <<file, taken, turn, gone>>

Position == 0 .. N

Succ(p) == IF p = N THEN 0 ELSE p + 1

Init ==
  /\ file \in Files
  /\ taken = 0
  /\ turn = 0
  /\ gone = {}

(* The process whose turn it is prints some of its line; the newline ends  *)
(* its turn.                                                               *)
Take(p) ==
  /\ turn = p
  /\ \E k \in (taken + 1) .. Len(file) :
       /\ \A i \in (taken + 1) .. (k - 1) : file[i] # "nl"
       /\ taken' = k
       /\ turn' = IF file[k] = "nl" THEN Succ(p) ELSE p
  /\ UNCHANGED <<file, gone>>

(* A process leaves once everything is printed and every later position   *)
(* of the ring is gone.                                                    *)
Leave(p) ==
  /\ taken = Len(file)
  /\ p \notin gone
  /\ (p + 1) .. N \subseteq gone
  /\ gone' = gone \cup {p}
  /\ UNCHANGED <<file, taken, turn>>

Next == \E p \in Position : Take(p) \/ Leave(p)

Spec == Init /\ [][Next]_vars
=============================================================================
