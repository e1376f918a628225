---------------------------- MODULE ReaderWriter ----------------------------
(***************************************************************************)
(* hw6/20170767.c on the threads of hw6/20170767.h: readers take one word  *)
(* of the file each into their buffer, the writer prints the buffers.      *)
(* The file is known by how many words it has and whether anything follows *)
(* the last one; word number k is k, an empty buffer holds 0.              *)
(*                                                                         *)
(* fopen succeeded and words are shorter than BUFFER_SIZE.                 *)
(***************************************************************************)
EXTENDS CoThreads

CONSTANTS
  NUM_OF_READER,   \* 3 in the code
  MaxWords         \* bound on the words of the file

ASSUME ReaderAssumption == NUM_OF_READER \in Nat \ {0} /\ MaxWords \in Nat
ASSUME ThreadIdAssumption == Thread = 1 .. NUM_OF_READER + 1

Reader == 1 .. NUM_OF_READER
Writer == NUM_OF_READER + 1

VARIABLES
  words,      \* how many words the file has
  trailing,   \* does white space follow the last one?
  taken,      \* how many words fscanf has taken
  eof,        \* feof(fp)
  buffer,     \* the readers' buffers
  isEOF,
  g_tid,      \* the next thread id, created threads being 1 .. g_tid-1
  pc,         \* where each thread is in its function
  written,    \* the words the writer has printed
  exited      \* has the process ended?

vars == <<libVars, words, trailing, taken, eof, buffer, isEOF, g_tid, pc, written, exited>>
fileVars == <<words, trailing, taken, eof, buffer, isEOF>>

Init ==
  /\ LibInit(1)
  /\ words \in 0 .. MaxWords
  /\ trailing \in BOOLEAN
  /\ taken = 0
  /\ eof = FALSE
  /\ buffer = [r \in Reader |-> 0]
  /\ isEOF = FALSE
  /\ g_tid = 1
  /\ pc = [t \in Thread |-> "P"]
  /\ written = <<>>
  /\ exited = FALSE

Goto(t, label) == pc' = [pc EXCEPT ![t] = label]

(* Fault: the loop of main creates one thread too many.                    *)
CreateThreads_OneTooMany ==
  /\ curr = NULL
  /\ g_tid \in 1 .. Writer + 1
  /\ CreateThread(g_tid)
  /\ g_tid' = g_tid + 1
  /\ UNCHANGED <<fileVars, pc, written, exited>>

(* main creates the readers and then the writer, and runs them.            *)
CreateThreads ==
  /\ curr = NULL
  /\ g_tid \in Thread
  /\ CreateThread(g_tid)
  /\ g_tid' = g_tid + 1
  /\ UNCHANGED <<fileVars, pc, written, exited>>

RunThreads ==
  /\ curr = NULL
  /\ g_tid \notin Thread
  /\ Run
  /\ UNCHANGED <<fileVars, g_tid, pc, written, exited>>

CallP(t) ==
  /\ pc[t] = "P"
  /\ P
  /\ Goto(t, "inside")
  /\ UNCHANGED <<fileVars, g_tid, written, exited>>

(* A reader at the end of the file leaves its loop: its function returns,  *)
(* no context is linked to it (uc_link), and the process exits.            *)
ReaderLeaves(r) ==
  /\ pc[r] = "inside"
  /\ r \in Reader
  /\ eof
  /\ isEOF' = TRUE
  /\ exited' = TRUE
  /\ UNCHANGED <<libVars, words, trailing, taken, eof, buffer, g_tid, pc, written>>

(* Fault: a reader does not call V.                                        *)
Read_NoV(r) ==
  /\ pc[r] = "inside"
  /\ r \in Reader
  /\ ~eof
  /\ IF taken < words
     THEN /\ taken' = taken + 1
          /\ buffer' = [buffer EXCEPT ![r] = taken + 1]
          /\ eof' = (taken + 1 = words /\ ~trailing)
     ELSE /\ eof' = TRUE
          /\ UNCHANGED <<taken, buffer>>
  /\ Goto(r, "P")
  /\ UNCHANGED <<libVars, words, trailing, isEOF, g_tid, written, exited>>

(* fscanf takes the next word; it sees the end of the file when nothing    *)
(* follows the word, or when there is none and the buffer stays as it was. *)
Read(r) ==
  /\ pc[r] = "inside"
  /\ r \in Reader
  /\ ~eof
  /\ IF taken < words
     THEN /\ taken' = taken + 1
          /\ buffer' = [buffer EXCEPT ![r] = taken + 1]
          /\ eof' = (taken + 1 = words /\ ~trailing)
     ELSE /\ eof' = TRUE
          /\ UNCHANGED <<taken, buffer>>
  /\ Goto(r, "V")
  /\ UNCHANGED <<libVars, words, trailing, isEOF, g_tid, written, exited>>

(* Fault: the loop of the writer stops one buffer early.                   *)
Write_OneLess ==
  /\ pc[Writer] = "inside"
  /\ written' = written \o [i \in 1 .. NUM_OF_READER - 1 |-> buffer[i]]
  /\ exited' = isEOF
  /\ Goto(Writer, "V")
  /\ UNCHANGED <<libVars, fileVars, g_tid>>

Write ==
  /\ pc[Writer] = "inside"
  /\ written' = written \o [i \in 1 .. NUM_OF_READER |-> buffer[i]]
  /\ exited' = isEOF
  /\ Goto(Writer, "V")
  /\ UNCHANGED <<libVars, fileVars, g_tid>>

CallV(t) ==
  /\ pc[t] = "V"
  /\ V
  /\ Goto(t, "P")
  /\ UNCHANGED <<fileVars, g_tid, written, exited>>

(* Only the current thread runs.                                           *)
Next ==
  /\ Healthy
  /\ ~exited
  /\ \/ CreateThreads \/ RunThreads
     \/ \E t \in Thread :
          /\ curr = t
          /\ \/ CallP(t) \/ ReaderLeaves(t) \/ Read(t) \/ CallV(t)
             \/ t = Writer /\ Write

Spec == Init /\ [][Next]_vars

(* The process is not stopped.                                             *)
FairSpec == Spec /\ WF_vars(Next)
-----------------------------------------------------------------------------
(* The type invariant.                                                     *)
TypeOK ==
  /\ LibTypeOK
  /\ words \in 0 .. MaxWords
  /\ trailing \in BOOLEAN
  /\ taken \in 0 .. words
  /\ eof \in BOOLEAN
  /\ buffer \in [Reader -> 0 .. words]
  /\ isEOF \in BOOLEAN
  /\ g_tid \in 1 .. Writer + 1
  /\ pc \in [Thread -> {"P", "inside", "V"}]
  /\ written \in Seq(0 .. words)
  /\ exited \in BOOLEAN

(* P never has to block in this program: the semaphore is free whenever a  *)
(* thread is switched to.  (The library's P does not block, so two threads *)
(* inside would be the result of it having to.)                            *)
OneInside ==
  /\ \A t, u \in Thread : pc[t] # "P" /\ pc[u] # "P" => t = u
  /\ mem.head["sem_q"] = NULL

(* The writer prints the file in order: what is printed i-th is word i,    *)
(* but for the last round, where readers past the end of the file leave in *)
(* their buffer what it held a round before.  Only one reader can: the     *)
(* next one finds feof and ends the program.  In the end fewer words than  *)
(* there are readers are lost, those read in the round in which the file   *)
(* ended.                                                                  *)
WrittenInOrder ==
  /\ \A i \in 1 .. Len(written) :
       \/ written[i] = i
       \/ /\ i = words + 1 /\ i = Len(written) /\ (trailing \/ words = 0)
          /\ written[i] = IF i > NUM_OF_READER THEN i - NUM_OF_READER ELSE 0
  /\ exited => taken = words /\ words - Len(written) < NUM_OF_READER

(* The program ends, and not by a fault.                                   *)
Terminates == <>(exited /\ Healthy)
=============================================================================
