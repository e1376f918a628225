----------------------------- MODULE Answer3Ring ----------------------------
(***************************************************************************)
(* Correct_Answer/Assignment3: the model answer to the same exercise as    *)
(* hw3.  SIZ processes read one shared file in turns, a line each; process *)
(* 0 is the parent, 1 .. SIZ-1 are its children.  Process p reads pipe p.  *)
(* `pass' hands the turn to the right, `done' goes round twice (once to    *)
(* get everybody out of the first loop, once up to the last child) and     *)
(* `end' comes back to the left, each process leaving as it passes.        *)
(*                                                                         *)
(* Unlike hw3 the processes close the pipe ends they do not use, so who    *)
(* holds which end is part of the state: a read of an empty pipe without   *)
(* writers returns 0 and leaves the buffer as it was, a write to a pipe    *)
(* without readers kills the writer.  read() takes up to BUFSIZ bytes,     *)
(* that is all messages in the pipe.                                       *)
(*                                                                         *)
(* Lines are shorter than BUFSIZ, as the comment on readFile requires.     *)
(***************************************************************************)
EXTENDS Integers, Sequences, FiniteSets, SequencesExt

CONSTANTS
  SIZ,          \* number of processes, 5 in the code
  Files,        \* the files the program may be started on
  Tails,        \* what pipeReadBuf[4] may hold before the first read
  MaxFailures   \* how many of the forks may fail; the code does not look

Byte == {"ch", "nl"}

(* With three processes a child killed for want of its right neighbour and *)
(* a parent that reads an end of file do without a second missing child.   *)
ASSUME SIZAssumption == SIZ \in Nat /\ SIZ > 3
ASSUME FilesAssumption == Files \subseteq Seq(Byte)
ASSUME TailsAssumption == Tails \subseteq {"zero", "junk"}
ASSUME MaxFailuresAssumption == MaxFailures \in Nat

VARIABLES
  file,       \* the content of the file
  cursor,     \* its offset, shared by all processes through fork
  forked,     \* the next child to fork (`i' of the parent's loop)
  tail,       \* pipeReadBuf[4]: never initialised before the second loop
  pc,         \* where each process is in main()
  got,        \* what pipeReadBuf of each process says
  line,       \* fileReadBuf of each process: offsets of the bytes it holds
  pipe,       \* the messages in each pipe
  open,       \* the pipe ends each process has open
  printed,    \* <<process, offset>> of each byte printed, in output order
  announced   \* who printed "I'm exiting...", in output order

vars == <<file, cursor, forked, tail, pc, got, line, pipe, open, printed, announced>>
fileVars == <<file, cursor, line>>
output == <<printed, announced>>

Proc == 0 .. SIZ - 1
LastChild == SIZ - 1
Right(p) == (p + 1) % SIZ   \* myPipeWriteNum

Message == {"pass", "done", "end"}
PipeEnd == {"READ", "WRITE"} \X Proc

Goto(p, label) == pc' = [pc EXCEPT ![p] = label]

Init ==
  /\ file \in Files
  /\ cursor = 0
  /\ forked = 1
  /\ tail \in Tails
  /\ pc = [p \in Proc |-> IF p = 0 THEN "fork" ELSE "unborn"]
  /\ got = [p \in Proc |-> "none"]
  /\ line = [p \in Proc |-> <<>>]
  /\ pipe = [p \in Proc |-> <<>>]
  /\ open = [p \in Proc |-> IF p = 0 THEN PipeEnd ELSE {}]
  /\ printed = <<>>
  /\ announced = <<>>

(* Fault: the fork loop runs to SIZ instead of SIZ-1.                      *)
Fork_OneTooMany ==
  /\ pc[0] = "fork"
  /\ forked <= SIZ
  /\ forked' = forked + 1
  /\ pc' = [p \in Proc |-> IF p = forked THEN "close" ELSE pc[p]]
  /\ open' = [p \in Proc |-> IF p = forked THEN open[0] ELSE open[p]]
  /\ UNCHANGED <<tail, got, pipe, fileVars, output>>

(* fork() in the parent: the child inherits every pipe end.                *)
Fork ==
  /\ pc[0] = "fork"
  /\ forked < SIZ
  /\ forked' = forked + 1
  /\ \/ /\ Goto(forked, "close")
        /\ open' = [open EXCEPT ![forked] = open[0]]
     \/ /\ Cardinality({p \in Proc : pc[p] = "absent"}) < MaxFailures
        /\ Goto(forked, "absent")
        /\ UNCHANGED open
  /\ UNCHANGED <<tail, got, pipe, fileVars, output>>

ForksDone ==
  /\ pc[0] = "fork"
  /\ forked = SIZ
  /\ Goto(0, "close")
  /\ UNCHANGED <<forked, tail, got, pipe, open, fileVars, output>>

(* Fault: a process keeps the wrong end of its own pipe.                   *)
Kept_WrongEnd(p) == {<<"WRITE", p>>, <<"WRITE", Right(p)>>} \cup {<<"WRITE", i>> : i \in {p - 1} \cap Proc}

(* What pipeClose leaves open: the process reads its own pipe, writes to   *)
(* the right and, a child, to the left.                                    *)
Kept(p) == {<<"READ", p>>, <<"WRITE", Right(p)>>} \cup {<<"WRITE", i>> : i \in {p - 1} \cap Proc}

(* Fault: children read the file before they wait for their turn.          *)
PipeClose_NoWait(p) ==
  /\ pc[p] = "close"
  /\ open' = [open EXCEPT ![p] = @ \cap Kept(p)]
  /\ Goto(p, "line")
  /\ UNCHANGED <<forked, tail, got, pipe, fileVars, output>>

PipeClose(p) ==
  /\ pc[p] = "close"
  /\ open' = [open EXCEPT ![p] = @ \cap Kept(p)]
  /\ Goto(p, IF p = 0 THEN "line" ELSE "read1")
  /\ UNCHANGED <<forked, tail, got, pipe, fileVars, output>>

(* readFile: bytes up to a newline are read one by one; then one more byte *)
(* is read to see whether the file has ended, and given back with lseek.   *)
ReadByte(p) ==
  /\ pc[p] = "line"
  /\ cursor < Len(file)
  /\ cursor' = cursor + 1
  /\ line' = [line EXCEPT ![p] = Append(@, cursor + 1)]
  /\ Goto(p, IF file[cursor + 1] = "nl" THEN "peek" ELSE "line")
  /\ UNCHANGED <<file, forked, tail, got, pipe, open, output>>

Peek(p) ==
  /\ pc[p] = "peek"
  /\ cursor < Len(file)
  /\ cursor' = cursor + 1
  /\ Goto(p, "rewind")
  /\ UNCHANGED <<file, line, forked, tail, got, pipe, open, output>>

(* Fault: the lseek is forgotten.                                          *)
Rewind_Forgotten(p) ==
  /\ pc[p] = "rewind"
  /\ Goto(p, "printLine")
  /\ UNCHANGED <<fileVars, forked, tail, got, pipe, open, output>>

Rewind(p) ==
  /\ pc[p] = "rewind"
  /\ cursor' = cursor - 1
  /\ Goto(p, "printLine")
  /\ UNCHANGED <<file, line, forked, tail, got, pipe, open, output>>

(* readFile returns -1: the file ended before or right after a newline.    *)
ReadEnd(p) ==
  /\ pc[p] \in {"line", "peek"}
  /\ cursor = Len(file)
  /\ Goto(p, "printLast")
  /\ UNCHANGED <<forked, tail, got, pipe, open, fileVars, output>>

PrintLine(p) ==
  /\ pc[p] \in {"printLine", "printLast"}
  /\ printed' = printed \o [i \in 1 .. Len(line[p]) |-> <<p, line[p][i]>>]
  /\ line' = [line EXCEPT ![p] = <<>>]
  /\ Goto(p, IF pc[p] = "printLine" THEN "sendPass" ELSE "sendDone")
  /\ UNCHANGED <<file, cursor, forked, tail, got, pipe, open, announced>>

(* write(): without any reader of the pipe SIGPIPE ends the process.       *)
Writes(p, j, m, next) ==
  /\ <<"WRITE", j>> \in open[p]
  /\ IF \E q \in Proc : <<"READ", j>> \in open[q]
     THEN /\ pipe' = [pipe EXCEPT ![j] = Append(@, m)]
          /\ Goto(p, next)
          /\ UNCHANGED open
     ELSE /\ Goto(p, "killed")
          /\ open' = [open EXCEPT ![p] = {}]
          /\ UNCHANGED pipe
  /\ UNCHANGED <<forked, tail, got, fileVars, output>>

SendPass(p) == pc[p] = "sendPass" /\ Writes(p, Right(p), "pass", "read1")
SendDone(p) == pc[p] = "sendDone" /\ Writes(p, Right(p), "done", "read2")
SendEnd(p) == pc[p] = "sendEnd" /\ Writes(p, p - 1, "end", "free")

(* read() of the process's own pipe returns `m'.  Messages that have run   *)
(* together match nothing; an end of file leaves `old' in the buffer.      *)
Reads(p, m, old) ==
  \/ /\ pipe[p] # <<>>
     /\ m = IF Len(pipe[p]) = 1 THEN Head(pipe[p]) ELSE "none"
     /\ pipe' = [pipe EXCEPT ![p] = <<>>]
  \/ /\ pipe[p] = <<>>
     /\ \A q \in Proc : <<"WRITE", p>> \notin open[q]
     /\ m = old
     /\ UNCHANGED pipe

(* Fault: the last child leaves at the first `done' already.               *)
FirstLoop_LastLeaves(p) ==
  /\ pc[p] = "read1"
  /\ \E m \in Message \cup {"none"} :
       /\ Reads(p, m, got[p])
       /\ got' = [got EXCEPT ![p] = m]
       /\ Goto(p, CASE m = "pass" /\ tail = "zero" -> "line"
                    [] m = "done" /\ tail = "zero" ->
                         IF p = LastChild THEN "announce" ELSE "sendDone"
                    [] OTHER -> IF p = 0 THEN "line" ELSE "error")
  /\ UNCHANGED <<forked, tail, open, fileVars, output>>

(* The first loop compares the buffer as a string: a message is recognised *)
(* only if the byte after it is zero.  What it does not recognise sends a  *)
(* child to its error branch and the parent to the next line of the file.  *)
FirstLoop(p) ==
  /\ pc[p] = "read1"
  /\ \E m \in Message \cup {"none"} :
       /\ Reads(p, m, got[p])
       /\ got' = [got EXCEPT ![p] = m]
       /\ Goto(p, CASE m = "pass" /\ tail = "zero" -> "line"
                    [] m = "done" /\ tail = "zero" -> "sendDone"
                    [] OTHER -> IF p = 0 THEN "line" ELSE "error")
  /\ UNCHANGED <<forked, tail, open, fileVars, output>>

ReportError(p) ==
  /\ pc[p] = "error"
  /\ Goto(p, "read1")
  /\ UNCHANGED <<forked, tail, got, pipe, open, fileVars, output>>

(* Fault: `myPipeNum == SIZ - 1' is dropped, any child leaves at `done'.   *)
SecondLoop_AnyFirst(p) ==
  /\ pc[p] = "read2"
  /\ \E m \in Message \cup {"none"} :
       /\ Reads(p, m, "none")
       /\ got' = [got EXCEPT ![p] = m]
       /\ Goto(p, CASE m = "done" -> IF p = 0 THEN "sendDone" ELSE "announce"
                    [] m = "end" -> "announce"
                    [] OTHER -> "read2")
  /\ UNCHANGED <<forked, tail, open, fileVars, output>>

(* Fault: the branch of the first process to exit is never taken.          *)
SecondLoop_NoneFirst(p) ==
  /\ pc[p] = "read2"
  /\ \E m \in Message \cup {"none"} :
       /\ Reads(p, m, "none")
       /\ got' = [got EXCEPT ![p] = m]
       /\ Goto(p, CASE m = "done" -> "sendDone"
                    [] m = "end" -> "announce"
                    [] OTHER -> "read2")
  /\ UNCHANGED <<forked, tail, open, fileVars, output>>

(* The second loop clears the buffer before each read.                     *)
SecondLoop(p) ==
  /\ pc[p] = "read2"
  /\ \E m \in Message \cup {"none"} :
       /\ Reads(p, m, "none")
       /\ got' = [got EXCEPT ![p] = m]
       /\ Goto(p, CASE m = "done" -> IF p = LastChild THEN "announce" ELSE "sendDone"
                    [] m = "end" -> "announce"
                    [] OTHER -> "read2")
  /\ UNCHANGED <<forked, tail, open, fileVars, output>>

Announce(p) ==
  /\ pc[p] = "announce"
  /\ announced' = Append(announced, p)
  /\ Goto(p, IF p = 0 THEN "free" ELSE "sendEnd")
  /\ UNCHANGED <<forked, tail, got, pipe, open, fileVars, printed>>

(* freeAll closes pipe SIZ-1 in a child (pid is 0 there) and pipeDis[-1],  *)
(* which is no pipe end, in the parent.                                    *)
FreeAll(p) ==
  /\ pc[p] = "free"
  /\ open' = [open EXCEPT ![p] = @ \ {<<"READ", p>>, <<"WRITE", IF p = 0 THEN -1 ELSE SIZ - 1>>}]
  /\ Goto(p, "return")
  /\ UNCHANGED <<forked, tail, got, pipe, fileVars, output>>

Return(p) ==
  /\ pc[p] = "return"
  /\ open' = [open EXCEPT ![p] = {}]
  /\ Goto(p, "exited")
  /\ UNCHANGED <<forked, tail, got, pipe, fileVars, output>>

Step(p) ==
  \/ p = 0 /\ (Fork \/ ForksDone)
  \/ PipeClose(p)
  \/ ReadByte(p) \/ Peek(p) \/ Rewind(p) \/ ReadEnd(p) \/ PrintLine(p)
  \/ SendPass(p) \/ SendDone(p) \/ SendEnd(p)
  \/ FirstLoop(p) \/ ReportError(p) \/ SecondLoop(p)
  \/ Announce(p) \/ FreeAll(p) \/ Return(p)

Next == \E p \in Proc : Step(p)

Spec == Init /\ [][Next]_vars

(* The kernel keeps running every process that is not blocked.             *)
FairSpec == Spec /\ \A p \in Proc : WF_vars(Step(p))
-----------------------------------------------------------------------------
(***************************************************************************)
(* Properties                                                              *)
(***************************************************************************)
Label == {"unborn", "absent", "fork", "close", "line", "peek", "rewind",
          "printLine", "printLast", "sendPass", "sendDone", "sendEnd", "read1",
          "read2", "error", "announce", "free", "return", "exited", "killed"}

(* The type invariant.                                                     *)
TypeOK ==
  /\ file \in Files
  /\ cursor \in 0 .. Len(file)
  /\ forked \in 1 .. SIZ
  /\ tail \in Tails
  /\ pc \in [Proc -> Label]
  /\ got \in [Proc -> Message \cup {"none"}]
  /\ line \in [Proc -> Seq(1 .. Len(file))]
  /\ pipe \in [Proc -> Seq(Message)]
  /\ open \in [Proc -> SUBSET PipeEnd]
  /\ printed \in Seq(Proc \X (1 .. Len(file)))
  /\ announced \in Seq(Proc)

FirstLoopOf(p) == pc[p] \in {"line", "peek", "rewind", "printLine", "printLast",
                             "sendPass", "read1", "error"}
Busy(p) == pc[p] \in {"line", "peek", "rewind", "printLine", "printLast",
                      "sendPass", "sendDone", "announce", "sendEnd"}
InCharge(p) == pipe[p] # <<>> \/ Busy(p)

(* At most one fork has failed.  With two or more a pipe may be without    *)
(* any writer, and a stale message then starts a second turn.              *)
Few == Cardinality({p \in Proc : pc[p] = "absent"}) <= 1

(* One process at a time has the turn, from the first line to the last     *)
(* `end', even when a fork has failed: the shared offset is never moved    *)
(* while another process is between its look-ahead read and the lseek that *)
(* undoes it (readFile).                                                   *)
OneInCharge == Few => \A p, q \in Proc : InCharge(p) /\ InCharge(q) => p = q

(* The bytes of the file come out once each and in order, and line by line *)
(* in ring order: process 0 prints the first, a process's right neighbour  *)
(* the line after its own.                                                 *)
LinesInTurn ==
  Few => \A i \in 1 .. Len(printed) :
    /\ printed[i][2] = i
    /\ printed[i][1] = IF i = 1 THEN 0
                       ELSE IF file[i - 1] = "nl" THEN Right(printed[i - 1][1])
                       ELSE printed[i - 1][1]

(* By the time a process announces its exit, `done' has taken every other  *)
(* one out of its first loop, so no `end' is read there (it would go to    *)
(* the error branch and be lost), and the file is printed to the end.      *)
NobodyLeftBehind ==
  announced # <<>> \/ (\E p \in Proc : pc[p] = "announce") =>
    /\ \A p \in Proc : ~FirstLoopOf(p)
    /\ Len(printed) = Len(file)

(* With all its children the program never writes to a pipe that has lost  *)
(* its reader and never takes the end of a pipe for an answer, although    *)
(* pipeClose, freeAll and the exits close the ends one by one while others *)
(* still read and write.                                                   *)
NoBrokenPipe ==
  (\A p \in Proc : pc[p] # "absent") =>
    \A p \in Proc :
      /\ pc[p] # "killed"
      /\ pc[p] \in {"read1", "read2"} /\ pipe[p] = <<>> =>
           \E q \in Proc : <<"WRITE", p>> \in open[q]

(* All forks succeed, and the uninitialised buffer is harmless.            *)
Lucky == (\A p \in Proc : pc[p] # "absent") /\ tail = "zero"

(* With that luck every process ends, and so all of the file is printed    *)
(* (LineRing lets nobody leave before).                                    *)
AllExit == []Lucky => <>(\A p \in Proc : pc[p] = "exited")

(* assignment3.c:111: what a child reads is `pass' or `done'; anything     *)
(* else is an error.                                                       *)
NoErrorReported == \A p \in Proc : pc[p] # "error"

(***************************************************************************)
(* Refinement of the abstract ring: positions are the processes.  Nothing  *)
(* is claimed of a ring that lacks two or more children; forks fail before *)
(* anything is printed.                                                    *)
(***************************************************************************)
Turn ==
  IF printed = <<>> THEN 0
  ELSE LET b == Last(printed)
       IN  IF file[b[2]] = "nl" THEN Right(b[1]) ELSE b[1]

Ring == INSTANCE LineRing WITH
          N <- SIZ - 1,
          taken <- IF Few THEN Len(printed) ELSE 0,
          turn <- IF Few THEN Turn ELSE 0,
          gone <- IF Few THEN Range(announced) ELSE {}

(* What is printed and who leaves when is what LineRing allows.            *)
ImplementsLineRing == Ring!Spec
=============================================================================
