-------------------------- MODULE Answer3RingProofs -------------------------
(***************************************************************************)
(* Proofs about Answer3Ring, for every number of processes, every set of   *)
(* files, whatever the uninitialised byte holds and however many forks     *)
(* fail.  IInv is the inductive invariant: the turn, as a message or as a  *)
(* process at work, is in one place of one phase of the run (OneTurn), or  *)
(* two children are missing, the parent has taken an end of file for an    *)
(* answer and nobody ever leaves (Silent).                                 *)
(***************************************************************************)
EXTENDS Answer3Ring, SequenceTheorems, FiniteSetTheorems, TLAPS

USE SIZAssumption, FilesAssumption, TailsAssumption, MaxFailuresAssumption
-----------------------------------------------------------------------------
(***************************************************************************)
(* The inductive invariant                                                 *)
(***************************************************************************)
(* The pipe ends process p has open at a place of main.                    *)
Held(p, label) ==
  CASE label \in {"fork", "close"} -> PipeEnd
    [] label \in {"unborn", "absent", "killed", "exited"} -> {}
    [] label = "return" -> Kept(p) \ {<<"READ", p>>, <<"WRITE", IF p = 0 THEN -1 ELSE SIZ - 1>>}
    [] OTHER -> Kept(p)

Ends == \A p \in Proc : open[p] = Held(p, pc[p])

(* Every look-ahead byte is still to be given back.                        *)
LookAhead == Cardinality({p \in Proc : pc[p] = "rewind"}) <= cursor

(* The order of LinesInTurn.                                               *)
Ordered ==
  \A i \in 1 .. Len(printed) :
    /\ printed[i][2] = i
    /\ printed[i][1] = IF i = 1 THEN 0
                       ELSE IF file[i - 1] = "nl" THEN Right(printed[i - 1][1])
                       ELSE printed[i - 1][1]

(* A message can only be repeated (Reads, end of file) by who had one, and *)
(* the left neighbour it came from still keeps the pipe open.              *)
Fresh ==
  \A p \in Proc : got[p] # "none" =>
    /\ pc[p] # "absent"
    /\ tail = "zero" /\ p # 0 => pc[p - 1] \notin {"absent", "killed"}

(* Waiting in the first loop; the parent is always there.                  *)
Parked(p) == pc[p] \in IF p = 0 THEN {"read1"} ELSE {"absent", "close", "read1", "error"}

Leaving == {"announce", "sendEnd", "free", "return", "exited"}
Gone == {"free", "return", "exited"}

Starting ==
  /\ pc[0] \in {"fork", "close"} /\ (pc[0] = "close" => forked = SIZ)
  /\ \A p \in Proc \ {0} : pc[p] \in IF p < forked THEN {"absent", "close", "read1"} ELSE {"unborn"}
  /\ \A p \in Proc : pipe[p] = <<>> /\ line[p] = <<>> /\ got[p] = "none"
  /\ cursor = 0 /\ printed = <<>>

(* The line of p goes from the last byte printed to c.                     *)
Gathered(p, c) ==
  /\ c >= Len(printed)
  /\ line[p] = [i \in 1 .. c - Len(printed) |-> Len(printed) + i]
  /\ \A i \in Len(printed) + 1 .. c - 1 : file[i] # "nl"

WholeLine(p, c) == Gathered(p, c) /\ c > Len(printed) /\ file[c] = "nl"

Reading(p) ==
  /\ \/ pc[p] = "line" /\ Gathered(p, cursor) /\ (cursor > Len(printed) => file[cursor] # "nl")
     \/ pc[p] \in {"peek", "printLine"} /\ WholeLine(p, cursor)
     \/ pc[p] = "rewind" /\ WholeLine(p, cursor - 1)
     \/ pc[p] = "printLast" /\ Gathered(p, cursor) /\ cursor = Len(file)
  /\ Turn = p

(* `pass' is in pipe j, or j has the turn.  Without a zero behind it the   *)
(* message gets no further than to child 1.                                *)
Passing(j) ==
  /\ \A q \in Proc \ {j} : pipe[q] = <<>> /\ line[q] = <<>> /\ Parked(q)
  /\ \/ /\ pipe[j] = <<"pass">> /\ line[j] = <<>> /\ Parked(j)
        /\ Turn = j /\ cursor = Len(printed)
        /\ j # 0 => pc[j - 1] # "absent"
        /\ tail = "junk" => j = 1
     \/ /\ pipe[j] = <<>>
        /\ \/ Reading(j)
           \/ pc[j] = "sendPass" /\ line[j] = <<>> /\ Turn = Right(j) /\ cursor = Len(printed)
        /\ tail = "junk" => j = 0

AllPrinted == Len(printed) = Len(file)

(* Who has left the first loop when `done', first sent by d, is at j.      *)
Broke(d, j) == {q \in Proc : IF d <= j THEN d <= q /\ q < j ELSE d <= q \/ q < j}

FirstRound(d, j) ==
  /\ AllPrinted
  /\ \A q \in Proc \ {j} : /\ pipe[q] = <<>>
                           /\ IF q \in Broke(d, j) THEN pc[q] = "read2" ELSE Parked(q)
  /\ \/ /\ j # d /\ pipe[j] = <<"done">> /\ Parked(j)
        /\ tail = "junk" => j = 1
     \/ /\ pipe[j] = <<>> /\ pc[j] = "sendDone"
        /\ tail = "junk" => j = 0

SecondRound(j) ==
  /\ AllPrinted
  /\ \A q \in Proc \ {j} : pipe[q] = <<>> /\ pc[q] = "read2"
  /\ \/ pipe[j] = <<"done">> /\ pc[j] = "read2"
     \/ pipe[j] = <<>> /\ pc[j] = "sendDone" /\ j # LastChild

Ending(j) ==
  /\ AllPrinted
  /\ \A q \in Proc \ {j} : pipe[q] = <<>> /\ IF q < j THEN pc[q] = "read2" ELSE pc[q] \in Gone
  /\ \/ pipe[j] = <<"end">> /\ pc[j] = "read2" /\ j # LastChild /\ Range(announced) = j + 1 .. SIZ - 1
     \/ pipe[j] = <<>> /\ pc[j] = "announce" /\ Range(announced) = j + 1 .. SIZ - 1
     \/ pipe[j] = <<>> /\ pc[j] = "sendEnd" /\ j # 0 /\ Range(announced) = j .. SIZ - 1
     \/ pipe[j] = <<>> /\ pc[j] \in Gone /\ j = 0 /\ Range(announced) = Proc

(* The message is lost: its reader is missing, or did not recognise it.    *)
Stuck ==
  \A p \in Proc :
    /\ pipe[p] = <<>>
    /\ pc[p] \in {"killed", "read1", "read2"} \cup IF p = 0 THEN {} ELSE {"absent", "close", "error"}
    /\ pc[p] = "killed" => pc[Right(p)] = "absent"

(* A second turn has begun, but nobody ever leaves.                        *)
Silent ==
  /\ ~Few
  /\ announced = <<>>
  /\ pc[LastChild] \in {"absent", "killed"}
  /\ \A p \in Proc : /\ pc[p] \notin Leaving \cup {"fork"}
                     /\ \A i \in 1 .. Len(pipe[p]) : pipe[p][i] # "end"

OneTurn ==
  /\ Ordered /\ Fresh
  /\ \/ \E j \in Proc : Ending(j)
     \/ announced = <<>> /\ (\/ Starting \/ Stuck
                             \/ \E j \in Proc : Passing(j) \/ SecondRound(j)
                             \/ \E d, j \in Proc : FirstRound(d, j))

IInv == TypeOK /\ Ends /\ LookAhead /\ (OneTurn \/ Silent)
-----------------------------------------------------------------------------
(***************************************************************************)
(* Places of the ring                                                      *)
(***************************************************************************)
LEMMA RingFacts ==
  /\ 0 \in Proc /\ 1 \in Proc /\ 2 \in Proc /\ LastChild \in Proc
  /\ LastChild # 0 /\ LastChild # 1 /\ LastChild # 2
  /\ \A p \in Proc : /\ p \in Nat /\ Right(p) \in Proc /\ Right(p) # p
                     /\ Right(p) = IF p = LastChild THEN 0 ELSE p + 1
                     /\ p # 0 => p - 1 \in Proc /\ p - 1 # p /\ Right(p - 1) = p
                     /\ p # LastChild => p + 1 \in Proc
                     /\ Kept(p) \subseteq PipeEnd
  BY DEF Proc, LastChild, Right, Kept, PipeEnd

LEMMA SendTyped ==
  ASSUME NEW f \in [Proc -> Seq(Message)], NEW j \in Proc, NEW m \in Message
  PROVE  [f EXCEPT ![j] = Append(@, m)] \in [Proc -> Seq(Message)]
  OBVIOUS
LEMMA ReadsTyped ==
  ASSUME pipe \in [Proc -> Seq(Message)], NEW p \in Proc, NEW m, NEW old, Reads(p, m, old)
  PROVE  pipe' \in [Proc -> Seq(Message)]
<1>1. pipe' = pipe \/ pipe' = [pipe EXCEPT ![p] = <<>>]
  BY DEF Reads
<1>2. <<>> \in Seq(Message)
  OBVIOUS
<1> QED BY <1>1, <1>2

(***************************************************************************)
(* What the handlers do to pc, pipe and open                               *)
(***************************************************************************)
(* What a process does about the message it has read in the first loop.    *)
AfterRead(p, m) ==
  CASE m = "pass" /\ tail = "zero" -> "line"
    [] m = "done" /\ tail = "zero" -> "sendDone"
    [] OTHER -> IF p = 0 THEN "line" ELSE "error"

Received(p, m) == pipe[p] = <<m>> /\ pipe' = [pipe EXCEPT ![p] = <<>>]
EndOfFile(p) == pipe[p] = <<>> /\ pipe' = pipe /\ \A q \in Proc : <<"WRITE", p>> \notin open[q]
Tells(p, m, next) == got' = [got EXCEPT ![p] = m] /\ Goto(p, next)

OneMessage(p) == pipe[p] = <<>> \/ \E m \in Message : pipe[p] = <<m>>

LEMMA FirstLoopCases ==
  ASSUME TypeOK, NEW p \in Proc, FirstLoop(p), OneMessage(p)
  PROVE  /\ pc[p] = "read1"
         /\ UNCHANGED <<forked, tail, open, fileVars, output>>
         /\ \/ EndOfFile(p) /\ Tells(p, got[p], AfterRead(p, got[p]))
            \/ \E m \in Message : Received(p, m) /\ Tells(p, m, AfterRead(p, m))
<1>1. PICK m \in Message \cup {"none"} :
        /\ Reads(p, m, got[p])
        /\ Tells(p, m, AfterRead(p, m))
  BY DEF FirstLoop, Tells, AfterRead
<1>2. pc[p] = "read1" /\ UNCHANGED <<forked, tail, open, fileVars, output>>
  BY DEF FirstLoop
<1>3. CASE pipe[p] = <<>>
  <2>1. EndOfFile(p) /\ m = got[p]
    BY <1>1, <1>3 DEF Reads, EndOfFile
  <2> QED BY <1>1, <1>2, <2>1
<1>4. ASSUME NEW n \in Message, pipe[p] = <<n>>
      PROVE  Received(p, n) /\ Tells(p, n, AfterRead(p, n))
  <2>1. m = n /\ pipe' = [pipe EXCEPT ![p] = <<>>]
    BY <1>1, <1>4 DEF Reads
  <2> QED BY <1>1, <1>4, <2>1 DEF Received
<1> QED BY <1>2, <1>3, <1>4 DEF OneMessage

AfterRead2(p, m) ==
  CASE m = "done" -> IF p = LastChild THEN "announce" ELSE "sendDone"
    [] m = "end" -> "announce"
    [] OTHER -> "read2"

LEMMA SecondLoopCases ==
  ASSUME TypeOK, NEW p \in Proc, SecondLoop(p), OneMessage(p)
  PROVE  /\ pc[p] = "read2"
         /\ UNCHANGED <<forked, tail, open, fileVars, output>>
         /\ \/ EndOfFile(p) /\ Tells(p, "none", "read2")
            \/ \E m \in Message : Received(p, m) /\ Tells(p, m, AfterRead2(p, m))
<1>1. PICK m \in Message \cup {"none"} :
        /\ Reads(p, m, "none")
        /\ Tells(p, m, AfterRead2(p, m))
  BY DEF SecondLoop, Tells, AfterRead2
<1>2. pc[p] = "read2" /\ UNCHANGED <<forked, tail, open, fileVars, output>>
  BY DEF SecondLoop
<1>3. CASE pipe[p] = <<>>
  <2>1. EndOfFile(p) /\ m = "none"
    BY <1>1, <1>3 DEF Reads, EndOfFile
  <2> QED BY <1>1, <1>2, <2>1 DEF AfterRead2
<1>4. ASSUME NEW n \in Message, pipe[p] = <<n>>
      PROVE  Received(p, n) /\ Tells(p, n, AfterRead2(p, n))
  <2>1. m = n /\ pipe' = [pipe EXCEPT ![p] = <<>>]
    BY <1>1, <1>4 DEF Reads
  <2> QED BY <1>1, <1>4, <2>1 DEF Received
<1> QED BY <1>2, <1>3, <1>4 DEF OneMessage

(***************************************************************************)
(* Type correctness                                                        *)
(***************************************************************************)
LEMMA LabelsOfWrites ==
  ASSUME TypeOK, NEW p \in Proc, NEW j \in Proc, NEW m \in Message, NEW next \in Label,
         Writes(p, j, m, next)
  PROVE  TypeOK'
<1>1. CASE pipe' = [pipe EXCEPT ![j] = Append(@, m)] /\ Goto(p, next) /\ UNCHANGED open
  <2>1. pipe' \in [Proc -> Seq(Message)]
    BY <1>1, SendTyped DEF TypeOK
  <2> QED BY <1>1, <2>1 DEF TypeOK, Writes, Goto, fileVars, output
<1>2. CASE Goto(p, "killed") /\ open' = [open EXCEPT ![p] = {}] /\ UNCHANGED pipe
  BY <1>2 DEF TypeOK, Writes, Goto, Label, fileVars, output
<1> QED BY <1>1, <1>2 DEF Writes

LEMMA TypeStep ==
  ASSUME TypeOK, LookAhead, [Next]_vars
  PROVE  TypeOK'
<1> USE RingFacts DEF TypeOK, fileVars, output
<1>0. CASE UNCHANGED vars
  BY <1>0 DEF vars
<1>1. CASE Fork
  <2>1. forked \in Proc /\ forked' \in 1 .. SIZ
    BY <1>1 DEF Fork, Proc
  <2>2. pc' \in [Proc -> Label]
    BY <1>1, <2>1 DEF Fork, Goto, Label
  <2>3. open' \in [Proc -> SUBSET PipeEnd]
    BY <1>1, <2>1, ZenonT(60) DEF Fork
  <2> QED BY <1>1, <2>1, <2>2, <2>3 DEF Fork
<1>2. CASE ForksDone
  BY <1>2 DEF ForksDone, Goto, Label
<1>3. ASSUME NEW p \in Proc, PipeClose(p) PROVE TypeOK'
  BY <1>3 DEF PipeClose, Goto, Label
<1>4. ASSUME NEW p \in Proc, ReadByte(p) PROVE TypeOK'
  <2>1. file \in Seq(Byte) /\ Len(file) \in Nat /\ file' = file
    BY <1>4, FilesAssumption DEF ReadByte
  <2>2. cursor' = cursor + 1 /\ cursor' \in 1 .. Len(file)
    BY <1>4, <2>1 DEF ReadByte
  <2>3. line' \in [Proc -> Seq(1 .. Len(file))]
    BY <1>4, <2>2 DEF ReadByte
  <2>4. pc' \in [Proc -> Label]
    BY <1>4 DEF ReadByte, Goto, Label
  <2> QED BY <1>4, <2>1, <2>2, <2>3, <2>4, SMTT(30) DEF ReadByte
<1>5. ASSUME NEW p \in Proc, Peek(p) PROVE TypeOK'
  <2>1. file \in Seq(Byte) /\ Len(file) \in Nat /\ file' = file
    BY <1>5, FilesAssumption DEF Peek
  <2> QED BY <1>5, <2>1 DEF Peek, Goto, Label
<1>6. ASSUME NEW p \in Proc, Rewind(p) PROVE TypeOK'
  <2>1. cursor # 0
    <3> SUFFICES ASSUME cursor = 0 PROVE FALSE
      OBVIOUS
    <3> DEFINE R == {q \in Proc : pc[q] = "rewind"}
    <3>1. IsFiniteSet(R) /\ p \in R
      <4>1. R \subseteq 0 .. SIZ - 1 /\ IsFiniteSet(0 .. SIZ - 1)
        BY FS_Interval DEF Proc
      <4> QED BY <1>6, <4>1, FS_Subset DEF Rewind
    <3>2. Cardinality(R) \in Nat /\ Cardinality(R) # 0
      BY <3>1, FS_CardinalityType, FS_EmptySet
    <3> QED BY <3>2 DEF LookAhead
  <2>2. file \in Seq(Byte) /\ Len(file) \in Nat /\ file' = file
    BY <1>6, FilesAssumption DEF Rewind
  <2> QED BY <1>6, <2>1, <2>2 DEF Rewind, Goto, Label
<1>7. ASSUME NEW p \in Proc, ReadEnd(p) PROVE TypeOK'
  BY <1>7 DEF ReadEnd, Goto, Label
<1>8. ASSUME NEW p \in Proc, PrintLine(p) PROVE TypeOK'
  <2>1. pc' \in [Proc -> Label] /\ line' \in [Proc -> Seq(1 .. Len(file))] /\ file' = file
    BY <1>8 DEF PrintLine, Goto, Label
  <2>2. line[p] \in Seq(1 .. Len(file))
    OBVIOUS
  <2>3. [i \in 1 .. Len(line[p]) |-> <<p, line[p][i]>>] \in Seq(Proc \X (1 .. Len(file)))
    BY <2>2, SMTT(30)
  <2>4. printed' \in Seq(Proc \X (1 .. Len(file')))
    BY <1>8, <2>1, <2>3, ConcatProperties DEF PrintLine
  <2> QED BY <1>8, <2>1, <2>4 DEF PrintLine
<1>9. ASSUME NEW p \in Proc, SendPass(p) \/ SendDone(p) PROVE TypeOK'
  <2>1. Right(p) \in Proc /\ "read1" \in Label /\ "read2" \in Label /\ "pass" \in Message /\ "done" \in Message
    BY DEF Label, Message
  <2> QED BY <1>9, <2>1, LabelsOfWrites DEF SendPass, SendDone
<1>10. ASSUME NEW p \in Proc, SendEnd(p) PROVE TypeOK'
  <2>1. p - 1 \in Proc
    BY <1>10 DEF SendEnd, Writes, PipeEnd
  <2>2. "free" \in Label /\ "end" \in Message
    BY DEF Label, Message
  <2> QED BY <1>10, <2>1, <2>2, LabelsOfWrites DEF SendEnd
<1>11. ASSUME NEW p \in Proc, FirstLoop(p) PROVE TypeOK'
  <2>1. PICK m \in Message \cup {"none"} : Reads(p, m, got[p]) /\ Tells(p, m, AfterRead(p, m))
    BY <1>11 DEF FirstLoop, Tells, AfterRead
  <2>3. pipe' \in [Proc -> Seq(Message)]
    BY <2>1, ReadsTyped
  <2>2. pc' \in [Proc -> Label] /\ got' \in [Proc -> Message \cup {"none"}]
    BY <2>1 DEF Tells, Goto, AfterRead, Label
  <2> QED BY <1>11, <2>2, <2>3 DEF FirstLoop
<1>12. ASSUME NEW p \in Proc, SecondLoop(p) PROVE TypeOK'
  <2>1. PICK m \in Message \cup {"none"} : Reads(p, m, "none") /\ Tells(p, m, AfterRead2(p, m))
    BY <1>12 DEF SecondLoop, Tells, AfterRead2
  <2>3. pipe' \in [Proc -> Seq(Message)]
    BY <2>1, ReadsTyped
  <2>2. pc' \in [Proc -> Label] /\ got' \in [Proc -> Message \cup {"none"}]
    BY <2>1 DEF Tells, Goto, AfterRead2, Label
  <2> QED BY <1>12, <2>2, <2>3 DEF SecondLoop
<1>13. ASSUME NEW p \in Proc, ReportError(p) PROVE TypeOK'
  BY <1>13 DEF ReportError, Goto, Label
<1>14. ASSUME NEW p \in Proc, Announce(p) PROVE TypeOK'
  BY <1>14 DEF Announce, Goto, Label
<1>15. ASSUME NEW p \in Proc, FreeAll(p) \/ Return(p) PROVE TypeOK'
  <2>1. pc' \in [Proc -> Label]
    BY <1>15 DEF FreeAll, Return, Goto, Label
  <2>2. open' \in [Proc -> SUBSET PipeEnd]
    <3>1. PICK E : E \subseteq open[p] /\ open' = [open EXCEPT ![p] = E]
      BY <1>15 DEF FreeAll, Return
    <3> QED BY <3>1
  <2> QED BY <1>15, <2>1, <2>2 DEF FreeAll, Return
<1> QED
  BY <1>0, <1>1, <1>2, <1>3, <1>4, <1>5, <1>6, <1>7, <1>8, <1>9, <1>10, <1>11,
     <1>12, <1>13, <1>14, <1>15 DEF Next, Step

(***************************************************************************)
(* Who holds which end of a pipe                                           *)
(***************************************************************************)
LEMMA AtFork ==
  ASSUME OneTurn \/ Silent, pc[0] = "fork"
  PROVE  Starting
<1>1. 0 \in Proc
  BY RingFacts
<1>2. ~Silent
  BY <1>1 DEF Silent
<1>3. ~Stuck
  BY <1>1 DEF Stuck
<1>4. ASSUME NEW j \in Proc PROVE ~Passing(j)
  BY <1>1 DEF Passing, Parked, Reading
<1>5. ASSUME NEW j \in Proc PROVE ~SecondRound(j) /\ ~Ending(j)
  BY <1>1 DEF SecondRound, Ending, Gone
<1>6. ASSUME NEW d \in Proc, NEW j \in Proc PROVE ~FirstRound(d, j)
  BY <1>1 DEF FirstRound, Parked
<1> QED BY <1>2, <1>3, <1>4, <1>5, <1>6 DEF OneTurn

LEMMA EndsAfter ==
  ASSUME TypeOK, Ends, NEW p \in Proc, NEW next, Goto(p, next),
         open' = [open EXCEPT ![p] = Held(p, next)]
  PROVE  Ends'
<1> SUFFICES ASSUME NEW q \in Proc PROVE open'[q] = Held(q, pc'[q])
  BY DEF Ends, Held, Kept, Right
<1>1. CASE q = p
  BY <1>1 DEF TypeOK, Goto
<1>2. CASE q # p
  BY <1>2 DEF TypeOK, Goto, Ends
<1> QED BY <1>1, <1>2

LEMMA EndsKept ==
  ASSUME TypeOK, Ends, NEW p \in Proc, NEW next, Goto(p, next), open' = open,
         Held(p, next) = Held(p, pc[p])
  PROVE  Ends'
<1>1. open' = [open EXCEPT ![p] = Held(p, next)]
  BY DEF TypeOK, Ends
<1> QED BY <1>1, EndsAfter

(* Where the pipes of the ring are all that is open.                       *)
Running == Label \ {"fork", "close", "unborn", "absent", "killed", "return", "exited"}

LEMMA HeldRunning == \A p \in Proc, label \in Running : Held(p, label) = Kept(p)
  BY DEF Running, Label, Held

LEMMA EndsAfterWrites ==
  ASSUME TypeOK, Ends, NEW p \in Proc, NEW j, NEW m, NEW next \in Running,
         pc[p] \in Running, Writes(p, j, m, next)
  PROVE  Ends'
<1>1. CASE Goto(p, next) /\ UNCHANGED open
  BY <1>1, HeldRunning, EndsKept
<1>2. CASE Goto(p, "killed") /\ open' = [open EXCEPT ![p] = {}]
  <2>1. Held(p, "killed") = {}
    BY DEF Held
  <2> QED BY <1>2, <2>1, EndsAfter
<1> QED BY <1>1, <1>2 DEF Writes

LEMMA EndsStep ==
  ASSUME TypeOK, Ends, OneTurn \/ Silent, [Next]_vars
  PROVE  Ends'
<1>0. CASE UNCHANGED vars
  BY <1>0 DEF vars, Ends, Held, Kept, Right
<1>1. CASE Fork
  <2>1. Starting /\ forked \in Proc /\ forked # 0
    BY <1>1, AtFork DEF Fork, Proc, TypeOK
  <2>2. pc[forked] = "unborn"
    BY <2>1 DEF Starting, Proc, TypeOK
  <2>3. CASE Goto(forked, "close") /\ open' = [open EXCEPT ![forked] = open[0]]
    <3>1. open[0] = Held(forked, "close")
      BY <1>1, RingFacts DEF Fork, Ends, Held
    <3> QED BY <2>1, <2>3, <3>1, EndsAfter
  <2>4. CASE Goto(forked, "absent") /\ UNCHANGED open
    <3>1. Held(forked, "absent") = Held(forked, "unborn")
      BY DEF Held
    <3> QED BY <2>1, <2>2, <2>4, <3>1, EndsKept
  <2> QED BY <1>1, <2>3, <2>4 DEF Fork
<1>2. CASE ForksDone
  <2>1. pc[0] = "fork" /\ Goto(0, "close") /\ open' = open
    BY <1>2 DEF ForksDone
  <2>2. Held(0, "fork") = Held(0, "close")
    BY DEF Held
  <2> QED BY <2>1, <2>2, EndsKept, RingFacts
<1>3. ASSUME NEW p \in Proc, PipeClose(p) PROVE Ends'
  <2>1. PICK next \in {"line", "read1"} : Goto(p, next)
    BY <1>3 DEF PipeClose
  <2>2. Held(p, next) = Kept(p) /\ open[p] = PipeEnd
    BY <1>3 DEF PipeClose, Ends, Held
  <2>3. open' = [open EXCEPT ![p] = Held(p, next)]
    <3>1. open[p] \cap Kept(p) = Held(p, next)
      BY <2>2, RingFacts
    <3> QED BY <1>3, <3>1 DEF PipeClose
  <2> QED BY <2>1, <2>3, EndsAfter
<1>4. ASSUME NEW p \in Proc,
             ReadByte(p) \/ Peek(p) \/ Rewind(p) \/ ReadEnd(p) \/ PrintLine(p)
               \/ ReportError(p) \/ Announce(p)
      PROVE  Ends'
  <2>1. PICK next \in Running : Goto(p, next) /\ open' = open
    BY <1>4 DEF ReadByte, Peek, Rewind, ReadEnd, PrintLine, ReportError, Announce, Running, Label
  <2>2. pc[p] \in Running
    BY <1>4 DEF ReadByte, Peek, Rewind, ReadEnd, PrintLine, ReportError, Announce, Running, Label
  <2> QED BY <2>1, <2>2, HeldRunning, EndsKept
<1>5. ASSUME NEW p \in Proc, FirstLoop(p) \/ SecondLoop(p) PROVE Ends'
  <2>1. pc[p] \in Running /\ open' = open
    BY <1>5 DEF FirstLoop, SecondLoop, Running, Label
  <2>2. PICK next \in Running : Goto(p, next)
    <3>1. \A m : AfterRead(p, m) \in Running /\ AfterRead2(p, m) \in Running
      BY DEF AfterRead, AfterRead2, Running, Label
    <3>2. \E m : Goto(p, AfterRead(p, m)) \/ Goto(p, AfterRead2(p, m))
      BY <1>5 DEF FirstLoop, SecondLoop, AfterRead, AfterRead2
    <3> QED BY <3>1, <3>2
  <2> QED BY <2>1, <2>2, HeldRunning, EndsKept
<1>6. ASSUME NEW p \in Proc, SendPass(p) \/ SendDone(p) \/ SendEnd(p) PROVE Ends'
  <2>1. pc[p] \in Running /\ {"read1", "read2", "free"} \subseteq Running
    BY <1>6 DEF SendPass, SendDone, SendEnd, Running, Label
  <2> QED BY <1>6, <2>1, EndsAfterWrites DEF SendPass, SendDone, SendEnd
<1>7. ASSUME NEW p \in Proc, FreeAll(p) PROVE Ends'
  <2>1. open[p] = Kept(p) /\ Held(p, "return") = open[p] \ {<<"READ", p>>, <<"WRITE", IF p = 0 THEN -1 ELSE SIZ - 1>>}
    BY <1>7 DEF FreeAll, Ends, Held
  <2>2. Goto(p, "return") /\ open' = [open EXCEPT ![p] = Held(p, "return")]
    BY <1>7, <2>1 DEF FreeAll
  <2> QED BY <2>2, EndsAfter
<1>8. ASSUME NEW p \in Proc, Return(p) PROVE Ends'
  <2>1. Held(p, "exited") = {}
    BY DEF Held
  <2> QED BY <1>8, <2>1, EndsAfter DEF Return
<1> QED
  BY <1>0, <1>1, <1>2, <1>3, <1>4, <1>5, <1>6, <1>7, <1>8 DEF Next, Step

(* A process that runs keeps its own pipe, the right and the left one.     *)
LEMMA Holds ==
  ASSUME Ends, NEW p \in Proc, pc[p] \notin {"unborn", "absent", "killed", "return", "exited"}
  PROVE  /\ <<"READ", p>> \in open[p]
         /\ <<"WRITE", Right(p)>> \in open[p]
         /\ p # 0 => <<"WRITE", p - 1>> \in open[p]
<1>1. Kept(p) \subseteq open[p]
  BY RingFacts DEF Ends, Held
<1>2. p # 0 => p - 1 \in {p - 1} \cap Proc
  BY RingFacts
<1> QED BY <1>1, <1>2 DEF Kept

(***************************************************************************)
(* No look-ahead byte is given back twice                                  *)
(***************************************************************************)
Looking(place) == {p \in Proc : place[p] = "rewind"}

LEMMA ProcFinite ==
  /\ IsFiniteSet(Proc)
  /\ \A S \in SUBSET Proc : IsFiniteSet(S) /\ Cardinality(S) \in Nat
<1>1. IsFiniteSet(Proc)
  BY FS_Interval DEF Proc
<1> QED BY <1>1, FS_Subset, FS_CardinalityType

LEMMA LookAheadStep ==
  ASSUME TypeOK, LookAhead, [Next]_vars
  PROVE  LookAhead'
<1>1. /\ Looking(pc) \in SUBSET Proc /\ IsFiniteSet(Looking(pc))
      /\ Cardinality(Looking(pc)) \in Nat /\ Cardinality(Looking(pc)) <= cursor
      /\ cursor \in Nat
  <2>1. Looking(pc) \in SUBSET Proc /\ cursor \in Nat
    BY DEF Looking, TypeOK
  <2> QED BY <2>1, ProcFinite DEF LookAhead, Looking
<1> SUFFICES Cardinality(Looking(pc')) <= cursor'
  BY DEF LookAhead, Looking
<1>2. CASE Looking(pc') \subseteq Looking(pc) /\ cursor' \in Nat /\ cursor' >= cursor
  <2>1. Cardinality(Looking(pc')) <= Cardinality(Looking(pc)) /\ Cardinality(Looking(pc')) \in Nat
    BY <1>1, <1>2, FS_Subset, FS_CardinalityType
  <2> QED BY <1>1, <1>2, <2>1
<1>3. ASSUME NEW p \in Proc, Peek(p) PROVE Cardinality(Looking(pc')) <= cursor'
  <2>1. Looking(pc') = Looking(pc) \cup {p}
    BY <1>3 DEF Looking, Peek, Goto, TypeOK
  <2>2. p \notin Looking(pc) /\ cursor' = cursor + 1
    BY <1>3 DEF Looking, Peek
  <2>3. Cardinality(Looking(pc')) = Cardinality(Looking(pc)) + 1
    BY <1>1, <2>1, <2>2, FS_AddElement
  <2> QED BY <1>1, <2>2, <2>3
<1>4. ASSUME NEW p \in Proc, Rewind(p) PROVE Cardinality(Looking(pc')) <= cursor'
  <2>1. Looking(pc') = Looking(pc) \ {p}
    BY <1>4 DEF Looking, Rewind, Goto, TypeOK
  <2>2. p \in Looking(pc) /\ cursor' = cursor - 1
    BY <1>4 DEF Looking, Rewind
  <2>3. Cardinality(Looking(pc) \ {p}) = Cardinality(Looking(pc)) - 1
    BY <1>1, <2>2, FS_RemoveElement
  <2> QED BY <1>1, <2>1, <2>2, <2>3
<1>5. ASSUME NEW p \in Proc, NEW next, next # "rewind", Goto(p, next), cursor' \in {cursor, cursor + 1}
      PROVE  Cardinality(Looking(pc')) <= cursor'
  <2>1. Looking(pc') \subseteq Looking(pc)
    BY <1>5 DEF Looking, Goto, TypeOK
  <2> QED BY <1>1, <1>2, <1>5, <2>1
<1>6. CASE UNCHANGED vars
  BY <1>1, <1>2, <1>6 DEF vars
<1>7. CASE Fork \/ ForksDone
  <2>1. \E p \in Proc : \E next : next # "rewind" /\ Goto(p, next) /\ cursor' = cursor
    <3>1. CASE Fork
      <4>1. forked \in Proc
        BY <3>1 DEF Fork, Proc, TypeOK
      <4> QED BY <3>1, <4>1 DEF Fork, fileVars
    <3> QED BY <1>7, <3>1, RingFacts DEF ForksDone, fileVars
  <2> QED BY <1>5, <2>1
<1>8. ASSUME NEW p \in Proc, FirstLoop(p) \/ SecondLoop(p)
      PROVE  Cardinality(Looking(pc')) <= cursor'
  <2>1. \A m : AfterRead(p, m) # "rewind" /\ AfterRead2(p, m) # "rewind"
    BY DEF AfterRead, AfterRead2
  <2>2. \E m : Goto(p, AfterRead(p, m)) \/ Goto(p, AfterRead2(p, m))
    BY <1>8 DEF FirstLoop, SecondLoop, AfterRead, AfterRead2
  <2>3. cursor' = cursor
    BY <1>8 DEF FirstLoop, SecondLoop, fileVars
  <2> QED BY <1>5, <2>1, <2>2, <2>3
<1>9. ASSUME NEW p \in Proc,
             PipeClose(p) \/ ReadByte(p) \/ ReadEnd(p) \/ PrintLine(p) \/ ReportError(p)
               \/ Announce(p) \/ FreeAll(p) \/ Return(p)
      PROVE  Cardinality(Looking(pc')) <= cursor'
  <2>1. \E next : next # "rewind" /\ Goto(p, next) /\ cursor' \in {cursor, cursor + 1}
    BY <1>9 DEF PipeClose, ReadByte, ReadEnd, PrintLine, ReportError, Announce, FreeAll, Return, fileVars
  <2> QED BY <1>5, <2>1
<1>10. ASSUME NEW p \in Proc, SendPass(p) \/ SendDone(p) \/ SendEnd(p)
       PROVE  Cardinality(Looking(pc')) <= cursor'
  <2>1. \E next : next # "rewind" /\ Goto(p, next) /\ cursor' = cursor
    BY <1>10 DEF SendPass, SendDone, SendEnd, Writes, fileVars
  <2> QED BY <1>5, <2>1
<1> QED
  BY <1>3, <1>4, <1>6, <1>7, <1>8, <1>9, <1>10 DEF Next, Step

(***************************************************************************)
(* Few: at most one child is missing                                       *)
(***************************************************************************)
LEMMA FewIs == Few <=> \A p, q \in Proc : pc[p] = "absent" /\ pc[q] = "absent" => p = q
<1> DEFINE A == {p \in Proc : pc[p] = "absent"}
<1>1. A \in SUBSET Proc /\ IsFiniteSet(A) /\ Cardinality(A) \in Nat
  BY ProcFinite
<1>2. ASSUME Few, NEW p \in A, NEW q \in A, p # q PROVE FALSE
  <2>1. IsFiniteSet(A \ {p}) /\ Cardinality(A \ {p}) = Cardinality(A) - 1
    BY <1>1, FS_RemoveElement
  <2>2. Cardinality(A \ {p}) \in Nat /\ Cardinality(A \ {p}) # 0
    BY <1>2, <2>1, FS_CardinalityType, FS_EmptySet, SMTT(30)
  <2> QED BY <1>1, <1>2, <2>1, <2>2 DEF Few
<1>3. ASSUME \A p, q \in A : p = q PROVE Few
  <2>1. CASE A = {}
    <3>1. Cardinality(A) = 0
      BY <1>1, <2>1, FS_EmptySet
    <3> QED BY <3>1 DEF Few
  <2>2. CASE A # {}
    <3>1. PICK a : A = {a}
      BY <1>3, <2>2
    <3>2. Cardinality(A) = 1
      BY <3>1, FS_Singleton
    <3> QED BY <3>2 DEF Few
  <2> QED BY <2>1, <2>2
<1> QED BY <1>2, <1>3

LEMMA FewKept ==
  ASSUME {p \in Proc : pc'[p] = "absent"} = {p \in Proc : pc[p] = "absent"}
  PROVE  Few' <=> Few
  BY DEF Few

(***************************************************************************)
(* The silent phase lasts                                                  *)
(***************************************************************************)
NoEnd(pp) == \A p \in Proc : \A i \in 1 .. Len(pp[p]) : pp[p][i] # "end"

LEMMA SilentAfter ==
  ASSUME TypeOK, Silent, NEW p \in Proc, NEW next, Goto(p, next),
         pc[p] \notin {"absent", "killed"}, next \notin {"absent", "fork"} \cup Leaving,
         announced' = announced, NoEnd(pipe')
  PROVE  Silent'
<1>1. pc' = [pc EXCEPT ![p] = next] /\ pc \in [Proc -> Label]
  BY DEF Goto, TypeOK
<1>2. {q \in Proc : pc'[q] = "absent"} = {q \in Proc : pc[q] = "absent"}
  BY <1>1
<1>3. ~Few'
  BY <1>2, FewKept DEF Silent
<1>4. pc'[LastChild] \in {"absent", "killed"}
  BY <1>1, RingFacts DEF Silent
<1>5. \A q \in Proc : pc'[q] \notin Leaving \cup {"fork"}
  BY <1>1 DEF Silent
<1> QED BY <1>3, <1>4, <1>5 DEF Silent, NoEnd, Leaving

LEMMA NoEndAfterRead ==
  ASSUME NoEnd(pipe), pipe \in [Proc -> Seq(Message)], NEW p \in Proc, NEW m, NEW old, Reads(p, m, old)
  PROVE  NoEnd(pipe')
<1>1. pipe' = pipe \/ pipe' = [pipe EXCEPT ![p] = <<>>]
  BY DEF Reads
<1>2. CASE pipe' = [pipe EXCEPT ![p] = <<>>]
  BY <1>2 DEF NoEnd
<1> QED BY <1>1, <1>2 DEF NoEnd

LEMMA NoEndAfterWrite ==
  ASSUME NoEnd(pipe), pipe \in [Proc -> Seq(Message)], NEW p, NEW j \in Proc, NEW m, m # "end",
         NEW next, Writes(p, j, m, next)
  PROVE  NoEnd(pipe')
<1>1. CASE pipe' = [pipe EXCEPT ![j] = Append(@, m)]
  <2>1. \A i \in 1 .. Len(Append(pipe[j], m)) : Append(pipe[j], m)[i] # "end"
    BY DEF NoEnd
  <2>2. pipe'[j] = Append(pipe[j], m) /\ \A q \in Proc \ {j} : pipe'[q] = pipe[q]
    BY <1>1
  <2> QED BY <2>1, <2>2 DEF NoEnd
<1> QED BY <1>1 DEF NoEnd, Writes

LEMMA SilentStep ==
  ASSUME TypeOK, Silent, [Next]_vars
  PROVE  Silent'
<1>1. NoEnd(pipe) /\ pipe \in [Proc -> Seq(Message)] /\ announced = <<>>
  BY DEF Silent, NoEnd, TypeOK
<1>2. \A p \in Proc : pc[p] \notin Leaving \cup {"fork"}
  BY DEF Silent
<1>3. CASE UNCHANGED vars
  <2>1. pc' = pc /\ pipe' = pipe /\ announced' = announced
    BY <1>3 DEF vars
  <2> QED BY <2>1 DEF Silent, Few
<1>4. ~Fork /\ ~ForksDone
  BY <1>2, RingFacts DEF Fork, ForksDone
<1>5. ASSUME NEW p \in Proc PROVE ~Announce(p) /\ ~SendEnd(p) /\ ~FreeAll(p) /\ ~Return(p)
  BY <1>2 DEF Announce, SendEnd, FreeAll, Return, Leaving
<1>6. ASSUME NEW p \in Proc,
             PipeClose(p) \/ ReadByte(p) \/ Peek(p) \/ Rewind(p) \/ ReadEnd(p) \/ PrintLine(p)
               \/ ReportError(p)
      PROVE  Silent'
  <2>1. /\ \E next : next \notin {"absent", "fork"} \cup Leaving /\ Goto(p, next)
        /\ pc[p] \notin {"absent", "killed"} /\ pipe' = pipe /\ announced' = announced
    BY <1>6 DEF PipeClose, ReadByte, Peek, Rewind, ReadEnd, PrintLine, ReportError, output, Leaving
  <2> QED BY <1>1, <2>1, SilentAfter
<1>7. ASSUME NEW p \in Proc, SendPass(p) \/ SendDone(p) PROVE Silent'
  <2>1. PICK m, next : Writes(p, Right(p), m, next) /\ m # "end" /\ next \in {"read1", "read2"}
    BY <1>7 DEF SendPass, SendDone
  <2>2. NoEnd(pipe')
    BY <1>1, <2>1, RingFacts, NoEndAfterWrite
  <2>3. /\ Goto(p, next) \/ Goto(p, "killed")
        /\ pc[p] \notin {"absent", "killed"} /\ announced' = announced
    BY <1>7, <2>1 DEF SendPass, SendDone, Writes, output
  <2>4. {next, "killed"} \cap ({"absent", "fork"} \cup Leaving) = {}
    BY <2>1 DEF Leaving
  <2> QED BY <2>2, <2>3, <2>4, SilentAfter
<1>8. ASSUME NEW p \in Proc, FirstLoop(p) PROVE Silent'
  <2>1. PICK m : Reads(p, m, got[p]) /\ Goto(p, AfterRead(p, m))
    BY <1>8 DEF FirstLoop, AfterRead
  <2>2. AfterRead(p, m) \notin {"absent", "fork"} \cup Leaving
    BY DEF AfterRead, Leaving
  <2>3. NoEnd(pipe') /\ pc[p] \notin {"absent", "killed"} /\ announced' = announced
    BY <1>1, <1>8, <2>1, NoEndAfterRead DEF FirstLoop, output
  <2> QED BY <2>1, <2>2, <2>3, SilentAfter
<1>9. ASSUME NEW p \in Proc, SecondLoop(p) PROVE Silent'
  <2>1. PICK m : Reads(p, m, "none") /\ Goto(p, AfterRead2(p, m))
    BY <1>9 DEF SecondLoop, AfterRead2
  <2>2. m # "end"
    BY <1>1, <2>1 DEF Reads, NoEnd
  <2>3. p # LastChild
    BY <1>9 DEF Silent, SecondLoop
  <2>4. AfterRead2(p, m) \notin {"absent", "fork"} \cup Leaving
    BY <2>2, <2>3 DEF AfterRead2, Leaving
  <2>5. NoEnd(pipe') /\ pc[p] \notin {"absent", "killed"} /\ announced' = announced
    BY <1>1, <1>9, <2>1, NoEndAfterRead DEF SecondLoop, output
  <2> QED BY <2>1, <2>4, <2>5, SilentAfter
<1> QED
  BY <1>3, <1>4, <1>5, <1>6, <1>7, <1>8, <1>9 DEF Next, Step

(***************************************************************************)
(* The turn goes round, or is lost: what holds of every process            *)
(***************************************************************************)
Circling ==
  Stuck \/ (\E j \in Proc : Passing(j)) \/ (\E d, j \in Proc : FirstRound(d, j))

LEMMA CirclingFacts ==
  ASSUME Circling, NEW q \in Proc
  PROVE  /\ pipe[q] \in {<<>>, <<"pass">>, <<"done">>}
         /\ pc[q] \notin {"unborn", "fork"} \cup Leaving
         /\ pc[q] = "killed" => pc[Right(q)] = "absent"
         /\ q = 0 => pc[q] \notin {"absent", "close", "error"}
<1> USE DEF Leaving, Parked
<1>1. CASE Stuck
  BY <1>1 DEF Stuck
<1>2. ASSUME NEW j \in Proc, Passing(j)
      PROVE  /\ pipe[q] \in {<<>>, <<"pass">>, <<"done">>}
             /\ pc[q] \notin {"unborn", "fork", "killed"} \cup Leaving
             /\ q = 0 => pc[q] \notin {"absent", "close", "error"}
  <2>1. CASE q = j
    BY <1>2, <2>1 DEF Passing, Reading
  <2>2. CASE q # j
    BY <1>2, <2>2 DEF Passing
  <2> QED BY <2>1, <2>2
<1>3. ASSUME NEW d \in Proc, NEW j \in Proc, FirstRound(d, j)
      PROVE  /\ pipe[q] \in {<<>>, <<"pass">>, <<"done">>}
             /\ pc[q] \notin {"unborn", "fork", "killed"} \cup Leaving
             /\ q = 0 => pc[q] \notin {"absent", "close", "error"}
  <2>1. CASE q = j
    BY <1>3, <2>1 DEF FirstRound
  <2>2. CASE q # j
    BY <1>3, <2>2 DEF FirstRound
  <2> QED BY <2>1, <2>2
<1> QED BY <1>1, <1>2, <1>3 DEF Circling

LEMMA CirclingHolds ==
  ASSUME Ends, Circling, NEW q \in Proc, pc[q] \notin {"absent", "killed"}
  PROVE  /\ <<"READ", q>> \in open[q]
         /\ <<"WRITE", Right(q)>> \in open[q]
         /\ q # 0 => <<"WRITE", q - 1>> \in open[q]
<1>1. pc[q] \notin {"unborn", "return", "exited"}
  BY CirclingFacts DEF Leaving
<1> QED BY <1>1, Holds

(* The parent takes an end of file for an answer only if its two           *)
(* neighbours are not there.                                               *)
LEMMA ParentEof ==
  ASSUME TypeOK, Ends, Circling, announced = <<>>, FirstLoop(0), EndOfFile(0)
  PROVE  Silent'
<1> USE RingFacts
<1>1. /\ pc[0] = "read1" /\ pipe' = pipe /\ announced' = announced
      /\ Tells(0, got[0], AfterRead(0, got[0]))
  <2>1. OneMessage(0) /\ \A m \in Message : ~Received(0, m)
    BY DEF EndOfFile, OneMessage, Received
  <2> QED BY <2>1, FirstLoopCases DEF EndOfFile, output
<1>2. pc[LastChild] = "absent"
  <2>1. pc[LastChild] \in {"absent", "killed"}
    BY CirclingHolds DEF EndOfFile
  <2> QED BY <1>1, <2>1, CirclingFacts
<1>3. \E q \in Proc : q # LastChild /\ pc[q] = "absent"
  <2>1. Right(1) = 2 /\ 1 - 1 = 0
    OBVIOUS
  <2>2. pc[1] \in {"absent", "killed"}
    BY <2>1, CirclingHolds DEF EndOfFile
  <2> QED BY <2>1, <2>2, CirclingFacts
<1>4. ~Few
  BY <1>2, <1>3, FewIs
<1>5. AfterRead(0, got[0]) \notin {"absent", "fork", "killed"} \cup Leaving
  BY DEF AfterRead, Leaving
<1>6. pc' = [pc EXCEPT ![0] = AfterRead(0, got[0])] /\ pc \in [Proc -> Label]
  BY <1>1 DEF Tells, Goto, TypeOK
<1>7. ~Few'
  <2>1. {q \in Proc : pc'[q] = "absent"} = {q \in Proc : pc[q] = "absent"}
    BY <1>1, <1>5, <1>6
  <2> QED BY <1>4, <2>1, FewKept
<1>8. pc'[LastChild] = "absent"
  BY <1>2, <1>6
<1>9. ASSUME NEW p \in Proc PROVE pc'[p] \notin Leaving \cup {"fork"}
  BY <1>5, <1>6, CirclingFacts
<1>10. ASSUME NEW p \in Proc, NEW i \in 1 .. Len(pipe'[p]) PROVE pipe'[p][i] # "end"
  <2>1. pipe'[p] \in {<<>>, <<"pass">>, <<"done">>}
    BY <1>1, CirclingFacts
  <2> QED BY <2>1
<1> QED BY <1>1, <1>7, <1>8, <1>9, <1>10 DEF Silent, Leaving

(***************************************************************************)
(* Quiet steps: a child closes pipes, reports an error or reads an end of  *)
(* file, and nobody else can tell                                          *)
(***************************************************************************)
Quiet(p) ==
  /\ UNCHANGED <<file, cursor, line, tail, pipe, printed, announced>>
  /\ \/ pc' = pc
     \/ /\ p # 0 /\ pc[p] \in {"close", "read1", "error"}
        /\ Goto(p, "read1") \/ Goto(p, "error")
  /\ got' = got \/ got' = [got EXCEPT ![p] = "none"]

LEMMA QuietPc ==
  ASSUME TypeOK, NEW p \in Proc, Quiet(p), NEW q \in Proc
  PROVE  /\ \/ pc'[q] = pc[q]
            \/ q # 0 /\ pc[q] \in {"close", "read1", "error"} /\ pc'[q] \in {"read1", "error"}
         /\ got'[q] # "none" => got[q] # "none"
  BY DEF Quiet, Goto, TypeOK

LEMMA QuietFresh ==
  ASSUME TypeOK, Fresh, NEW p \in Proc, Quiet(p)
  PROVE  Fresh'
<1> SUFFICES ASSUME NEW q \in Proc, got'[q] # "none"
             PROVE  /\ pc'[q] # "absent"
                    /\ tail' = "zero" /\ q # 0 => pc'[q - 1] \notin {"absent", "killed"}
  BY DEF Fresh
<1>1. got[q] # "none" /\ tail' = tail
  BY QuietPc DEF Quiet
<1>2. pc'[q] # "absent"
  BY <1>1, QuietPc DEF Fresh
<1>3. ASSUME tail = "zero", q # 0 PROVE pc'[q - 1] \notin {"absent", "killed"}
  BY <1>1, <1>3, QuietPc, RingFacts DEF Fresh
<1> QED BY <1>1, <1>2, <1>3

LEMMA OrderedKept ==
  ASSUME Ordered, file' = file, printed' = printed
  PROVE  Ordered' /\ Turn' = Turn
  BY DEF Ordered, Turn, Right

(* Where a step leads.                                                     *)
LEMMA Enter ==
  ASSUME Ordered', Fresh', announced' = <<>>, Starting' \/ Stuck'
  PROVE  OneTurn'
  BY DEF OneTurn

LEMMA EnterRound ==
  ASSUME Ordered', Fresh', announced' = <<>>, NEW j \in Proc, Passing(j)' \/ SecondRound(j)'
  PROVE  OneTurn'
  BY DEF OneTurn

LEMMA EnterFirst ==
  ASSUME Ordered', Fresh', announced' = <<>>, NEW d \in Proc, NEW j \in Proc, FirstRound(d, j)'
  PROVE  OneTurn'
  BY DEF OneTurn

LEMMA EnterEnding ==
  ASSUME Ordered', Fresh', NEW j \in Proc, Ending(j)'
  PROVE  OneTurn'
  BY DEF OneTurn

LEMMA QuietKeeps ==
  ASSUME TypeOK, OneTurn, ~Starting, NEW p \in Proc, Quiet(p)
  PROVE  OneTurn'
<1>1. Fresh' /\ Ordered' /\ Turn' = Turn
  BY QuietFresh, OrderedKept DEF OneTurn, Quiet
<1>2. UNCHANGED <<file, cursor, line, tail, pipe, printed, announced>>
  BY DEF Quiet
<1>3. \A q \in Proc : Parked(q) => Parked(q)'
  BY QuietPc DEF Parked
<1>4. \A q \in Proc : pc[q] \notin {"close", "read1", "error"} => pc'[q] = pc[q]
  BY QuietPc
<1>5. ASSUME NEW j \in Proc, Passing(j) PROVE Passing(j)'
  <2>1. \A q \in Proc \ {j} : (pipe[q] = <<>> /\ line[q] = <<>> /\ Parked(q))'
    BY <1>2, <1>3, <1>5 DEF Passing
  <2>2. CASE pipe[j] = <<"pass">>
    <3>1. j # 0 => pc'[j - 1] # "absent"
      BY <1>5, <2>2, QuietPc, RingFacts DEF Passing
    <3> QED BY <1>1, <1>2, <1>3, <1>5, <2>1, <2>2, <3>1 DEF Passing
  <2>3. CASE pipe[j] = <<>>
    <3>1. pc'[j] = pc[j]
      BY <1>4, <1>5, <2>3 DEF Passing, Reading
    <3>2. Reading(j) => Reading(j)'
      BY <1>1, <1>2, <3>1 DEF Reading, WholeLine, Gathered
    <3>3. Right(j)' = Right(j)
      BY DEF Right
    <3> QED BY <1>1, <1>2, <1>5, <2>1, <2>3, <3>1, <3>2, <3>3 DEF Passing
  <2> QED BY <1>5, <2>2, <2>3 DEF Passing
<1>6. ASSUME NEW d \in Proc, NEW j \in Proc, FirstRound(d, j) PROVE FirstRound(d, j)'
  <2>1. Broke(d, j)' = Broke(d, j) /\ AllPrinted'
    BY <1>2, <1>6 DEF Broke, FirstRound, AllPrinted
  <2>2. \A q \in Proc \ {j} : /\ pipe'[q] = <<>>
                              /\ IF q \in Broke(d, j) THEN pc'[q] = "read2" ELSE Parked(q)'
    BY <1>2, <1>3, <1>4, <1>6 DEF FirstRound
  <2>3. \/ /\ j # d /\ pipe'[j] = <<"done">> /\ Parked(j)'
           /\ tail' = "junk" => j = 1
        \/ /\ pipe'[j] = <<>> /\ pc'[j] = "sendDone"
           /\ tail' = "junk" => j = 0
    BY <1>2, <1>3, <1>4, <1>6 DEF FirstRound
  <2> QED BY <2>1, <2>2, <2>3 DEF FirstRound
<1>7. ASSUME NEW j \in Proc, SecondRound(j) PROVE SecondRound(j)'
  BY <1>2, <1>4, <1>7 DEF SecondRound, AllPrinted
<1>8. ASSUME NEW j \in Proc, Ending(j) PROVE Ending(j)'
  <2>1. \A q \in Proc : pc'[q] = pc[q]
    BY <1>4, <1>8 DEF Ending, Gone
  <2> QED BY <1>2, <1>8, <2>1 DEF Ending, AllPrinted
<1>9. ASSUME Stuck PROVE Stuck'
  <2> SUFFICES ASSUME NEW q \in Proc
               PROVE  /\ pipe'[q] = <<>>
                      /\ pc'[q] \in {"killed", "read1", "read2"}
                            \cup IF q = 0 THEN {} ELSE {"absent", "close", "error"}
                      /\ pc'[q] = "killed" => pc'[Right(q)] = "absent"
    BY DEF Stuck, Right
  <2>1. pipe[q] = <<>> /\ pipe'[q] = <<>>
    BY <1>2, <1>9 DEF Stuck
  <2>2. pc'[q] \in {"killed", "read1", "read2"} \cup IF q = 0 THEN {} ELSE {"absent", "close", "error"}
    BY <1>9, QuietPc DEF Stuck
  <2>3. pc'[q] = "killed" => pc'[Right(q)] = "absent"
    BY <1>9, QuietPc, RingFacts DEF Stuck
  <2> QED BY <2>1, <2>2, <2>3
<1>11. ASSUME NEW j \in Proc, Ending(j) PROVE OneTurn'
  BY <1>1, <1>8, <1>11, EnterEnding
<1>12. ASSUME announced = <<>>, NEW j \in Proc, Passing(j) \/ SecondRound(j) PROVE OneTurn'
  BY <1>1, <1>2, <1>5, <1>7, <1>12, EnterRound
<1>13. ASSUME announced = <<>>, NEW d \in Proc, NEW j \in Proc, FirstRound(d, j) PROVE OneTurn'
  BY <1>1, <1>2, <1>6, <1>13, EnterFirst
<1>14. CASE announced = <<>> /\ Stuck
  BY <1>1, <1>2, <1>9, <1>14, Enter
<1> QED BY <1>11, <1>12, <1>13, <1>14 DEF OneTurn

LEMMA QuietActions ==
  ASSUME TypeOK, NEW p \in Proc,
         \/ p # 0 /\ (PipeClose(p) \/ ReportError(p))
         \/ p # 0 /\ EndOfFile(p) /\ FirstLoop(p) /\ AfterRead(p, got[p]) = "error"
         \/ EndOfFile(p) /\ SecondLoop(p)
  PROVE  Quiet(p)
<1>1. CASE p # 0 /\ (PipeClose(p) \/ ReportError(p))
  BY <1>1 DEF PipeClose, ReportError, Quiet, fileVars, output
<1>2. ASSUME EndOfFile(p) PROVE OneMessage(p) /\ \A m \in Message : ~Received(p, m)
  BY <1>2 DEF EndOfFile, OneMessage, Received
<1>3. CASE p # 0 /\ EndOfFile(p) /\ FirstLoop(p) /\ AfterRead(p, got[p]) = "error"
  <2>1. /\ pc[p] = "read1" /\ Tells(p, got[p], "error")
        /\ UNCHANGED <<tail, fileVars, output>>
    BY <1>2, <1>3, FirstLoopCases
  <2> QED BY <1>3, <2>1 DEF Quiet, EndOfFile, Tells, TypeOK, fileVars, output
<1>4. CASE EndOfFile(p) /\ SecondLoop(p)
  <2>1. /\ pc[p] = "read2" /\ Tells(p, "none", "read2")
        /\ UNCHANGED <<tail, fileVars, output>>
    BY <1>2, <1>4, SecondLoopCases
  <2>2. pc' = pc
    BY <2>1 DEF Tells, Goto, TypeOK
  <2> QED BY <1>4, <2>1, <2>2 DEF Quiet, EndOfFile, Tells, fileVars, output
<1> QED BY <1>1, <1>3, <1>4

(* A child that reads the end of its pipe has no message to repeat: the    *)
(* left neighbour it had one from still holds the pipe.                    *)
LEMMA ChildEof ==
  ASSUME TypeOK, Ends, Fresh, Circling, NEW p \in Proc, p # 0, FirstLoop(p), EndOfFile(p)
  PROVE  Quiet(p)
<1>1. CASE got[p] = "none"
  <2>1. AfterRead(p, got[p]) = "error"
    BY <1>1 DEF AfterRead
  <2> QED BY <2>1, QuietActions
<1>2. CASE got[p] # "none" /\ tail = "zero"
  <2>1. p - 1 \in Proc /\ Right(p - 1) = p /\ pc[p - 1] \notin {"absent", "killed"}
    BY <1>2, RingFacts DEF Fresh
  <2>2. <<"WRITE", p>> \in open[p - 1]
    BY <2>1, CirclingHolds
  <2> QED BY <2>1, <2>2 DEF EndOfFile
<1>3. CASE tail # "zero"
  <2>1. AfterRead(p, got[p]) = "error"
    BY <1>3 DEF AfterRead
  <2> QED BY <2>1, QuietActions
<1> QED BY <1>1, <1>2, <1>3

(***************************************************************************)
(* The forks                                                               *)
(***************************************************************************)
LEMMA FreshNone ==
  ASSUME Fresh, \A p \in Proc : got'[p] = "none"
  PROVE  Fresh'
  BY DEF Fresh

LEMMA StartingStep ==
  ASSUME TypeOK, Ends, Ordered, Fresh, announced = <<>>, Starting, Next
  PROVE  OneTurn'
<1>1. /\ \A p \in Proc : pipe[p] = <<>> /\ line[p] = <<>> /\ got[p] = "none"
      /\ pc[0] \in {"fork", "close"}
      /\ \A p \in Proc \ {0} : pc[p] \in {"absent", "close", "read1", "unborn"}
      /\ cursor = 0 /\ printed = <<>> /\ forked \in 1 .. SIZ
  BY DEF Starting, TypeOK
<1>2. CASE Fork
  <2>1. forked \in Proc /\ forked # 0 /\ forked' = forked + 1
    BY <1>2 DEF Fork, Proc, TypeOK
  <2>2. PICK next \in {"close", "absent"} : Goto(forked, next)
    BY <1>2 DEF Fork
  <2>3. pc'[0] = "fork"
    BY <1>2, <2>1, <2>2, RingFacts DEF Fork, Goto, TypeOK
  <2>4. ASSUME NEW p \in Proc \ {0}
        PROVE  pc'[p] \in IF p < forked' THEN {"absent", "close", "read1"} ELSE {"unborn"}
    <3>1. p \in Nat /\ forked \in Nat
      BY RingFacts, <2>1
    <3>2. CASE p = forked
      BY <2>1, <2>2, <3>1, <3>2 DEF Goto, TypeOK
    <3>3. CASE p # forked
      <4>1. pc'[p] = pc[p] /\ (p < forked' <=> p < forked)
        BY <2>1, <2>2, <3>1, <3>3 DEF Goto, TypeOK
      <4> QED BY <4>1 DEF Starting
    <3> QED BY <3>2, <3>3
  <2>5. UNCHANGED <<file, pipe, line, got, cursor, printed, announced>>
    BY <1>2 DEF Fork, fileVars, output
  <2>6. Starting'
    BY <1>1, <2>3, <2>4, <2>5 DEF Starting
  <2>7. Fresh' /\ Ordered'
    BY <1>1, <2>5, FreshNone, OrderedKept
  <2> QED BY <2>5, <2>6, <2>7, Enter
<1>3. CASE ForksDone
  <2>1. /\ pc' = [pc EXCEPT ![0] = "close"] /\ forked = SIZ /\ pc \in [Proc -> Label]
        /\ UNCHANGED <<file, forked, pipe, line, got, cursor, printed, announced>>
    BY <1>3 DEF ForksDone, Goto, fileVars, output, TypeOK
  <2>2. pc'[0] = "close" /\ \A p \in Proc \ {0} : pc'[p] = pc[p]
    BY <2>1, RingFacts
  <2>3. Starting'
    BY <1>1, <2>1, <2>2 DEF Starting
  <2>4. Fresh' /\ Ordered'
    BY <1>1, <2>1, FreshNone, OrderedKept
  <2> QED BY <2>1, <2>3, <2>4, Enter
<1>4. CASE PipeClose(0)
  <2>1. /\ pc' = [pc EXCEPT ![0] = "line"] /\ forked = SIZ /\ pc \in [Proc -> Label]
        /\ UNCHANGED <<file, pipe, line, got, cursor, printed, announced>>
    BY <1>4 DEF PipeClose, Goto, fileVars, output, TypeOK, Starting
  <2>2. pc'[0] = "line" /\ \A p \in Proc \ {0} : pc'[p] = pc[p] /\ pc[p] \in {"absent", "close", "read1"}
    <3>1. \A p \in Proc : p < forked
      BY <2>1 DEF Proc
    <3> QED BY <2>1, <3>1, RingFacts DEF Starting
  <2>3. \A p \in Proc \ {0} : pipe'[p] = <<>> /\ line'[p] = <<>> /\ Parked(p)'
    BY <1>1, <2>1, <2>2 DEF Parked
  <2>4. Reading(0)'
    <3>1. cursor' = 0 /\ Len(printed') = 0 /\ line'[0] = <<>> /\ Turn' = 0
      BY <1>1, <2>1, RingFacts DEF Turn
    <3>2. Gathered(0, cursor)'
      <4>1. [i \in 1 .. 0 - 0 |-> 0 + i] = <<>>
        OBVIOUS
      <4> QED BY <3>1, <4>1 DEF Gathered
    <3> QED BY <2>2, <3>1, <3>2 DEF Reading
  <2>5. Passing(0)'
    BY <1>1, <2>1, <2>3, <2>4, RingFacts DEF Passing
  <2>6. Fresh' /\ Ordered'
    BY <1>1, <2>1, FreshNone, OrderedKept
  <2> QED BY <2>1, <2>5, <2>6, EnterRound, RingFacts
<1>5. ASSUME NEW p \in Proc, p # 0, PipeClose(p) PROVE OneTurn'
  <2>1. /\ pc' = [pc EXCEPT ![p] = "read1"] /\ pc[p] = "close" /\ pc \in [Proc -> Label]
        /\ UNCHANGED <<file, forked, pipe, line, got, cursor, printed, announced>>
    BY <1>5 DEF PipeClose, Goto, fileVars, output, TypeOK
  <2>2. p < forked
    BY <1>5, <2>1 DEF Starting
  <2>3. pc'[0] = pc[0]
    BY <1>5, <2>1, RingFacts
  <2>4. ASSUME NEW q \in Proc \ {0}
        PROVE  pc'[q] \in IF q < forked' THEN {"absent", "close", "read1"} ELSE {"unborn"}
    BY <2>1, <2>2 DEF Starting
  <2>5. Starting'
    BY <1>1, <2>1, <2>3, <2>4 DEF Starting
  <2>6. Fresh' /\ Ordered'
    BY <1>1, <2>1, FreshNone, OrderedKept
  <2> QED BY <2>1, <2>5, <2>6, Enter
<1>6. ASSUME NEW p \in Proc PROVE ~FirstLoop(p)
  <2>1. open[0] = PipeEnd /\ <<"WRITE", p>> \in open[0] /\ 0 \in Proc
    BY <1>1, RingFacts DEF Ends, Held, PipeEnd
  <2>2. OneMessage(p) /\ ~EndOfFile(p) /\ \A m \in Message : ~Received(p, m)
    BY <1>1, <2>1 DEF OneMessage, EndOfFile, Received
  <2> QED BY <2>2, FirstLoopCases
<1>7. ASSUME NEW p \in Proc, Step(p), ~(p = 0 /\ (Fork \/ ForksDone)), ~PipeClose(p), ~FirstLoop(p)
      PROVE  FALSE
  <2>1. pc[p] \in {"fork", "close", "absent", "read1", "unborn"}
    BY <1>1
  <2> QED BY <1>7, <2>1 DEF Step, ReadByte, Peek, Rewind, ReadEnd, PrintLine, SendPass, SendDone,
                             SendEnd, ReportError, SecondLoop, Announce, FreeAll, Return
<1> QED
  BY <1>2, <1>3, <1>4, <1>5, <1>6, <1>7 DEF Next

(***************************************************************************)
(* The order of what is printed                                            *)
(***************************************************************************)
LEMMA FreshKept ==
  ASSUME TypeOK, Fresh, got' = got, tail' = tail, NEW p \in Proc, NEW next, Goto(p, next),
         next \notin {"absent", "killed"}
  PROVE  Fresh'
<1>1. \A q \in Proc : pc'[q] \in {"absent", "killed"} => pc'[q] = pc[q]
  BY DEF Goto, TypeOK
<1> SUFFICES ASSUME NEW q \in Proc, got[q] # "none"
             PROVE  /\ pc'[q] # "absent"
                    /\ tail = "zero" /\ q # 0 => pc'[q - 1] \notin {"absent", "killed"}
  BY DEF Fresh
<1>2. q # 0 => q - 1 \in Proc
  BY RingFacts
<1> QED BY <1>1, <1>2 DEF Fresh

LEMMA FreshTold ==
  ASSUME TypeOK, Fresh, tail' = tail, NEW p \in Proc, NEW m, NEW next, Tells(p, m, next),
         next \notin {"absent", "killed"},
         tail = "zero" /\ p # 0 => pc[p - 1] \notin {"absent", "killed"}
  PROVE  Fresh'
<1>1. \A q \in Proc : pc'[q] \in {"absent", "killed"} => pc'[q] = pc[q]
  BY DEF Tells, Goto, TypeOK
<1>2. pc'[p] = next /\ \A q \in Proc \ {p} : got'[q] = got[q]
  BY DEF Tells, Goto, TypeOK
<1> SUFFICES ASSUME NEW q \in Proc, got'[q] # "none"
             PROVE  /\ pc'[q] # "absent"
                    /\ tail = "zero" /\ q # 0 => pc'[q - 1] \notin {"absent", "killed"}
  BY DEF Fresh
<1>3. q # 0 => q - 1 \in Proc
  BY RingFacts
<1>4. CASE q = p
  BY <1>1, <1>2, <1>3, <1>4
<1>5. CASE q # p
  BY <1>1, <1>2, <1>3, <1>5 DEF Fresh
<1> QED BY <1>4, <1>5

LEMMA JoinedLine ==
  ASSUME NEW v \in Seq(Proc \X Nat), NEW n \in Nat, NEW p \in Proc, NEW e, NEW L, NEW w, L = Len(v), w = v \o e,
         e = [i \in 1 .. n |-> <<p, L + i>>]
  PROVE  /\ Len(w) = L + n
         /\ \A i \in 1 .. L : w[i] = v[i]
         /\ \A i \in L + 1 .. L + n : w[i] = <<p, i>>
<1>1. e \in Seq(Proc \X Nat) /\ Len(e) = n /\ L \in Nat
  <2>1. L \in Nat
    OBVIOUS
  <2>2. \A i \in 1 .. n : <<p, L + i>> \in Proc \X Nat
    BY <2>1
  <2> QED BY <2>1, <2>2
<1>3. /\ Len(w) = L + n
      /\ \A i \in 1 .. L + n : w[i] = IF i <= L THEN v[i] ELSE e[i - L]
  BY <1>1, ConcatProperties
<1>4. ASSUME NEW i \in 1 .. L PROVE w[i] = v[i]
  <2>1. i \in 1 .. L + n /\ i <= L
    BY <1>1
  <2> QED BY <1>3, <2>1
<1>5. ASSUME NEW i \in L + 1 .. L + n PROVE w[i] = <<p, i>>
  <2>1. i \in 1 .. L + n /\ ~(i <= L) /\ i - L \in 1 .. n /\ L + (i - L) = i
    BY <1>1
  <2>2. w[i] = e[i - L]
    BY <1>3, <2>1
  <2> QED BY <2>1, <2>2
<1> QED BY <1>3, <1>4, <1>5

(* The bytes of one gathered line are printed in order, by whose turn it   *)
(* is.                                                                     *)
LEMMA PrintOrdered ==
  ASSUME TypeOK, Ordered, NEW p \in Proc, NEW c \in Nat, Gathered(p, c), Turn = p,
         printed' = printed \o [i \in 1 .. Len(line[p]) |-> <<p, line[p][i]>>], file' = file
  PROVE  /\ Len(printed') = c
         /\ Ordered'
         /\ c > Len(printed) => Turn' = IF file[c] = "nl" THEN Right(p) ELSE p
<1>1. PICK L, n, e :
        /\ L = Len(printed) /\ n = c - L /\ e = [i \in 1 .. n |-> <<p, L + i>>]
  OBVIOUS
<1>2. L \in Nat /\ n \in Nat /\ c = L + n /\ printed \in Seq(Proc \X (1 .. Len(file)))
  BY <1>1 DEF TypeOK, Gathered
<1>3. line[p] = [i \in 1 .. n |-> L + i]
  BY <1>1 DEF Gathered
<1>4. Len(line[p]) = n
  BY <1>2, <1>3
<1>5. [i \in 1 .. Len(line[p]) |-> <<p, line[p][i]>>] = e
  BY <1>1, <1>2, <1>3, <1>4
<1>6. e \in Seq(Proc \X Nat) /\ Len(e) = n
  BY <1>1, <1>2
<1>7. printed \in Seq(Proc \X Nat)
  BY <1>2
<1>8. PICK w : w = printed' /\ w = printed \o e
  BY <1>5
<1>80. PICK v : v = printed /\ v \in Seq(Proc \X Nat) /\ L = Len(v) /\ w = v \o e
  BY <1>1, <1>7, <1>8
<1>81. /\ Len(w) = L + n
       /\ \A i \in 1 .. L : w[i] = v[i]
       /\ \A i \in L + 1 .. L + n : w[i] = <<p, i>>
  <2>1. e = [i \in 1 .. n |-> <<p, L + i>>] /\ n \in Nat
    BY <1>1, <1>2
  <2> QED BY <1>80, <2>1, JoinedLine
<1>82. \A i \in 1 .. L : w[i] = printed[i]
  BY <1>80, <1>81
<1>83. Len(w) = c /\ \A i \in L + 1 .. c : w[i] = <<p, i>>
  BY <1>2, <1>81
<1>9. \A i \in 1 .. L :
        /\ printed[i][2] = i
        /\ printed[i][1] = IF i = 1 THEN 0
                           ELSE IF file[i - 1] = "nl" THEN Right(printed[i - 1][1])
                           ELSE printed[i - 1][1]
  BY <1>1 DEF Ordered
<1>10. L # 0 => /\ Last(printed) = printed[L] /\ printed[L][2] = L
                /\ p = IF file[L] = "nl" THEN Right(printed[L][1]) ELSE printed[L][1]
  <2>1. L # 0 => L \in 1 .. L /\ printed # <<>> /\ Last(printed) = printed[L]
    BY <1>1, <1>2 DEF Last
  <2> QED BY <1>9, <2>1 DEF Turn
<1>11. L = 0 => p = 0
  <2>1. L = 0 => printed = <<>>
    BY <1>1, <1>7, EmptySeq
  <2> QED BY <2>1 DEF Turn
<1>12. Ordered'
  <2> SUFFICES ASSUME NEW i \in 1 .. c
               PROVE  /\ w[i][2] = i
                      /\ w[i][1] = IF i = 1 THEN 0
                                   ELSE IF file[i - 1] = "nl" THEN Right(w[i - 1][1])
                                   ELSE w[i - 1][1]
    BY <1>8, <1>83 DEF Ordered, Right
  <2>1. CASE i <= L
    <3>1. i \in 1 .. L /\ (i # 1 => i - 1 \in 1 .. L)
      BY <1>2, <2>1
    <3> QED BY <1>9, <1>82, <3>1
  <2>2. CASE i > L
    <3>1. i \in L + 1 .. c
      BY <1>2, <2>2
    <3>2. w[i] = <<p, i>>
      BY <1>83, <3>1
    <3>3. CASE i = 1
      <4>1. p = 0
        BY <1>2, <1>11, <2>2, <3>3
      <4> QED BY <3>2, <3>3, <4>1
    <3>4. CASE i # 1 /\ i = L + 1
      <4>1. L \in 1 .. L /\ i - 1 = L /\ L # 0
        BY <1>2, <3>4
      <4>2. w[L] = printed[L]
        BY <1>82, <4>1
      <4> QED BY <1>10, <3>2, <3>4, <4>1, <4>2
    <3>5. CASE i > L + 1
      <4>1. i - 1 \in L + 1 .. c /\ i - 1 \in L + 1 .. c - 1 /\ i # 1
        BY <1>2, <3>5
      <4>2. file[i - 1] # "nl"
        BY <1>1, <4>1 DEF Gathered
      <4>3. w[i - 1] = <<p, i - 1>>
        BY <1>83, <4>1
      <4> QED BY <3>2, <4>1, <4>2, <4>3
    <3> QED BY <1>2, <2>2, <3>3, <3>4, <3>5
  <2> QED BY <1>2, <2>1, <2>2
<1>13. ASSUME c > L PROVE Turn' = IF file[c] = "nl" THEN Right(p) ELSE p
  <2>1. c \in L + 1 .. c
    BY <1>2, <1>13
  <2>2. w[c] = <<p, c>>
    BY <1>83, <2>1
  <2>3. w # <<>> /\ Last(w) = <<p, c>>
    BY <1>2, <1>83, <1>13, <2>2 DEF Last
  <2> QED BY <1>8, <1>13, <2>3 DEF Turn, Right
<1> QED BY <1>1, <1>8, <1>83, <1>12, <1>13

(***************************************************************************)
(* The turn goes round                                                     *)
(***************************************************************************)
LEMMA OthersPass ==
  ASSUME TypeOK, NEW j \in Proc, Passing(j), pipe' = pipe, NEW next, Goto(j, next),
         \A q \in Proc \ {j} : line'[q] = line[q]
  PROVE  \A q \in Proc \ {j} : (pipe[q] = <<>> /\ line[q] = <<>> /\ Parked(q))'
<1>1. \A q \in Proc \ {j} : pc'[q] = pc[q]
  BY DEF Goto, TypeOK
<1> QED BY <1>1 DEF Passing, Parked

(* readFile: the line grows, the look-ahead byte is taken and given back.  *)
LEMMA ReadingStep ==
  ASSUME TypeOK, Fresh, Ordered, announced = <<>>, NEW j \in Proc, Passing(j),
         ReadByte(j) \/ Peek(j) \/ Rewind(j) \/ ReadEnd(j)
  PROVE  OneTurn'
<1>1. /\ pipe[j] = <<>> /\ Reading(j) /\ (tail = "junk" => j = 0)
      /\ pc[j] \in {"line", "peek", "rewind"}
  BY DEF Passing, Parked, ReadByte, Peek, Rewind, ReadEnd
<1>2. /\ UNCHANGED <<file, tail, pipe, printed, announced, got>>
      /\ \A q \in Proc \ {j} : line'[q] = line[q]
  BY DEF ReadByte, Peek, Rewind, ReadEnd, fileVars, output, TypeOK
<1>3. PICK next \in {"line", "peek", "rewind", "printLine", "printLast"} : Goto(j, next)
  BY DEF ReadByte, Peek, Rewind, ReadEnd
<1>4. Turn' = Turn /\ Turn = j /\ Ordered' /\ Fresh'
  BY <1>1, <1>2, <1>3, OrderedKept, FreshKept DEF Reading
<1>5. PICK L : L = Len(printed) /\ L \in Nat /\ Len(printed') = L
  <2>1. Len(printed) \in Nat
    BY DEF TypeOK
  <2> QED BY <1>2, <2>1
<1>6. PICK c : c = cursor /\ c \in Nat
  BY DEF TypeOK
<1>7. pc'[j] = next
  BY <1>3 DEF Goto, TypeOK
<1>8. Reading(j)'
  <2>1. CASE ReadByte(j)
    <3>1. /\ c >= L /\ line[j] = [i \in 1 .. c - L |-> L + i]
          /\ \A i \in L + 1 .. c - 1 : file[i] # "nl"
          /\ c > L => file[c] # "nl"
      BY <1>1, <1>5, <1>6, <2>1 DEF ReadByte, Reading, Gathered
    <3>2. /\ cursor' = c + 1 /\ line'[j] = Append(line[j], c + 1)
          /\ pc'[j] = IF file[c + 1] = "nl" THEN "peek" ELSE "line"
      BY <1>6, <2>1 DEF ReadByte, Goto, TypeOK
    <3>3. line'[j] = [i \in 1 .. c + 1 - L |-> L + i]
      <4>0. PICK n : n = c - L
        OBVIOUS
      <4>1. n = c - L /\ n \in Nat /\ c + 1 - L = n + 1 /\ c + 1 = L + (n + 1)
        BY <1>5, <1>6, <3>1, <4>0
      <4>2. line[j] = [i \in 1 .. n |-> L + i]
        BY <3>1, <4>1
      <4>3. Append(line[j], L + (n + 1)) = [i \in 1 .. n + 1 |-> L + i]
        BY <1>5, <4>1, <4>2
      <4> QED BY <3>2, <4>1, <4>3
    <3>4. c + 1 >= L /\ c + 1 > L /\ \A i \in L + 1 .. c + 1 - 1 : file[i] # "nl"
      BY <1>5, <1>6, <3>1
    <3>5. Gathered(j, cursor)'
      <4>1. PICK e \in Nat : e = c + 1 /\ cursor' = e /\ e >= L
        BY <1>6, <3>2, <3>4
      <4>2. line'[j] = [i \in 1 .. e - L |-> L + i]
        BY <1>5, <1>6, <3>3, <4>1
      <4>3. \A i \in L + 1 .. e - 1 : file'[i] # "nl"
        BY <1>2, <1>5, <1>6, <3>4, <4>1
      <4> QED BY <1>5, <4>1, <4>2, <4>3 DEF Gathered
    <3>6. CASE file[c + 1] = "nl"
      BY <1>2, <1>4, <1>5, <3>2, <3>4, <3>5, <3>6 DEF Reading, WholeLine
    <3>7. CASE file[c + 1] # "nl"
      BY <1>2, <1>4, <1>5, <3>2, <3>4, <3>5, <3>7 DEF Reading
    <3> QED BY <3>6, <3>7
  <2>2. CASE Peek(j)
    <3>1. WholeLine(j, c) /\ cursor' = c + 1 /\ cursor' - 1 = c /\ line' = line /\ pc'[j] = "rewind"
      BY <1>1, <1>6, <2>2 DEF Peek, Reading, Goto, TypeOK
    <3>2. WholeLine(j, cursor - 1)'
      BY <1>2, <3>1 DEF WholeLine, Gathered
    <3> QED BY <1>4, <3>1, <3>2 DEF Reading
  <2>3. CASE Rewind(j)
    <3>1. WholeLine(j, c - 1) /\ cursor' = c - 1 /\ line' = line /\ pc'[j] = "printLine"
      BY <1>1, <1>6, <2>3 DEF Rewind, Reading, Goto, TypeOK
    <3>2. WholeLine(j, cursor)'
      BY <1>2, <3>1 DEF WholeLine, Gathered
    <3> QED BY <1>4, <3>1, <3>2 DEF Reading
  <2>4. CASE ReadEnd(j)
    <3>1. Gathered(j, c) /\ cursor' = c /\ c = Len(file) /\ line' = line /\ pc'[j] = "printLast"
      BY <1>1, <1>6, <2>4 DEF ReadEnd, Reading, WholeLine, Goto, TypeOK, fileVars
    <3>2. Gathered(j, cursor)'
      BY <1>2, <3>1 DEF Gathered
    <3> QED BY <1>2, <1>4, <3>1, <3>2 DEF Reading
  <2> QED BY <2>1, <2>2, <2>3, <2>4
<1>9. Passing(j)'
  BY <1>1, <1>2, <1>3, <1>8, OthersPass DEF Passing
<1> QED BY <1>2, <1>4, <1>9, EnterRound

LEMMA PrintLineStep ==
  ASSUME TypeOK, Fresh, Ordered, announced = <<>>, NEW j \in Proc, Passing(j), PrintLine(j)
  PROVE  OneTurn'
<1>1. /\ pipe[j] = <<>> /\ Reading(j) /\ (tail = "junk" => j = 0)
      /\ pc[j] \in {"printLine", "printLast"}
  BY DEF Passing, Parked, PrintLine
<1>2. /\ UNCHANGED <<file, cursor, tail, pipe, announced, got>>
      /\ line'[j] = <<>> /\ \A q \in Proc \ {j} : line'[q] = line[q]
      /\ printed' = printed \o [i \in 1 .. Len(line[j]) |-> <<j, line[j][i]>>]
  BY DEF PrintLine, TypeOK
<1>3. PICK c : c = cursor /\ c \in Nat
  BY DEF TypeOK
<1>4. Gathered(j, c) /\ Turn = j
  BY <1>1, <1>3 DEF Reading, WholeLine
<1>5. /\ Len(printed') = c /\ Ordered'
      /\ c > Len(printed) => Turn' = IF file[c] = "nl" THEN Right(j) ELSE j
  BY <1>2, <1>3, <1>4, PrintOrdered
<1>6. CASE pc[j] = "printLine"
  <2>1. Goto(j, "sendPass") /\ pc'[j] = "sendPass"
    BY <1>6 DEF PrintLine, Goto, TypeOK
  <2>2. Turn' = Right(j) /\ Right(j)' = Right(j)
    BY <1>1, <1>3, <1>5, <1>6 DEF Reading, WholeLine, Right
  <2>3. Fresh'
    BY <1>2, <2>1, FreshKept
  <2>4. \A q \in Proc \ {j} : (pipe[q] = <<>> /\ line[q] = <<>> /\ Parked(q))'
    BY <1>2, <2>1, OthersPass
  <2>5. Passing(j)'
    BY <1>1, <1>2, <1>3, <1>5, <2>1, <2>2, <2>4 DEF Passing
  <2> QED BY <1>2, <1>5, <2>3, <2>5, EnterRound
<1>7. CASE pc[j] = "printLast"
  <2>1. Goto(j, "sendDone") /\ pc'[j] = "sendDone"
    BY <1>7 DEF PrintLine, Goto, TypeOK
  <2>2. AllPrinted'
    BY <1>1, <1>2, <1>3, <1>5, <1>7 DEF AllPrinted, Reading
  <2>3. Fresh'
    BY <1>2, <2>1, FreshKept
  <2>4. \A q \in Proc \ {j} : (pipe[q] = <<>> /\ line[q] = <<>> /\ Parked(q))'
    BY <1>2, <2>1, OthersPass
  <2>5. Broke(j, j)' = {}
    <3>1. \A q \in Proc : ~(j <= q /\ q < j) /\ j <= j
      BY DEF Proc
    <3> QED BY <3>1 DEF Broke
  <2>6. FirstRound(j, j)'
    BY <1>1, <1>2, <2>1, <2>2, <2>4, <2>5 DEF FirstRound
  <2> QED BY <1>2, <1>5, <2>3, <2>6, EnterFirst
<1> QED BY <1>1, <1>6, <1>7

(* The message arrives, or it finds no reader and its sender dies.         *)
LEMMA SendCases ==
  ASSUME TypeOK, NEW p \in Proc, NEW j \in Proc, NEW m, NEW next, Writes(p, j, m, next), pipe[j] = <<>>
  PROVE  /\ UNCHANGED <<file, cursor, line, tail, got, printed, announced>>
         /\ \/ pipe' = [pipe EXCEPT ![j] = <<m>>] /\ Goto(p, next)
            \/ /\ pipe' = pipe /\ Goto(p, "killed")
               /\ \A q \in Proc : <<"READ", j>> \notin open[q]
<1>1. Append(pipe[j], m) = <<m>>
  OBVIOUS
<1>2. [pipe EXCEPT ![j] = Append(@, m)] = [pipe EXCEPT ![j] = <<m>>]
  BY <1>1
<1> QED BY <1>2 DEF Writes, fileVars, output

LEMMA LostTurn ==
  ASSUME TypeOK, Ends, Fresh, Ordered, announced = <<>>, NEW j \in Proc,
         UNCHANGED <<file, tail, got, pipe, printed, announced>>, Goto(j, "killed"),
         pipe[j] = <<>>, pc[j] # "absent",
         \A q \in Proc : <<"READ", Right(j)>> \notin open[q],
         \A q \in Proc \ {j} : pipe[q] = <<>> /\ (pc[q] = "read2" \/ Parked(q))
  PROVE  OneTurn'
<1>1. Right(j) \in Proc /\ Right(j) # j
  BY RingFacts
<1>2. pc[Right(j)] = "absent"
  <2>1. pc[Right(j)] \in {"read2", "read1", "absent", "close", "error"}
    BY <1>1 DEF Parked
  <2> QED BY <1>1, <2>1, Holds
<1>3. pc'[j] = "killed" /\ \A q \in Proc \ {j} : pc'[q] = pc[q]
  BY DEF Goto, TypeOK
<1>4. Stuck'
  <2> SUFFICES ASSUME NEW q \in Proc
               PROVE  /\ pipe'[q] = <<>>
                      /\ pc'[q] \in {"killed", "read1", "read2"}
                            \cup IF q = 0 THEN {} ELSE {"absent", "close", "error"}
                      /\ pc'[q] = "killed" => pc'[Right(q)] = "absent"
    BY DEF Stuck, Right
  <2>1. CASE q = j
    BY <1>1, <1>2, <1>3, <2>1
  <2>2. CASE q # j
    BY <1>3, <2>2 DEF Parked
  <2> QED BY <2>1, <2>2
<1>5. Fresh'
  <2> SUFFICES ASSUME NEW q \in Proc, got[q] # "none"
               PROVE  /\ pc'[q] # "absent"
                      /\ tail = "zero" /\ q # 0 => pc'[q - 1] \notin {"absent", "killed"}
    BY DEF Fresh
  <2>1. q # 0 => q - 1 \in Proc /\ Right(q - 1) = q
    BY RingFacts
  <2>2. pc[q] # "absent" /\ pc'[q] # "absent"
    BY <1>3 DEF Fresh
  <2>3. q # 0 => q - 1 # j
    BY <1>2, <2>1, <2>2
  <2> QED BY <1>3, <2>1, <2>2, <2>3 DEF Fresh
<1> QED BY <1>4, <1>5, Enter, OrderedKept

LEMMA SendPassStep ==
  ASSUME TypeOK, Ends, Fresh, Ordered, announced = <<>>, NEW j \in Proc, Passing(j), SendPass(j)
  PROVE  OneTurn'
<1>1. /\ pipe[j] = <<>> /\ line[j] = <<>> /\ Turn = Right(j) /\ cursor = Len(printed)
      /\ tail = "junk" => j = 0
      /\ pc[j] = "sendPass"
  BY DEF Passing, Parked, Reading, SendPass
<1>2. PICK k : k = Right(j) /\ k \in Proc /\ k # j /\ (k # 0 => k - 1 = j) /\ (j = 0 => k = 1)
  BY RingFacts
<1>3. \A q \in Proc \ {j} : pipe[q] = <<>> /\ line[q] = <<>> /\ Parked(q)
  BY DEF Passing
<1>4. /\ UNCHANGED <<file, cursor, line, tail, got, printed, announced>>
      /\ \/ pipe' = [pipe EXCEPT ![k] = <<"pass">>] /\ Goto(j, "read1")
         \/ /\ pipe' = pipe /\ Goto(j, "killed")
            /\ \A q \in Proc : <<"READ", k>> \notin open[q]
  BY <1>2, <1>3, SendCases DEF SendPass
<1>5. CASE pipe' = [pipe EXCEPT ![k] = <<"pass">>] /\ Goto(j, "read1")
  <2>1. /\ pc'[j] = "read1" /\ \A q \in Proc \ {j} : pc'[q] = pc[q]
        /\ pipe'[k] = <<"pass">> /\ \A q \in Proc \ {k} : pipe'[q] = <<>>
    BY <1>1, <1>2, <1>3, <1>5 DEF Goto, TypeOK
  <2>2. \A q \in Proc : Parked(q)'
    BY <1>3, <2>1 DEF Parked
  <2>3. \A q \in Proc \ {k} : (pipe[q] = <<>> /\ line[q] = <<>> /\ Parked(q))'
    BY <1>1, <1>3, <1>4, <2>1, <2>2
  <2>4. Turn' = k /\ Ordered' /\ Fresh'
    BY <1>1, <1>2, <1>4, <1>5, OrderedKept, FreshKept
  <2>5. k # 0 => pc'[k - 1] # "absent"
    BY <1>2, <2>1
  <2>6. Passing(k)'
    BY <1>1, <1>2, <1>3, <1>4, <2>1, <2>2, <2>3, <2>4, <2>5 DEF Passing
  <2> QED BY <1>2, <1>4, <2>4, <2>6, EnterRound
<1>6. CASE /\ pipe' = pipe /\ Goto(j, "killed")
           /\ \A q \in Proc : <<"READ", k>> \notin open[q]
  BY <1>1, <1>2, <1>3, <1>4, <1>6, LostTurn
<1> QED BY <1>4, <1>5, <1>6

(* The child that has the turn sees `pass' if a zero follows it.           *)
LEMMA ReceivePass ==
  ASSUME TypeOK, Fresh, Ordered, announced = <<>>, NEW j \in Proc, Passing(j),
         NEW m \in Message, FirstLoop(j), Received(j, m), Tells(j, m, AfterRead(j, m)),
         UNCHANGED <<tail, fileVars, output>>
  PROVE  OneTurn'
<1>1. /\ m = "pass" /\ line[j] = <<>> /\ Parked(j) /\ Turn = j /\ cursor = Len(printed)
      /\ j # 0 => pc[j - 1] # "absent"
      /\ tail = "junk" => j = 1
  <2>1. pipe[j] = <<"pass">>
    BY DEF Received, Passing
  <2>2. m = "pass"
    BY <2>1 DEF Received
  <2> QED BY <2>1, <2>2 DEF Passing
<1>2. \A q \in Proc \ {j} : pipe[q] = <<>> /\ line[q] = <<>> /\ Parked(q)
  BY DEF Passing
<1>3. /\ UNCHANGED <<file, cursor, line, tail, printed, announced>>
      /\ \A q \in Proc : pipe'[q] = <<>>
      /\ pc'[j] = AfterRead(j, m) /\ \A q \in Proc \ {j} : pc'[q] = pc[q]
  BY <1>2 DEF Received, Tells, Goto, TypeOK, fileVars, output
<1>4. Ordered' /\ Turn' = j
  BY <1>1, <1>3, OrderedKept
<1>5. \A q \in Proc \ {j} : (pipe[q] = <<>> /\ line[q] = <<>> /\ Parked(q))'
  BY <1>2, <1>3 DEF Parked
<1>6. CASE tail = "zero"
  <2>1. AfterRead(j, m) = "line"
    BY <1>1, <1>6 DEF AfterRead
  <2>2. j # 0 => pc[j - 1] \notin {"absent", "killed"}
    BY <1>1, <1>2, RingFacts DEF Parked
  <2>3. Fresh'
    BY <1>3, <2>1, <2>2, FreshTold
  <2>4. Reading(j)'
    <3>1. PICK L : L = Len(printed) /\ L \in Nat
      <4>1. Len(printed) \in Nat
        BY DEF TypeOK
      <4> QED BY <4>1
    <3>2. <<>> = [i \in 1 .. L - L |-> L + i] /\ \A i \in L + 1 .. L - 1 : file[i] # "nl"
      BY <3>1
    <3>3. cursor' = L /\ line'[j] = <<>> /\ Len(printed') = L /\ file' = file
      BY <1>1, <1>3, <3>1
    <3>4. Gathered(j, cursor)'
      BY <3>1, <3>2, <3>3 DEF Gathered
    <3> QED BY <1>3, <1>4, <2>1, <3>1, <3>3, <3>4 DEF Reading
  <2>5. Passing(j)'
    BY <1>3, <1>5, <1>6, <2>4 DEF Passing
  <2> QED BY <1>3, <1>4, <2>3, <2>5, EnterRound
<1>7. CASE tail = "junk"
  <2>1. j = 1 /\ AfterRead(j, m) = "error"
    BY <1>1, <1>7 DEF AfterRead
  <2>2. Fresh'
    BY <1>3, <1>7, <2>1, FreshTold
  <2>3. Stuck'
    <3> SUFFICES ASSUME NEW q \in Proc
                 PROVE  /\ pipe'[q] = <<>>
                        /\ pc'[q] \in {"read1", "read2"} \cup IF q = 0 THEN {} ELSE {"absent", "close", "error"}
      BY DEF Stuck, Right
    <3>1. CASE q = j
      BY <1>3, <2>1, <3>1
    <3>2. CASE q # j
      BY <1>3, <1>5, <3>2 DEF Parked
    <3> QED BY <3>1, <3>2
  <2> QED BY <1>3, <1>4, <2>2, <2>3, Enter
<1> QED BY <1>6, <1>7, TailsAssumption DEF TypeOK

(***************************************************************************)
(* `done' goes round for the first time                                    *)
(***************************************************************************)
LEMMA BrokeNext ==
  ASSUME NEW d \in Proc, NEW j \in Proc, Right(j) # d
  PROVE  Right(j) \notin Broke(d, j) /\ Broke(d, Right(j)) = Broke(d, j) \cup {j}
<1>1. d \in 0 .. SIZ - 1 /\ j \in 0 .. SIZ - 1 /\ SIZ \in Nat /\ SIZ > 3
  BY DEF Proc
<1>2. CASE j = SIZ - 1
  <2>1. Right(j) = 0 /\ d # 0
    BY <1>2, RingFacts DEF LastChild
  <2>2. \A q \in 0 .. SIZ - 1 : /\ q \in Broke(d, j) <=> d <= q /\ q < j
                                /\ q \in Broke(d, 0) <=> d <= q \/ q < 0
    BY <1>1, <1>2, <2>1 DEF Broke, Proc
  <2>3. \A q \in 0 .. SIZ - 1 : q \in Broke(d, 0) <=> q \in Broke(d, j) \/ q = j
    BY <1>1, <1>2, <2>2
  <2>4. 0 \notin Broke(d, j)
    BY <1>1, <2>1, <2>2
  <2> QED BY <1>1, <2>1, <2>3, <2>4 DEF Broke, Proc
<1>3. CASE j # SIZ - 1
  <2>1. Right(j) = j + 1 /\ d # j + 1
    BY <1>3, RingFacts DEF LastChild
  <2>2. PICK k : k = j + 1 /\ k \in 0 .. SIZ - 1
    BY <1>1, <1>3
  <2>3. \A q \in 0 .. SIZ - 1 : /\ q \in Broke(d, j) <=> IF d <= j THEN d <= q /\ q < j ELSE d <= q \/ q < j
                                /\ q \in Broke(d, k) <=> IF d <= k THEN d <= q /\ q < k ELSE d <= q \/ q < k
    BY DEF Broke, Proc
  <2>4. \A q \in 0 .. SIZ - 1 : q \in Broke(d, k) <=> q \in Broke(d, j) \/ q = j
    BY <1>1, <2>1, <2>2, <2>3
  <2>5. k \notin Broke(d, j)
    BY <1>1, <2>1, <2>2, <2>3
  <2> QED BY <1>1, <2>1, <2>2, <2>4, <2>5 DEF Broke, Proc
<1> QED BY <1>2, <1>3

LEMMA BrokeAll ==
  ASSUME NEW d \in Proc, NEW j \in Proc, Right(j) = d, NEW q \in Proc, q # j
  PROVE  q \in Broke(d, j)
<1>1. d \in 0 .. SIZ - 1 /\ j \in 0 .. SIZ - 1 /\ q \in 0 .. SIZ - 1 /\ SIZ \in Nat /\ SIZ > 3
  BY DEF Proc
<1>2. d = IF j = SIZ - 1 THEN 0 ELSE j + 1
  BY RingFacts DEF LastChild
<1>3. IF d <= j THEN d <= q /\ q < j ELSE d <= q \/ q < j
  BY <1>1, <1>2
<1> QED BY <1>3 DEF Broke

LEMMA BrokeLeft ==
  ASSUME NEW d \in Proc, NEW j \in Proc, j # d, j # 0
  PROVE  j - 1 \in Broke(d, j)
<1>1. d \in 0 .. SIZ - 1 /\ j \in 0 .. SIZ - 1 /\ j - 1 \in Proc /\ SIZ \in Nat
  BY RingFacts DEF Proc
<1>2. IF d <= j THEN d <= j - 1 /\ j - 1 < j ELSE d <= j - 1 \/ j - 1 < j
  BY <1>1
<1> QED BY <1>1, <1>2 DEF Broke

LEMMA SendFirstDone ==
  ASSUME TypeOK, Ends, Fresh, Ordered, announced = <<>>, NEW d \in Proc, NEW j \in Proc,
         FirstRound(d, j), SendDone(j)
  PROVE  OneTurn'
<1>1. /\ pipe[j] = <<>> /\ pc[j] = "sendDone" /\ AllPrinted
      /\ tail = "junk" => j = 0
  BY DEF FirstRound, Parked, SendDone
<1>2. PICK k : k = Right(j) /\ k \in Proc /\ k # j /\ (j = 0 => k = 1)
  BY RingFacts
<1>3. \A q \in Proc \ {j} : pipe[q] = <<>> /\ IF q \in Broke(d, j) THEN pc[q] = "read2" ELSE Parked(q)
  BY DEF FirstRound
<1>4. /\ UNCHANGED <<file, cursor, line, tail, got, printed, announced>>
      /\ \/ pipe' = [pipe EXCEPT ![k] = <<"done">>] /\ Goto(j, "read2")
         \/ /\ pipe' = pipe /\ Goto(j, "killed")
            /\ \A q \in Proc : <<"READ", k>> \notin open[q]
  BY <1>2, <1>3, SendCases DEF SendDone
<1>5. AllPrinted'
  BY <1>1, <1>4 DEF AllPrinted
<1>6. CASE pipe' = [pipe EXCEPT ![k] = <<"done">>] /\ Goto(j, "read2")
  <2>1. /\ pc'[j] = "read2" /\ \A q \in Proc \ {j} : pc'[q] = pc[q]
        /\ pipe'[k] = <<"done">> /\ \A q \in Proc \ {k} : pipe'[q] = <<>>
    BY <1>1, <1>2, <1>3, <1>6 DEF Goto, TypeOK
  <2>2. Ordered' /\ Fresh'
    BY <1>4, <1>6, OrderedKept, FreshKept
  <2>3. CASE k = d
    <3>1. \A q \in Proc : pc'[q] = "read2"
      BY <1>2, <1>3, <2>1, <2>3, BrokeAll
    <3>2. SecondRound(k)'
      BY <1>2, <1>5, <2>1, <3>1 DEF SecondRound
    <3> QED BY <1>2, <1>4, <2>2, <3>2, EnterRound
  <2>4. CASE k # d
    <3>1. Broke(d, k) = Broke(d, j) \cup {j} /\ k \notin Broke(d, j) /\ Broke(d, k)' = Broke(d, k)
      BY <1>2, <2>4, BrokeNext DEF Broke
    <3>2. ASSUME NEW q \in Proc \ {k}
          PROVE  pipe'[q] = <<>> /\ IF q \in Broke(d, k) THEN pc'[q] = "read2" ELSE Parked(q)'
      BY <1>3, <2>1, <3>1 DEF Parked
    <3>3. Parked(k)'
      BY <1>2, <1>3, <2>1, <3>1 DEF Parked
    <3>4. FirstRound(d, k)'
      BY <1>1, <1>2, <1>4, <1>5, <2>1, <2>4, <3>1, <3>2, <3>3 DEF FirstRound
    <3> QED BY <1>2, <1>4, <2>2, <3>4, EnterFirst
  <2> QED BY <2>3, <2>4
<1>7. CASE /\ pipe' = pipe /\ Goto(j, "killed")
           /\ \A q \in Proc : <<"READ", k>> \notin open[q]
  BY <1>1, <1>2, <1>3, <1>4, <1>7, LostTurn
<1> QED BY <1>4, <1>6, <1>7

LEMMA ReceiveFirstDone ==
  ASSUME TypeOK, Fresh, Ordered, announced = <<>>, NEW d \in Proc, NEW j \in Proc, FirstRound(d, j),
         NEW m \in Message, FirstLoop(j), Received(j, m), Tells(j, m, AfterRead(j, m)),
         UNCHANGED <<tail, fileVars, output>>
  PROVE  OneTurn'
<1>1. /\ m = "done" /\ Parked(j) /\ j # d /\ AllPrinted
      /\ tail = "junk" => j = 1
  <2>1. pipe[j] = <<"done">>
    BY DEF Received, FirstRound
  <2>2. m = "done"
    BY <2>1 DEF Received
  <2> QED BY <2>1, <2>2 DEF FirstRound
<1>2. \A q \in Proc \ {j} : pipe[q] = <<>> /\ IF q \in Broke(d, j) THEN pc[q] = "read2" ELSE Parked(q)
  BY DEF FirstRound
<1>3. /\ UNCHANGED <<file, cursor, line, tail, printed, announced>>
      /\ \A q \in Proc : pipe'[q] = <<>>
      /\ pc'[j] = AfterRead(j, m) /\ \A q \in Proc \ {j} : pc'[q] = pc[q]
  BY <1>2 DEF Received, Tells, Goto, TypeOK, fileVars, output
<1>4. Ordered' /\ AllPrinted' /\ Broke(d, j)' = Broke(d, j)
  BY <1>1, <1>3, OrderedKept DEF AllPrinted, Broke
<1>5. \A q \in Proc \ {j} : /\ pipe'[q] = <<>>
                            /\ IF q \in Broke(d, j) THEN pc'[q] = "read2" ELSE Parked(q)'
  BY <1>2, <1>3 DEF Parked
<1>6. CASE tail = "zero"
  <2>1. AfterRead(j, m) = "sendDone"
    BY <1>1, <1>6 DEF AfterRead
  <2>2. j # 0 => pc[j - 1] \notin {"absent", "killed"}
    <3>1. j # 0 => j - 1 \in Proc \ {j} /\ j - 1 \in Broke(d, j)
      BY <1>1, BrokeLeft, RingFacts
    <3> QED BY <1>2, <3>1
  <2>3. Fresh'
    BY <1>3, <2>1, <2>2, FreshTold
  <2>4. FirstRound(d, j)'
    BY <1>3, <1>4, <1>5, <1>6, <2>1 DEF FirstRound
  <2> QED BY <1>3, <1>4, <2>3, <2>4, EnterFirst
<1>7. CASE tail = "junk"
  <2>1. j = 1 /\ AfterRead(j, m) = "error"
    BY <1>1, <1>7 DEF AfterRead
  <2>2. Fresh'
    BY <1>3, <1>7, <2>1, FreshTold
  <2>3. Stuck'
    <3> SUFFICES ASSUME NEW q \in Proc
                 PROVE  /\ pipe'[q] = <<>>
                        /\ pc'[q] \in {"read1", "read2"} \cup IF q = 0 THEN {} ELSE {"absent", "close", "error"}
      BY DEF Stuck, Right
    <3>1. CASE q = j
      BY <1>3, <2>1, <3>1
    <3>2. CASE q # j
      BY <1>3, <1>5, <3>2 DEF Parked
    <3> QED BY <3>1, <3>2
  <2> QED BY <1>3, <1>4, <2>2, <2>3, Enter
<1> QED BY <1>6, <1>7, TailsAssumption DEF TypeOK

(***************************************************************************)
(* Every step while the turn circles                                       *)
(***************************************************************************)
LEMMA CirclingQuiet ==
  ASSUME TypeOK, Ends, OneTurn, announced = <<>>, Circling, NEW p \in Proc,
         PipeClose(p) \/ ReportError(p) \/ (EndOfFile(p) /\ (FirstLoop(p) \/ SecondLoop(p)))
  PROVE  OneTurn' \/ Silent'
<1>1. ~Starting
  <2>1. pc[0] \notin {"fork", "close"}
    BY CirclingFacts, RingFacts
  <2> QED BY <2>1 DEF Starting
<1>2. Fresh
  BY DEF OneTurn
<1>3. CASE PipeClose(p) \/ ReportError(p)
  <2>1. p # 0
    BY <1>3, CirclingFacts DEF PipeClose, ReportError
  <2> QED BY <1>1, <1>3, <2>1, QuietActions, QuietKeeps
<1>4. CASE EndOfFile(p) /\ FirstLoop(p) /\ p # 0
  BY <1>1, <1>2, <1>4, ChildEof, QuietKeeps
<1>5. CASE EndOfFile(p) /\ FirstLoop(p) /\ p = 0
  BY <1>5, ParentEof
<1>6. CASE EndOfFile(p) /\ SecondLoop(p)
  BY <1>1, <1>6, QuietActions, QuietKeeps
<1> QED BY <1>3, <1>4, <1>5, <1>6

(* While the turn circles only these are left to do.                       *)
LEMMA CirclingActions ==
  ASSUME TypeOK, Circling, NEW p \in Proc, Step(p)
  PROVE  \/ PipeClose(p) \/ ReportError(p) \/ (EndOfFile(p) /\ (FirstLoop(p) \/ SecondLoop(p)))
         \/ ReadByte(p) \/ Peek(p) \/ Rewind(p) \/ ReadEnd(p) \/ PrintLine(p)
         \/ SendPass(p) \/ SendDone(p)
         \/ (pipe[p] # <<>> /\ pc[p] = "read2")
         \/ \E m \in Message : /\ pc[p] = "read1" /\ FirstLoop(p) /\ Received(p, m)
                               /\ Tells(p, m, AfterRead(p, m))
                               /\ UNCHANGED <<tail, fileVars, output>>
<1>1. OneMessage(p) /\ pc[p] \notin {"unborn", "fork"} \cup Leaving
  <2>1. pipe[p] \in {<<>>, <<"pass">>, <<"done">>}
    BY CirclingFacts
  <2> QED BY <2>1, CirclingFacts DEF OneMessage, Message
<1>2. CASE FirstLoop(p)
  BY <1>1, <1>2, FirstLoopCases
<1>3. CASE SecondLoop(p)
  <2>1. pc[p] = "read2" /\ (EndOfFile(p) \/ pipe[p] # <<>>)
    BY <1>1, <1>3, SecondLoopCases DEF Received
  <2> QED BY <1>3, <2>1
<1>4. /\ ~(p = 0 /\ (Fork \/ ForksDone))
      /\ ~SendEnd(p) /\ ~Announce(p) /\ ~FreeAll(p) /\ ~Return(p)
  BY <1>1 DEF Fork, ForksDone, SendEnd, Announce, FreeAll, Return, Leaving
<1> QED BY <1>2, <1>3, <1>4 DEF Step

LEMMA PassingStep ==
  ASSUME TypeOK, Ends, OneTurn, announced = <<>>, NEW j \in Proc, Passing(j), NEW p \in Proc, Step(p)
  PROVE  OneTurn' \/ Silent'
<1>1. Circling /\ Fresh /\ Ordered
  BY DEF Circling, OneTurn
<1>2. CASE PipeClose(p) \/ ReportError(p) \/ (EndOfFile(p) /\ (FirstLoop(p) \/ SecondLoop(p)))
  BY <1>1, <1>2, CirclingQuiet
<1>3. \A q \in Proc \ {j} : pipe[q] = <<>> /\ pc[q] \in {"absent", "close", "read1", "error"}
  BY DEF Passing, Parked
<1>4. CASE ReadByte(p) \/ Peek(p) \/ Rewind(p) \/ ReadEnd(p)
  <2>1. p = j
    BY <1>3, <1>4 DEF ReadByte, Peek, Rewind, ReadEnd
  <2> QED BY <1>1, <1>4, <2>1, ReadingStep
<1>5. CASE PrintLine(p)
  <2>1. p = j
    BY <1>3, <1>5 DEF PrintLine
  <2> QED BY <1>1, <1>5, <2>1, PrintLineStep
<1>6. CASE SendPass(p)
  <2>1. p = j
    BY <1>3, <1>6 DEF SendPass
  <2> QED BY <1>1, <1>6, <2>1, SendPassStep
<1>7. ~SendDone(p) /\ pc[p] # "read2"
  BY <1>3 DEF SendDone, Passing, Parked, Reading
<1>8. ASSUME NEW m \in Message, FirstLoop(p), Received(p, m), Tells(p, m, AfterRead(p, m)),
             UNCHANGED <<tail, fileVars, output>>
      PROVE  OneTurn'
  <2>1. p = j
    BY <1>3, <1>8 DEF Received
  <2> QED BY <1>1, <1>8, <2>1, ReceivePass
<1> QED BY <1>1, <1>2, <1>4, <1>5, <1>6, <1>7, <1>8, CirclingActions

LEMMA FirstRoundStep ==
  ASSUME TypeOK, Ends, OneTurn, announced = <<>>, NEW d \in Proc, NEW j \in Proc, FirstRound(d, j),
         NEW p \in Proc, Step(p)
  PROVE  OneTurn' \/ Silent'
<1>1. Circling /\ Fresh /\ Ordered
  BY DEF Circling, OneTurn
<1>2. CASE PipeClose(p) \/ ReportError(p) \/ (EndOfFile(p) /\ (FirstLoop(p) \/ SecondLoop(p)))
  BY <1>1, <1>2, CirclingQuiet
<1>3. \A q \in Proc \ {j} : pipe[q] = <<>> /\ pc[q] \in {"absent", "close", "read1", "error", "read2"}
  BY DEF FirstRound, Parked
<1>4. pc[j] \in {"absent", "close", "read1", "error", "sendDone"}
  BY DEF FirstRound, Parked
<1>5. ~ReadByte(p) /\ ~Peek(p) /\ ~Rewind(p) /\ ~ReadEnd(p) /\ ~PrintLine(p) /\ ~SendPass(p)
  BY <1>3, <1>4 DEF ReadByte, Peek, Rewind, ReadEnd, PrintLine, SendPass
<1>6. CASE SendDone(p)
  <2>1. p = j
    BY <1>3, <1>6 DEF SendDone
  <2> QED BY <1>1, <1>6, <2>1, SendFirstDone
<1>7. ~(pipe[p] # <<>> /\ pc[p] = "read2")
  BY <1>3, <1>4
<1>8. ASSUME NEW m \in Message, FirstLoop(p), Received(p, m), Tells(p, m, AfterRead(p, m)),
             UNCHANGED <<tail, fileVars, output>>
      PROVE  OneTurn'
  <2>1. p = j
    BY <1>3, <1>8 DEF Received
  <2> QED BY <1>1, <1>8, <2>1, ReceiveFirstDone
<1> QED BY <1>1, <1>2, <1>5, <1>6, <1>7, <1>8, CirclingActions

LEMMA StuckStep ==
  ASSUME TypeOK, Ends, OneTurn, announced = <<>>, Stuck, NEW p \in Proc, Step(p)
  PROVE  OneTurn' \/ Silent'
<1>1. Circling
  BY DEF Circling
<1>2. CASE PipeClose(p) \/ ReportError(p) \/ (EndOfFile(p) /\ (FirstLoop(p) \/ SecondLoop(p)))
  BY <1>1, <1>2, CirclingQuiet
<1>3. pipe[p] = <<>> /\ pc[p] \in {"killed", "absent", "close", "read1", "error", "read2"}
  BY DEF Stuck
<1>4. ~ReadByte(p) /\ ~Peek(p) /\ ~Rewind(p) /\ ~ReadEnd(p) /\ ~PrintLine(p) /\ ~SendPass(p) /\ ~SendDone(p)
  BY <1>3 DEF ReadByte, Peek, Rewind, ReadEnd, PrintLine, SendPass, SendDone
<1>5. \A m \in Message : ~Received(p, m)
  BY <1>3 DEF Received
<1> QED BY <1>1, <1>2, <1>3, <1>4, <1>5, CirclingActions

(***************************************************************************)
(* `done' goes up to the last child                                        *)
(***************************************************************************)
LEMMA SecondRoundStep ==
  ASSUME TypeOK, Ends, OneTurn, announced = <<>>, NEW j \in Proc, SecondRound(j), NEW p \in Proc, Step(p)
  PROVE  OneTurn'
<1>1. /\ Fresh /\ Ordered /\ AllPrinted
      /\ \A q \in Proc \ {j} : pipe[q] = <<>> /\ pc[q] = "read2"
      /\ \/ pipe[j] = <<"done">> /\ pc[j] = "read2"
         \/ pipe[j] = <<>> /\ pc[j] = "sendDone" /\ j # LastChild
  BY DEF OneTurn, SecondRound
<1>2. ~Starting
  <2>1. pc[0] \in {"read2", "sendDone"}
    BY <1>1, RingFacts
  <2> QED BY <2>1 DEF Starting
<1>3. SecondLoop(p) \/ SendDone(p)
  <2>1. pc[p] \in {"read2", "sendDone"}
    BY <1>1
  <2> QED BY <2>1 DEF Step, Fork, ForksDone, PipeClose, ReadByte, Peek, Rewind, ReadEnd, PrintLine,
                     SendPass, SendEnd, FirstLoop, ReportError, Announce, FreeAll, Return
<1>4. OneMessage(p)
  BY <1>1 DEF OneMessage, Message
<1>5. CASE SecondLoop(p) /\ EndOfFile(p)
  BY <1>2, <1>5, QuietActions, QuietKeeps
<1>6. ASSUME NEW m \in Message, Received(p, m), Tells(p, m, AfterRead2(p, m)),
             UNCHANGED <<tail, fileVars, output>>
      PROVE  OneTurn'
  <2>1. p = j /\ m = "done"
    <3>1. p = j
      BY <1>1, <1>6 DEF Received
    <3>2. pipe[j] = <<"done">> /\ pipe[j] = <<m>>
      BY <1>1, <1>6, <3>1 DEF Received
    <3> QED BY <3>1, <3>2
  <2>2. /\ UNCHANGED <<file, tail, printed, announced>>
        /\ \A q \in Proc : pipe'[q] = <<>>
        /\ pc'[j] = AfterRead2(j, "done") /\ \A q \in Proc \ {j} : pc'[q] = pc[q]
    BY <1>1, <1>6, <2>1 DEF Received, Tells, Goto, TypeOK, fileVars, output
  <2>3. Ordered' /\ AllPrinted'
    BY <1>1, <2>2, OrderedKept DEF AllPrinted
  <2>4. AfterRead2(j, "done") = IF j = LastChild THEN "announce" ELSE "sendDone"
    BY DEF AfterRead2
  <2>5. Fresh'
    <3>1. j # 0 => pc[j - 1] = "read2"
      BY <1>1, RingFacts
    <3> QED BY <1>1, <1>6, <2>1, <2>2, <2>4, <3>1, FreshTold
  <2>6. CASE j = LastChild
    <3>1. Range(announced') = {} /\ j + 1 .. SIZ - 1 = {}
      BY <2>2, <2>6 DEF Range, LastChild
    <3>2. \A q \in Proc \ {j} : q < j
      BY <2>6 DEF Proc, LastChild
    <3>3. Ending(j)'
      BY <1>1, <2>2, <2>3, <2>4, <2>6, <3>1, <3>2 DEF Ending
    <3> QED BY <2>3, <2>5, <3>3, EnterEnding
  <2>7. CASE j # LastChild
    <3>1. SecondRound(j)'
      BY <1>1, <2>2, <2>3, <2>4, <2>7 DEF SecondRound
    <3> QED BY <2>2, <2>3, <2>5, <3>1, EnterRound
  <2> QED BY <2>6, <2>7
<1>7. CASE SendDone(p)
  <2>1. p = j /\ pipe[j] = <<>> /\ pc[j] = "sendDone" /\ j # LastChild
    BY <1>1, <1>7 DEF SendDone
  <2>2. PICK k : k = Right(j) /\ k \in Proc /\ k # j
    BY RingFacts
  <2>3. /\ UNCHANGED <<file, cursor, line, tail, got, printed, announced>>
        /\ \/ pipe' = [pipe EXCEPT ![k] = <<"done">>] /\ Goto(j, "read2")
           \/ \A q \in Proc : <<"READ", k>> \notin open[q]
    BY <1>1, <1>7, <2>1, <2>2, SendCases DEF SendDone
  <2>4. pipe' = [pipe EXCEPT ![k] = <<"done">>] /\ Goto(j, "read2")
    BY <1>1, <2>2, <2>3, Holds
  <2>5. /\ \A q \in Proc : pc'[q] = "read2"
        /\ pipe'[k] = <<"done">> /\ \A q \in Proc \ {k} : pipe'[q] = <<>>
    BY <1>1, <2>1, <2>2, <2>4 DEF Goto, TypeOK
  <2>6. Ordered' /\ Fresh' /\ AllPrinted'
    BY <1>1, <2>3, <2>4, OrderedKept, FreshKept DEF AllPrinted
  <2>7. SecondRound(k)'
    BY <2>2, <2>5, <2>6 DEF SecondRound
  <2> QED BY <2>2, <2>3, <2>6, <2>7, EnterRound
<1>8. CASE SecondLoop(p) /\ ~EndOfFile(p)
  BY <1>4, <1>6, <1>8, SecondLoopCases
<1> QED BY <1>3, <1>5, <1>7, <1>8

(***************************************************************************)
(* `end' comes back and everybody leaves                                   *)
(***************************************************************************)
LEMMA RangeAppend ==
  ASSUME NEW S, NEW s \in Seq(S), NEW x \in S
  PROVE  Range(Append(s, x)) = Range(s) \cup {x}
<1>0. Len(s) \in Nat
  OBVIOUS
<1>1. PICK n, t : n = Len(s) /\ n \in Nat /\ t = Append(s, x)
  BY <1>0
<1>2. /\ DOMAIN t = 1 .. n + 1 /\ DOMAIN s = 1 .. n
      /\ t[n + 1] = x /\ \A i \in 1 .. n : t[i] = s[i]
  BY <1>1
<1>3. 1 .. n + 1 = 1 .. n \cup {n + 1}
  BY <1>1
<1> QED BY <1>1, <1>2, <1>3 DEF Range

LEMMA EndingStep ==
  ASSUME TypeOK, Ends, OneTurn, NEW j \in Proc, Ending(j), NEW p \in Proc, Step(p)
  PROVE  OneTurn'
<1>1. /\ Fresh /\ Ordered /\ AllPrinted
      /\ \A q \in Proc \ {j} : pipe[q] = <<>> /\ IF q < j THEN pc[q] = "read2" ELSE pc[q] \in Gone
      /\ \/ pipe[j] = <<"end">> /\ pc[j] = "read2" /\ j # LastChild /\ Range(announced) = j + 1 .. SIZ - 1
         \/ pipe[j] = <<>> /\ pc[j] = "announce" /\ Range(announced) = j + 1 .. SIZ - 1
         \/ pipe[j] = <<>> /\ pc[j] = "sendEnd" /\ j # 0 /\ Range(announced) = j .. SIZ - 1
         \/ pipe[j] = <<>> /\ pc[j] \in Gone /\ j = 0 /\ Range(announced) = Proc
  BY DEF OneTurn, Ending
<1>2. \A q \in Proc : pc[q] \in {"read2", "announce", "sendEnd"} \cup Gone
  BY <1>1
<1>3. ~Starting
  BY <1>2, RingFacts DEF Starting, Gone
<1>4. SecondLoop(p) \/ Announce(p) \/ SendEnd(p) \/ FreeAll(p) \/ Return(p)
  <2>1. pc[p] \in {"read2", "announce", "sendEnd", "free", "return", "exited"}
    BY <1>2 DEF Gone
  <2> QED BY <2>1 DEF Step, Fork, ForksDone, PipeClose, ReadByte, Peek, Rewind, ReadEnd, PrintLine,
                     SendPass, SendDone, FirstLoop, ReportError
<1>5. OneMessage(p)
  BY <1>1 DEF OneMessage, Message
<1>6. CASE SecondLoop(p) /\ EndOfFile(p)
  BY <1>3, <1>6, QuietActions, QuietKeeps
<1>7. ASSUME NEW m \in Message, pc[p] = "read2", Received(p, m), Tells(p, m, AfterRead2(p, m)),
             UNCHANGED <<tail, fileVars, output>>
      PROVE  OneTurn'
  <2>1. p = j /\ m = "end" /\ Range(announced) = j + 1 .. SIZ - 1
    <3>1. p = j
      BY <1>1, <1>7 DEF Received
    <3>2. pipe[j] = <<"end">> /\ pipe[j] = <<m>> /\ Range(announced) = j + 1 .. SIZ - 1
      BY <1>1, <1>7, <3>1 DEF Received, Gone
    <3> QED BY <3>1, <3>2
  <2>2. /\ UNCHANGED <<file, tail, printed, announced>>
        /\ \A q \in Proc : pipe'[q] = <<>>
        /\ pc'[j] = "announce" /\ \A q \in Proc \ {j} : pc'[q] = pc[q]
    BY <1>1, <1>7, <2>1 DEF Received, Tells, Goto, TypeOK, fileVars, output, AfterRead2
  <2>3. Ordered' /\ AllPrinted'
    BY <1>1, <2>2, OrderedKept DEF AllPrinted
  <2>4. Fresh'
    <3>1. j # 0 => pc[j - 1] = "read2"
      <4>1. j # 0 => j - 1 \in Proc \ {j} /\ j - 1 < j
        BY RingFacts
      <4> QED BY <1>1, <4>1
    <3>2. AfterRead2(j, m) = "announce"
      BY <2>1 DEF AfterRead2
    <3> QED BY <1>1, <1>7, <2>1, <2>2, <3>1, <3>2, FreshTold
  <2>5. Ending(j)'
    BY <1>1, <2>1, <2>2, <2>3 DEF Ending
  <2> QED BY <2>3, <2>4, <2>5, EnterEnding
<1>8. CASE Announce(p)
  <2>1. p = j /\ pipe[j] = <<>> /\ Range(announced) = j + 1 .. SIZ - 1
    BY <1>1, <1>8 DEF Announce, Gone
  <2>2. /\ UNCHANGED <<file, tail, got, pipe, printed>>
        /\ announced' = Append(announced, j)
        /\ Goto(j, IF j = 0 THEN "free" ELSE "sendEnd")
        /\ pc'[j] = (IF j = 0 THEN "free" ELSE "sendEnd") /\ \A q \in Proc \ {j} : pc'[q] = pc[q]
    BY <1>8, <2>1 DEF Announce, Goto, TypeOK, fileVars
  <2>3. Ordered' /\ AllPrinted' /\ Fresh'
    BY <1>1, <2>2, OrderedKept, FreshKept DEF AllPrinted
  <2>4. Range(announced') = j .. SIZ - 1
    <3>1. Range(announced') = Range(announced) \cup {j}
      BY <2>2, RangeAppend DEF TypeOK
    <3>2. j .. SIZ - 1 = (j + 1 .. SIZ - 1) \cup {j}
      BY DEF Proc
    <3> QED BY <2>1, <3>1, <3>2
  <2>5. Ending(j)'
    BY <1>1, <2>1, <2>2, <2>3, <2>4 DEF Ending, Gone, Proc
  <2> QED BY <2>3, <2>5, EnterEnding
<1>9. CASE SendEnd(p)
  <2>1. p = j /\ pipe[j] = <<>> /\ j # 0 /\ Range(announced) = j .. SIZ - 1
    BY <1>1, <1>9 DEF SendEnd, Gone
  <2>2. PICK k : k = j - 1 /\ k \in Proc /\ k # j /\ k < j /\ k # LastChild /\ j = k + 1
    BY <2>1, RingFacts, SMTT(30) DEF LastChild, Proc
  <2>3. /\ UNCHANGED <<file, cursor, line, tail, got, printed, announced>>
        /\ \/ pipe' = [pipe EXCEPT ![k] = <<"end">>] /\ Goto(j, "free")
           \/ \A q \in Proc : <<"READ", k>> \notin open[q]
    BY <1>1, <1>9, <2>1, <2>2, SendCases DEF SendEnd
  <2>4. pc[k] = "read2" /\ pipe' = [pipe EXCEPT ![k] = <<"end">>] /\ Goto(j, "free")
    BY <1>1, <2>2, <2>3, Holds
  <2>5. /\ pc'[j] = "free" /\ \A q \in Proc \ {j} : pc'[q] = pc[q]
        /\ pipe'[k] = <<"end">> /\ \A q \in Proc \ {k} : pipe'[q] = <<>>
    BY <1>1, <2>1, <2>2, <2>4 DEF Goto, TypeOK
  <2>6. Ordered' /\ Fresh' /\ AllPrinted'
    BY <1>1, <2>3, <2>4, OrderedKept, FreshKept DEF AllPrinted
  <2>7. ASSUME NEW q \in Proc \ {k} PROVE IF q < k THEN pc'[q] = "read2" ELSE pc'[q] \in Gone
    <3>1. q \in Nat /\ j \in Nat /\ k \in Nat
      BY <2>2, RingFacts
    <3>2. CASE q = j
      BY <2>2, <2>5, <3>1, <3>2 DEF Gone
    <3>3. CASE q # j
      <4>1. q < k <=> q < j
        BY <2>2, <2>7, <3>1, <3>3
      <4> QED BY <1>1, <2>5, <3>3, <4>1
    <3> QED BY <3>2, <3>3
  <2>8. Ending(k)'
    <3>1. Range(announced') = k + 1 .. SIZ - 1
      BY <2>1, <2>2, <2>3
    <3>2. pc'[k] = "read2"
      BY <2>2, <2>4, <2>5
    <3> QED BY <2>2, <2>5, <2>6, <2>7, <3>1, <3>2 DEF Ending
  <2> QED BY <2>2, <2>6, <2>8, EnterEnding
<1>10. CASE FreeAll(p) \/ Return(p)
  <2>1. pc[p] \in Gone
    BY <1>10 DEF FreeAll, Return, Gone
  <2>2. PICK next \in Gone : Goto(p, next)
    BY <1>10 DEF FreeAll, Return, Gone
  <2>3. pc'[p] \in Gone /\ \A q \in Proc \ {p} : pc'[q] = pc[q]
    BY <2>2 DEF Goto, TypeOK
  <2>4. UNCHANGED <<file, tail, got, pipe, printed, announced>>
    BY <1>10 DEF FreeAll, Return, fileVars, output
  <2>5. Ordered' /\ AllPrinted' /\ Fresh'
    BY <1>1, <2>2, <2>4, OrderedKept, FreshKept DEF AllPrinted, Gone
  <2>6. Ending(j)'
    <3>1. p # j => ~(p < j)
      BY <1>1, <2>1 DEF Gone
    <3>2. \A q \in Proc \ {j} : IF q < j THEN pc'[q] = "read2" ELSE pc'[q] \in Gone
      BY <1>1, <2>3, <3>1
    <3>3. CASE p = j
      <4>1. j = 0 /\ pipe[j] = <<>> /\ Range(announced) = Proc
        BY <1>1, <2>1, <3>3 DEF Gone
      <4> QED BY <1>1, <2>3, <2>4, <2>5, <3>2, <3>3, <4>1 DEF Ending
    <3>4. CASE p # j
      <4>1. pc'[j] = pc[j]
        BY <2>3, <3>4
      <4> QED BY <1>1, <2>4, <2>5, <3>2, <4>1 DEF Ending
    <3> QED BY <3>3, <3>4
  <2> QED BY <2>5, <2>6, EnterEnding
<1>11. CASE SecondLoop(p) /\ ~EndOfFile(p)
  BY <1>5, <1>7, <1>11, SecondLoopCases
<1> QED BY <1>4, <1>6, <1>8, <1>9, <1>10, <1>11

(***************************************************************************)
(* The invariant                                                           *)
(***************************************************************************)
LEMMA InvInit == Init => IInv
<1> SUFFICES ASSUME Init PROVE IInv
  OBVIOUS
<1> USE RingFacts
<1>1. TypeOK
  <2>1. file \in Seq(Byte) /\ Len(file) \in Nat
    BY FilesAssumption DEF Init
  <2> QED BY <2>1 DEF Init, TypeOK, Label
<1>2. Ends
  BY DEF Init, Ends, Held
<1>3. LookAhead
  <2>1. {p \in Proc : pc[p] = "rewind"} = {}
    BY DEF Init
  <2> QED BY <2>1, FS_EmptySet DEF LookAhead, Init
<1>4. Starting
  <2>1. \A p \in Proc \ {0} : ~(p < 1)
    BY DEF Proc
  <2> QED BY <2>1 DEF Init, Starting
<1>5. OneTurn
  BY <1>4 DEF Init, OneTurn, Ordered, Fresh
<1> QED BY <1>1, <1>2, <1>3, <1>5 DEF IInv

LEMMA OneTurnStep ==
  ASSUME TypeOK, Ends, OneTurn, Next
  PROVE  OneTurn' \/ Silent'
<1>1. PICK p \in Proc : Step(p)
  BY DEF Next
<1>2. CASE \E j \in Proc : Ending(j)
  BY <1>1, <1>2, EndingStep
<1>3. ASSUME announced = <<>>, Starting PROVE OneTurn'
  BY <1>3, StartingStep DEF OneTurn
<1>4. ASSUME announced = <<>>, Stuck PROVE OneTurn' \/ Silent'
  BY <1>1, <1>4, StuckStep
<1>5. ASSUME announced = <<>>, NEW j \in Proc, Passing(j) PROVE OneTurn' \/ Silent'
  BY <1>1, <1>5, PassingStep
<1>6. ASSUME announced = <<>>, NEW j \in Proc, SecondRound(j) PROVE OneTurn'
  BY <1>1, <1>6, SecondRoundStep
<1>7. ASSUME announced = <<>>, NEW d \in Proc, NEW j \in Proc, FirstRound(d, j)
      PROVE  OneTurn' \/ Silent'
  BY <1>1, <1>7, FirstRoundStep
<1> QED BY <1>2, <1>3, <1>4, <1>5, <1>6, <1>7 DEF OneTurn

LEMMA InvStep ==
  ASSUME IInv, [Next]_vars
  PROVE  IInv'
<1> USE DEF IInv
<1>1. TypeOK' /\ Ends' /\ LookAhead'
  BY TypeStep, EndsStep, LookAheadStep
<1>2. CASE Next /\ OneTurn
  BY <1>1, <1>2, OneTurnStep
<1>3. CASE Silent
  BY <1>1, <1>3, SilentStep
<1>4. CASE UNCHANGED vars /\ OneTurn
  <2>1. OneTurn'
    <3>1. UNCHANGED <<file, cursor, forked, tail, pc, got, line, pipe, open, printed, announced>>
      BY <1>4 DEF vars
    <3> QED BY <1>4, <3>1 DEF OneTurn, Ordered, Fresh, Ending, Starting, Stuck, Passing, SecondRound,
                    FirstRound, Parked, Reading, WholeLine, Gathered, Turn, Broke, AllPrinted, Right
  <2> QED BY <1>1, <2>1, SMTT(30)
<1> QED BY <1>2, <1>3, <1>4

(* IInv is an invariant of the program.                                    *)
THEOREM InvCorrect == Spec => []IInv
<1> QED BY InvInit, InvStep, PTL DEF Spec

(* The type invariant.                                                     *)
THEOREM TypeCorrect == Spec => []TypeOK
<1>1. IInv => TypeOK
  BY DEF IInv
<1> QED BY <1>1, InvCorrect, PTL

(***************************************************************************)
(* What the invariant says of the ring                                     *)
(***************************************************************************)
LEMMA FewOneTurn ==
  ASSUME IInv, Few
  PROVE  OneTurn
  BY DEF IInv, Silent

(* The one in charge is the j of the phase.                                *)
LEMMA OnlyOne ==
  ASSUME OneTurn
  PROVE  \E j \in Proc : \A q \in Proc \ {j} : ~InCharge(q)
<1> USE DEF InCharge, Busy
<1>1. ASSUME NEW j \in Proc, Ending(j) PROVE \A q \in Proc \ {j} : ~InCharge(q)
  BY <1>1 DEF Ending, Gone
<1>2. CASE Starting
  <2>1. \A q \in Proc : pc[q] \in {"fork", "close", "absent", "read1", "unborn"} /\ pipe[q] = <<>>
    BY <1>2 DEF Starting
  <2> QED BY <2>1, RingFacts
<1>3. CASE Stuck
  <2>1. \A q \in Proc : pipe[q] = <<>> /\ pc[q] \in {"killed", "read1", "read2", "absent", "close", "error"}
    BY <1>3 DEF Stuck
  <2> QED BY <2>1, RingFacts
<1>4. ASSUME NEW j \in Proc, Passing(j) PROVE \A q \in Proc \ {j} : ~InCharge(q)
  BY <1>4 DEF Passing, Parked
<1>5. ASSUME NEW j \in Proc, SecondRound(j) PROVE \A q \in Proc \ {j} : ~InCharge(q)
  BY <1>5 DEF SecondRound
<1>6. ASSUME NEW d \in Proc, NEW j \in Proc, FirstRound(d, j) PROVE \A q \in Proc \ {j} : ~InCharge(q)
  BY <1>6 DEF FirstRound, Parked
<1> QED BY <1>1, <1>2, <1>3, <1>4, <1>5, <1>6 DEF OneTurn

(* At most one process holds the turn, or a message that gives it the      *)
(* turn, unless two or more children are missing.                          *)
THEOREM OneInChargeCorrect == Spec => []OneInCharge
<1>1. IInv => OneInCharge
  BY FewOneTurn, OnlyOne DEF OneInCharge
<1> QED BY <1>1, InvCorrect, PTL

(* The file comes out in order, and the lines in ring order.               *)
THEOREM LinesInTurnCorrect == Spec => []LinesInTurn
<1>1. IInv => LinesInTurn
  BY FewOneTurn DEF OneTurn, Ordered, LinesInTurn
<1> QED BY <1>1, InvCorrect, PTL

(* Nobody announces an exit while another process is in its first loop or  *)
(* part of the file is unprinted, however many children are missing.       *)
THEOREM NobodyLeftBehindCorrect == Spec => []NobodyLeftBehind
<1>1. ASSUME IInv, announced # <<>> \/ \E p \in Proc : pc[p] = "announce"
      PROVE  /\ \A p \in Proc : ~FirstLoopOf(p)
             /\ Len(printed) = Len(file)
  <2>1. OneTurn
    BY <1>1 DEF IInv, Silent, Leaving
  <2>2. \E j \in Proc : Ending(j)
    <3> SUFFICES ASSUME announced = <<>>, NEW p \in Proc, pc[p] = "announce", ~\E j \in Proc : Ending(j)
                 PROVE  FALSE
      BY <1>1, <2>1 DEF OneTurn
    <3>1. ~Circling
      BY CirclingFacts DEF Leaving
    <3>2. ~Starting
      BY DEF Starting
    <3>3. \A j \in Proc : ~SecondRound(j)
      BY DEF SecondRound
    <3> QED BY <2>1, <3>1, <3>2, <3>3 DEF OneTurn, Circling
  <2>3. PICK j \in Proc : Ending(j)
    BY <2>2
  <2>4. \A q \in Proc : pc[q] \in {"read2", "announce", "sendEnd"} \cup Gone
    BY <2>3 DEF Ending
  <2> QED BY <2>3, <2>4 DEF Ending, AllPrinted, FirstLoopOf, Gone
<1>2. IInv => NobodyLeftBehind
  BY <1>1 DEF NobodyLeftBehind
<1> QED BY <1>2, InvCorrect, PTL

(* With all children there the ring is closed: no write lacks a reader and *)
(* no read finds the end of a pipe.                                        *)
THEOREM NoBrokenPipeCorrect == Spec => []NoBrokenPipe
<1>1. ASSUME IInv, \A p \in Proc : pc[p] # "absent", NEW p \in Proc
      PROVE  /\ pc[p] # "killed"
             /\ pc[p] \in {"read1", "read2"} /\ pipe[p] = <<>> =>
                  \E q \in Proc : <<"WRITE", p>> \in open[q]
  <2> USE RingFacts
  <2>1. Few
    BY <1>1, FewIs
  <2>2. OneTurn /\ Ends
    BY <1>1, <2>1, FewOneTurn DEF IInv
  <2>3. PICK left \in Proc : Right(left) = p
    <3>1. CASE p = 0
      BY <3>1
    <3>2. CASE p # 0
      BY <3>2
    <3> QED BY <3>1, <3>2
  <2>4. CASE Circling
    <3>1. \A q \in Proc : pc[q] \notin {"absent", "killed"}
      BY <1>1, <2>4, CirclingFacts
    <3>2. <<"WRITE", p>> \in open[left]
      BY <2>2, <2>3, <2>4, <3>1, CirclingHolds
    <3> QED BY <3>1, <3>2
  <2>5. CASE Starting
    <3>1. open[0] = PipeEnd /\ <<"WRITE", p>> \in PipeEnd
      BY <2>2, <2>5 DEF Starting, Ends, Held, PipeEnd
    <3>2. pc[p] # "killed"
      BY <2>5 DEF Starting
    <3> QED BY <3>1, <3>2
  <2>6. ASSUME NEW j \in Proc, SecondRound(j)
        PROVE  pc[p] # "killed" /\ <<"WRITE", p>> \in open[left]
    <3>1. \A q \in Proc : pc[q] \in {"read2", "sendDone"}
      BY <2>6 DEF SecondRound
    <3>2. <<"WRITE", p>> \in open[left]
      BY <2>2, <2>3, <3>1, Holds
    <3> QED BY <3>1, <3>2
  <2>7. ASSUME NEW j \in Proc, Ending(j)
        PROVE  /\ pc[p] # "killed"
               /\ pc[p] \in {"read1", "read2"} /\ pipe[p] = <<>> =>
                    \E q \in Proc : <<"WRITE", p>> \in open[q]
    <3>1. pc[p] # "killed"
      BY <2>7 DEF Ending, Gone
    <3>3. /\ \A q \in Proc \ {j} : IF q < j THEN pc[q] = "read2" ELSE pc[q] \in Gone
          /\ \/ pc[j] = "read2" /\ pipe[j] = <<"end">>
             \/ pc[j] \in {"announce", "sendEnd"}
             \/ pc[j] \in Gone /\ j = 0
      BY <2>7 DEF Ending
    <3>2. ASSUME pc[p] \in {"read1", "read2"}, pipe[p] = <<>>
          PROVE  \E q \in Proc : <<"WRITE", p>> \in open[q]
      <4>1. p < j
        <5>1. p # j
          <6>1. <<"end">> # <<>>
            OBVIOUS
          <6>2. pipe[j] = <<"end">> \/ pc[j] \notin {"read1", "read2"}
            BY <3>3 DEF Gone
          <6> QED BY <3>2, <6>1, <6>2
        <5> QED BY <3>2, <3>3, <5>1 DEF Gone
      <4>2. PICK k : k = p + 1
        OBVIOUS
      <4>3. k \in Proc /\ k # 0 /\ k - 1 = p /\ (k = j \/ k < j)
        BY <4>1, <4>2 DEF Proc
      <4>4. pc[k] \in {"read2", "announce", "sendEnd"}
        <5>1. CASE k = j
          <6>1. j # 0
            BY <4>3, <5>1
          <6> QED BY <3>3, <5>1, <6>1
        <5>2. CASE k # j
          BY <3>3, <4>3, <5>2
        <5> QED BY <5>1, <5>2
      <4>5. <<"WRITE", p>> \in open[k]
        BY <2>2, <4>3, <4>4, Holds
      <4> QED BY <4>3, <4>5
    <3> QED BY <3>1, <3>2
  <2> QED BY <2>2, <2>4, <2>5, <2>6, <2>7 DEF OneTurn, Circling
<1>2. IInv => NoBrokenPipe
  BY <1>1 DEF NoBrokenPipe
<1> QED BY <1>2, InvCorrect, PTL

(***************************************************************************)
(* The ring implements LineRing                                            *)
(***************************************************************************)
Missing(place) == {p \in Proc : place[p] = "absent"}

(* Only a fork can fail, and only these two actions write to the output.   *)
LEMMA OutputSteps ==
  ASSUME TypeOK, [Next]_vars, ~Fork
  PROVE  /\ file' = file /\ Missing(pc') = Missing(pc)
         /\ \/ UNCHANGED <<printed, announced>>
            \/ \E p \in Proc : PrintLine(p) \/ Announce(p)
<1>1. ASSUME NEW p \in Proc, NEW next, Goto(p, next), pc[p] # "absent", next # "absent"
      PROVE  Missing(pc') = Missing(pc)
  BY <1>1 DEF Missing, Goto, TypeOK
<1>2. CASE UNCHANGED vars
  BY <1>2 DEF vars, Missing
<1>3. ASSUME NEW p \in Proc, SendPass(p) \/ SendDone(p) \/ SendEnd(p)
      PROVE  file' = file /\ Missing(pc') = Missing(pc) /\ UNCHANGED <<printed, announced>>
  <2>1. \E next : next # "absent" /\ Goto(p, next)
    BY <1>3 DEF SendPass, SendDone, SendEnd, Writes
  <2> QED BY <1>1, <1>3, <2>1 DEF SendPass, SendDone, SendEnd, Writes, fileVars, output
<1>4. ASSUME NEW p \in Proc, FirstLoop(p) \/ SecondLoop(p)
      PROVE  file' = file /\ Missing(pc') = Missing(pc) /\ UNCHANGED <<printed, announced>>
  <2>1. \A m : AfterRead(p, m) # "absent" /\ AfterRead2(p, m) # "absent"
    BY DEF AfterRead, AfterRead2
  <2>2. \E m : Goto(p, AfterRead(p, m)) \/ Goto(p, AfterRead2(p, m))
    BY <1>4 DEF FirstLoop, SecondLoop, AfterRead, AfterRead2
  <2> QED BY <1>1, <1>4, <2>1, <2>2 DEF FirstLoop, SecondLoop, fileVars, output
<1>5. ASSUME NEW p \in Proc,
             (p = 0 /\ ForksDone) \/ PipeClose(p) \/ ReadByte(p) \/ Peek(p) \/ Rewind(p) \/ ReadEnd(p)
               \/ ReportError(p) \/ FreeAll(p) \/ Return(p)
      PROVE  file' = file /\ Missing(pc') = Missing(pc) /\ UNCHANGED <<printed, announced>>
  <2>1. \E next : next # "absent" /\ Goto(p, next)
    BY <1>5 DEF ForksDone, PipeClose, ReadByte, Peek, Rewind, ReadEnd, ReportError, FreeAll, Return
  <2>2. pc[p] # "absent"
    BY <1>5 DEF ForksDone, PipeClose, ReadByte, Peek, Rewind, ReadEnd, ReportError, FreeAll, Return
  <2>3. file' = file /\ UNCHANGED <<printed, announced>>
    BY <1>5 DEF ForksDone, PipeClose, ReadByte, Peek, Rewind, ReadEnd, ReportError, FreeAll, Return,
                fileVars, output
  <2> QED BY <1>1, <2>1, <2>2, <2>3
<1>6. ASSUME NEW p \in Proc, PrintLine(p) \/ Announce(p)
      PROVE  file' = file /\ Missing(pc') = Missing(pc)
  <2>1. (\E next : next # "absent" /\ Goto(p, next)) /\ pc[p] # "absent" /\ file' = file
    BY <1>6 DEF PrintLine, Announce, fileVars
  <2> QED BY <1>1, <2>1
<1> QED BY <1>2, <1>3, <1>4, <1>5, <1>6 DEF Next, Step

(* A printed line is a Take of LineRing, or nothing if the line is empty.  *)
LEMMA PrintIsTake ==
  ASSUME IInv, Few, NEW p \in Proc, PrintLine(p)
  PROVE  /\ announced = <<>> /\ Turn = p
         /\ \/ UNCHANGED <<file, printed, announced>>
            \/ \E k \in Len(printed) + 1 .. Len(file) :
                 /\ \A i \in Len(printed) + 1 .. k - 1 : file[i] # "nl"
                 /\ Len(printed') = k
                 /\ Turn' = IF file[k] = "nl" THEN Right(p) ELSE p
                 /\ UNCHANGED <<file, announced>>
<1>1. OneTurn /\ TypeOK /\ Ordered
  BY FewOneTurn DEF IInv, OneTurn
<1>2. pc[p] \in {"printLine", "printLast"} /\ file' = file /\ announced' = announced
  BY DEF PrintLine
<1>3. announced = <<>> /\ Reading(p)
  <2>1. ASSUME NEW j \in Proc PROVE ~Ending(j) /\ ~SecondRound(j) /\ \A d \in Proc : ~FirstRound(d, j)
    BY <1>2 DEF Ending, SecondRound, FirstRound, Gone, Parked
  <2>2. ~Starting /\ ~Stuck
    BY <1>2 DEF Starting, Stuck
  <2>3. PICK j \in Proc : announced = <<>> /\ Passing(j)
    BY <1>1, <2>1, <2>2 DEF OneTurn
  <2> QED BY <1>2, <2>3 DEF Passing, Parked
<1>4. PICK c : c = cursor /\ c \in Nat /\ c <= Len(file)
  BY <1>1, FilesAssumption DEF TypeOK
<1>5. Gathered(p, c) /\ Turn = p
  BY <1>2, <1>3, <1>4 DEF Reading, WholeLine
<1>6. printed' = printed \o [i \in 1 .. Len(line[p]) |-> <<p, line[p][i]>>]
  BY DEF PrintLine
<1>7. /\ Len(printed') = c
      /\ c > Len(printed) => Turn' = IF file[c] = "nl" THEN Right(p) ELSE p
  BY <1>1, <1>2, <1>4, <1>5, <1>6, PrintOrdered
<1>8. Len(printed) \in Nat /\ c >= Len(printed) /\ printed \in Seq(Proc \X (1 .. Len(file)))
  BY <1>1, <1>5 DEF TypeOK, Gathered
<1>9. CASE c = Len(printed)
  <2>1. line[p] = [i \in 1 .. 0 |-> Len(printed) + i]
    BY <1>5, <1>8, <1>9 DEF Gathered
  <2>2. Len(line[p]) = 0
    BY <2>1
  <2>3. [i \in 1 .. Len(line[p]) |-> <<p, line[p][i]>>] = <<>>
    BY <2>2
  <2>4. printed' = printed
    BY <1>6, <1>8, <2>3, ConcatEmptySeq
  <2> QED BY <1>2, <1>3, <1>5, <2>4
<1>10. CASE c > Len(printed)
  <2>1. c \in Len(printed) + 1 .. Len(file)
    <3>1. Len(file) \in Nat
      BY <1>1, FilesAssumption DEF TypeOK
    <3> QED BY <1>4, <1>8, <1>10, <3>1
  <2>2. \A i \in Len(printed) + 1 .. c - 1 : file[i] # "nl"
    BY <1>5 DEF Gathered
  <2> QED BY <1>2, <1>3, <1>5, <1>7, <1>10, <2>1, <2>2
<1> QED BY <1>4, <1>8, <1>9, <1>10

(* An announced exit is a Leave of LineRing.                               *)
LEMMA AnnounceIsLeave ==
  ASSUME IInv, NEW p \in Proc, Announce(p)
  PROVE  /\ Len(printed) = Len(file)
         /\ Range(announced) = p + 1 .. SIZ - 1
         /\ Range(announced') = Range(announced) \cup {p}
         /\ UNCHANGED <<file, printed>>
<1>1. pc[p] = "announce" /\ announced' = Append(announced, p) /\ UNCHANGED <<file, printed>>
  BY DEF Announce, fileVars
<1>2. OneTurn /\ TypeOK
  BY <1>1 DEF IInv, Silent, Leaving
<1>3. PICK j \in Proc : Ending(j)
  <2>1. ~Circling
    BY <1>1, CirclingFacts DEF Leaving
  <2>2. ~Starting /\ \A j \in Proc : ~SecondRound(j)
    BY <1>1 DEF Starting, SecondRound
  <2> QED BY <1>2, <2>1, <2>2 DEF OneTurn, Circling
<1>4. p = j
  BY <1>1, <1>3 DEF Ending, Gone
<1>5. Range(announced) = p + 1 .. SIZ - 1 /\ Len(printed) = Len(file)
  BY <1>1, <1>3, <1>4 DEF Ending, AllPrinted, Gone
<1>6. Range(announced') = Range(announced) \cup {p}
  BY <1>1, <1>2, RangeAppend DEF TypeOK
<1> QED BY <1>1, <1>5, <1>6

LEMMA RingPlaces ==
  /\ Ring!Position = Proc
  /\ \A p \in Proc : Ring!Succ(p) = Right(p)
  BY RingFacts DEF Ring!Position, Ring!Succ, Proc, LastChild

LEMMA RingStep ==
  ASSUME IInv, [Next]_vars
  PROVE  [Ring!Next]_Ring!vars
<1> DEFINE taken == IF Few THEN Len(printed) ELSE 0
           turn == IF Few THEN Turn ELSE 0
           gone == IF Few THEN Range(announced) ELSE {}
<1>1. TypeOK
  BY DEF IInv
<1>2. ASSUME UNCHANGED <<file, taken, turn, gone>> PROVE [Ring!Next]_Ring!vars
  BY <1>2 DEF Ring!vars
<1>3. CASE Fork
  <2>1. Starting /\ OneTurn
    BY <1>3, AtFork, RingFacts DEF IInv, Fork, Silent
  <2>2. printed = <<>> /\ announced = <<>>
    <3>1. \A j \in Proc : ~Ending(j)
      BY <1>3, RingFacts DEF Fork, Ending, Gone
    <3>2. 0 \in Proc /\ pc[0] = "fork"
      BY <1>3, RingFacts DEF Fork
    <3> QED BY <2>1, <3>1, <3>2 DEF OneTurn, Starting
  <2>3. UNCHANGED <<file, printed, announced>>
    BY <1>3 DEF Fork, fileVars, output
  <2>4. /\ taken = 0 /\ turn = 0 /\ gone = {} /\ taken' = 0 /\ turn' = 0 /\ gone' = {}
    BY <2>2, <2>3 DEF Turn, Range
  <2> QED BY <1>2, <2>3, <2>4
<1>4. CASE ~Fork
  <2>1. /\ file' = file /\ Missing(pc') = Missing(pc)
        /\ \/ UNCHANGED <<printed, announced>>
           \/ \E p \in Proc : PrintLine(p) \/ Announce(p)
    BY <1>1, <1>4, OutputSteps
  <2>2. Few' <=> Few
    BY <2>1, FewKept DEF Missing
  <2>3. CASE ~Few
    BY <1>2, <2>1, <2>2, <2>3
  <2>4. CASE Few /\ UNCHANGED <<printed, announced>>
    <3>1. Turn' = Turn
      BY <2>1, <2>4 DEF Turn, Right
    <3> QED BY <1>2, <2>1, <2>2, <2>4, <3>1
  <2>5. ASSUME Few, NEW p \in Proc, PrintLine(p) PROVE [Ring!Next]_Ring!vars
    <3>1. CASE UNCHANGED <<file, printed, announced>>
      <4>1. Turn' = Turn
        BY <3>1 DEF Turn, Right
      <4> QED BY <1>2, <2>2, <3>1, <4>1
    <3>2. ASSUME NEW k \in Len(printed) + 1 .. Len(file),
                 \A i \in Len(printed) + 1 .. k - 1 : file[i] # "nl",
                 Len(printed') = k,
                 Turn' = IF file[k] = "nl" THEN Right(p) ELSE p,
                 UNCHANGED <<file, announced>>
          PROVE  Ring!Take(p)
      <4>1. Turn = p
        BY <2>5, PrintIsTake
      <4>2. taken = Len(printed) /\ taken' = k /\ turn = p
            /\ turn' = (IF file[k] = "nl" THEN Ring!Succ(p) ELSE p) /\ gone' = gone
        BY <2>2, <2>5, <3>2, <4>1, RingPlaces
      <4> QED BY <3>2, <4>2 DEF Ring!Take
    <3>3. \/ UNCHANGED <<file, printed, announced>>
          \/ \E k \in Len(printed) + 1 .. Len(file) :
               /\ \A i \in Len(printed) + 1 .. k - 1 : file[i] # "nl"
               /\ Len(printed') = k
               /\ Turn' = IF file[k] = "nl" THEN Right(p) ELSE p
               /\ UNCHANGED <<file, announced>>
      BY <2>5, PrintIsTake
    <3> QED BY <3>1, <3>2, <3>3, RingPlaces DEF Ring!Next
  <2>6. ASSUME Few, NEW p \in Proc, Announce(p) PROVE [Ring!Next]_Ring!vars
    <3>1. /\ Len(printed) = Len(file)
          /\ Range(announced) = p + 1 .. SIZ - 1
          /\ Range(announced') = Range(announced) \cup {p}
          /\ UNCHANGED <<file, printed>>
      BY <2>6, AnnounceIsLeave
    <3>2. Turn' = Turn
      BY <3>1 DEF Turn, Right
    <3>3. p \notin p + 1 .. SIZ - 1
      BY DEF Proc
    <3>4. /\ taken = Len(file) /\ p \notin gone /\ p + 1 .. SIZ - 1 \subseteq gone
          /\ gone' = gone \cup {p} /\ UNCHANGED <<file, taken, turn>>
      BY <2>2, <2>6, <3>1, <3>2, <3>3
    <3>5. Ring!Leave(p)
      BY <3>4 DEF Ring!Leave
    <3> QED BY <3>5, RingPlaces DEF Ring!Next
  <2> QED BY <2>1, <2>3, <2>4, <2>5, <2>6
<1> QED BY <1>3, <1>4

(* What is printed and who leaves when is what LineRing allows.            *)
THEOREM RefinesLineRing == Spec => ImplementsLineRing
<1>1. Init => Ring!Init
  <2> SUFFICES ASSUME Init PROVE Ring!Init
    OBVIOUS
  <2>1. printed = <<>> /\ Len(printed) = 0 /\ Range(announced) = {} /\ file \in Files
    BY DEF Init, Range
  <2>2. Turn = 0
    BY <2>1 DEF Turn
  <2> QED BY <2>1, <2>2 DEF Ring!Init
<1>2. IInv /\ [Next]_vars => [Ring!Next]_Ring!vars
  BY RingStep
<1> QED BY <1>1, <1>2, InvCorrect, PTL DEF Spec, ImplementsLineRing, Ring!Spec

=============================================================================
