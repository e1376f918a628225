------------------------------ MODULE Hw3Ring -------------------------------
(***************************************************************************)
(* hw3/20170767.c: NUMOFPID children and their parent read one shared file *)
(* in turns, one line each.  A process is known by its `i' (line 28):      *)
(* children are 0 .. NUMOFPID-1, the parent is NUMOFPID.  Process p reads  *)
(* commands from pipeToRight[p] and writes them to the pipe of its right   *)
(* neighbour (lines 48-55); BYEE travels the other way over pipeToLeft.    *)
(*                                                                         *)
(* Every process keeps both ends of every pipe open, so a read never sees  *)
(* the end of a pipe and a write never lacks a reader: a pipe is a         *)
(* sequence, read blocks while it is empty, and every read and write moves *)
(* one command of SIZEOFCOMMAND bytes.                                     *)
(*                                                                         *)
(* One action is what a process does up to and including one effect the    *)
(* others can see: a byte of the file, a command read or written, a line   *)
(* of output, the exit.                                                    *)
(***************************************************************************)
EXTENDS Integers, Sequences

CONSTANTS
  NUMOFPID,     \* number of children, 4 in the code
  Files,        \* the files the program may be started on
  ForkMayFail   \* may fork() return -1?  The code does not look (line 41)

Byte == {"ch", "nl"}

ASSUME NUMOFPIDAssumption == NUMOFPID \in Nat \ {0}
ASSUME FilesAssumption == Files \subseteq Seq(Byte)
ASSUME ForkAssumption == ForkMayFail \in BOOLEAN

VARIABLES
  file,        \* the content of the file
  cursor,      \* its offset, shared by all processes through fork
  forked,      \* the parent's fork counter (`i' of the loop at line 40)
  pc,          \* where each process is in main()
  cmd,         \* each process's bufferForCommand
  toRight,     \* the pipes pipeToRight
  toLeft,      \* the pipes pipeToLeft
  printed,     \* who printed each byte of the file, in output order
  announced    \* who printed "I'm exiting...", in output order

vars == <<file, cursor, forked, pc, cmd, toRight, toLeft, printed, announced>>

Proc == 0 .. NUMOFPID
Parent == NUMOFPID
Last == NUMOFPID - 1   \* lines 96 and 108 write it 3 and NUMOFPID-1

(* rightPipe: pipe i+1, and pipe 0 for the parent.                         *)
Right(p) == IF p = Parent THEN 0 ELSE p + 1

(* The four bytes of a command: three letters, and what the fourth byte    *)
(* says.  Only FIN gives the fourth a meaning, the index of its sender.    *)
Command == [op : {"READ", "FIN", "EXIT", "BYEE"}, index : Proc]
Read == [op |-> "READ", index |-> 0]
Fin(p) == [op |-> "FIN", index |-> p]
Exit == [op |-> "EXIT", index |-> 0]
Bye == [op |-> "BYEE", index |-> 0]

Send(pipe, j, m) == [pipe EXCEPT ![j] = Append(@, m)]
Goto(p, label) == pc' = [pc EXCEPT ![p] = label]

Init ==
  /\ file \in Files
  /\ cursor = 0
  /\ forked = 0
  /\ pc = [p \in Proc |-> IF p = Parent THEN "fork" ELSE "unborn"]
  /\ cmd = [p \in Proc |-> Read]
  /\ toRight = [p \in Proc |-> <<>>]
  /\ toLeft = [p \in Proc |-> <<>>]
  /\ printed = <<>>
  /\ announced = <<>>

(* Fault: the test of line 52 is dropped, every process starts with a READ. *)
Fork_AllKick ==
  /\ pc[Parent] = "fork"
  /\ forked < NUMOFPID
  /\ forked' = forked + 1
  /\ Goto(forked, "forward")
  /\ toRight' = Send(toRight, forked, Read)
  /\ UNCHANGED <<file, cursor, cmd, toLeft, printed, announced>>

(* The parent forks the next child, which goes straight to its forward     *)
(* loop; a failed fork leaves that place of the ring empty.                *)
Fork ==
  /\ pc[Parent] = "fork"
  /\ forked < NUMOFPID
  /\ forked' = forked + 1
  /\ \/ Goto(forked, "forward")
     \/ ForkMayFail /\ Goto(forked, "absent")
  /\ UNCHANGED <<file, cursor, cmd, toRight, toLeft, printed, announced>>

(* The parent sets the ring going with a READ to itself.                   *)
Kick ==
  /\ pc[Parent] = "fork"
  /\ forked = NUMOFPID
  /\ toRight' = Send(toRight, Parent, Read)
  /\ Goto(Parent, "forward")
  /\ UNCHANGED <<file, cursor, forked, cmd, toLeft, printed, announced>>

(* The forward loop reads a command and branches on it.                    *)
ReadCommand(p) ==
  /\ pc[p] = "forward"
  /\ toRight[p] # <<>>
  /\ LET m == Head(toRight[p]) IN
       /\ cmd' = [cmd EXCEPT ![p] = m]
       /\ Goto(p, CASE m.op = "READ" -> "line"
                    [] m.op = "FIN" -> "fin"
                    [] m.op = "EXIT" -> "exit"
                    [] OTHER -> "backward")
  /\ toRight' = [toRight EXCEPT ![p] = Tail(@)]
  /\ UNCHANGED <<file, cursor, forked, toLeft, printed, announced>>

(* Fault: a newline does not end the turn.                                 *)
ReadByte_ReadsOn(p) ==
  /\ pc[p] = "line"
  /\ cursor < Len(file)
  /\ cursor' = cursor + 1
  /\ printed' = Append(printed, p)
  /\ UNCHANGED <<file, forked, pc, cmd, toRight, toLeft, announced>>

(* READ: one byte of the file is read and printed; a newline ends the turn *)
ReadByte(p) ==
  /\ pc[p] = "line"
  /\ cursor < Len(file)
  /\ cursor' = cursor + 1
  /\ printed' = Append(printed, p)
  /\ Goto(p, IF file[cursor + 1] = "nl" THEN "pass" ELSE "line")
  /\ UNCHANGED <<file, forked, cmd, toRight, toLeft, announced>>

(* READ: read() returned 0.                                                *)
ReadEnd(p) ==
  /\ pc[p] = "line"
  /\ cursor = Len(file)
  /\ Goto(p, "end")
  /\ UNCHANGED <<file, cursor, forked, cmd, toRight, toLeft, printed, announced>>

PassRead(p) ==
  /\ pc[p] = "pass"
  /\ toRight' = Send(toRight, Right(p), Read)
  /\ Goto(p, "forward")
  /\ UNCHANGED <<file, cursor, forked, cmd, toLeft, printed, announced>>

SendFin(p) ==
  /\ pc[p] = "end"
  /\ toRight' = Send(toRight, Right(p), Fin(p))
  /\ Goto(p, "forward")
  /\ UNCHANGED <<file, cursor, forked, cmd, toLeft, printed, announced>>

(* Fault: the last child is treated like the others (line 96 dropped).     *)
FinReturns_LastToo(p) ==
  /\ pc[p] = "fin"
  /\ cmd[p].index = p
  /\ Goto(p, "backward")
  /\ toRight' = Send(toRight, Right(p), Exit)
  /\ UNCHANGED <<file, cursor, forked, cmd, toLeft, printed, announced>>

(* FIN is back at the process that sent it: the last child leaves at once, *)
(* any other starts EXIT on its way to the last child.                     *)
FinReturns(p) ==
  /\ pc[p] = "fin"
  /\ cmd[p].index = p
  /\ IF p = Last
     THEN Goto(p, "announce") /\ UNCHANGED toRight
     ELSE Goto(p, "backward") /\ toRight' = Send(toRight, Right(p), Exit)
  /\ UNCHANGED <<file, cursor, forked, cmd, toLeft, printed, announced>>

(* Fault: `i > index' is dropped from line 112.                            *)
StaysForward_Everyone(p, index) == index = Parent \/ (index # Last /\ p < NUMOFPID)

(* Does process p stay in its forward loop after passing on a FIN that     *)
(* `index' sent?  It does when the EXIT to come will still have to pass it *)
StaysForward(p, index) ==
  \/ index = Parent
  \/ index # Last /\ p > index /\ p < NUMOFPID

ForwardFin(p) ==
  /\ pc[p] = "fin"
  /\ cmd[p].index # p
  /\ toRight' = Send(toRight, Right(p), cmd[p])
  /\ Goto(p, IF StaysForward(p, cmd[p].index) THEN "forward" ELSE "backward")
  /\ UNCHANGED <<file, cursor, forked, cmd, toLeft, printed, announced>>

(* Fault: every child takes itself for the last one (line 121 dropped).    *)
HandleExit_Everyone(p) ==
  /\ pc[p] = "exit"
  /\ toLeft' = Send(toLeft, p, Bye)
  /\ Goto(p, "lateAnnounce")
  /\ UNCHANGED <<file, cursor, forked, cmd, toRight, printed, announced>>

(* EXIT travels up to the last child, which answers BYEE and only then     *)
(* announces its exit (lines 122-123).                                     *)
HandleExit(p) ==
  /\ pc[p] = "exit"
  /\ IF p = Last
     THEN /\ toLeft' = Send(toLeft, p, Bye)
          /\ Goto(p, "lateAnnounce")
          /\ UNCHANGED toRight
     ELSE /\ toRight' = Send(toRight, Right(p), Exit)
          /\ Goto(p, "backward")
          /\ UNCHANGED toLeft
  /\ UNCHANGED <<file, cursor, forked, cmd, printed, announced>>

(* Fault: BYEE is passed on before the exit is announced.                  *)
ReadBye_PassedFirst(p) ==
  /\ pc[p] = "backward"
  /\ toLeft[Right(p)] # <<>>
  /\ cmd' = [cmd EXCEPT ![p] = Head(toLeft[Right(p)])]
  /\ toLeft' = Send([toLeft EXCEPT ![Right(p)] = Tail(@)], p, Bye)
  /\ Goto(p, "lateAnnounce")
  /\ UNCHANGED <<file, cursor, forked, toRight, printed, announced>>

(* The backward loop waits for BYEE; any other command is read over.       *)
ReadBye(p) ==
  /\ pc[p] = "backward"
  /\ toLeft[Right(p)] # <<>>
  /\ cmd' = [cmd EXCEPT ![p] = Head(toLeft[Right(p)])]
  /\ toLeft' = [toLeft EXCEPT ![Right(p)] = Tail(@)]
  /\ Goto(p, IF cmd'[p].op = "BYEE" THEN "announce" ELSE "backward")
  /\ UNCHANGED <<file, cursor, forked, toRight, printed, announced>>

Announce(p) ==
  /\ pc[p] \in {"announce", "lateAnnounce"}
  /\ announced' = Append(announced, p)
  /\ Goto(p, IF pc[p] = "announce" THEN "bye" ELSE "return")
  /\ UNCHANGED <<file, cursor, forked, cmd, toRight, toLeft, printed>>

SendBye(p) ==
  /\ pc[p] = "bye"
  /\ toLeft' = Send(toLeft, p, Bye)
  /\ Goto(p, "return")
  /\ UNCHANGED <<file, cursor, forked, cmd, toRight, printed, announced>>

(* return 0.  The wait() of lines 147-155 follows a loop that is only left *)
(* by this return, so no process ever executes it.                         *)
Return(p) ==
  /\ pc[p] = "return"
  /\ Goto(p, "exited")
  /\ UNCHANGED <<file, cursor, forked, cmd, toRight, toLeft, printed, announced>>

Step(p) ==
  \/ p = Parent /\ (Fork \/ Kick)
  \/ ReadCommand(p) \/ ReadByte(p) \/ ReadEnd(p) \/ PassRead(p) \/ SendFin(p)
  \/ FinReturns(p) \/ ForwardFin(p) \/ HandleExit(p)
  \/ ReadBye(p) \/ Announce(p) \/ SendBye(p) \/ Return(p)

Next == \E p \in Proc : Step(p)

Spec == Init /\ [][Next]_vars

(* The kernel keeps running every process that is not blocked.             *)
FairSpec == Spec /\ \A p \in Proc : WF_vars(Step(p))
-----------------------------------------------------------------------------
(***************************************************************************)
(* Properties                                                              *)
(***************************************************************************)

Label == {"unborn", "absent", "fork", "forward", "line", "pass", "end", "fin",
          "exit", "backward", "announce", "lateAnnounce", "bye", "return",
          "exited"}

(* The type invariant.                                                     *)
TypeOK ==
  /\ file \in Files
  /\ cursor \in 0 .. Len(file)
  /\ forked \in 0 .. NUMOFPID
  /\ pc \in [Proc -> Label]
  /\ cmd \in [Proc -> Command]
  /\ toRight \in [Proc -> Seq(Command)]
  /\ toLeft \in [Proc -> Seq(Command)]
  /\ printed \in Seq(Proc)
  /\ Len(printed) = cursor
  /\ announced \in Seq(Proc)

Forward == {"line", "pass", "end", "fin", "exit"}       \* handling a command
Leaving == {"announce", "bye"}                          \* has received BYEE
Gone == {"lateAnnounce", "return", "exited"}            \* has sent BYEE

InCharge(p) ==
  toRight[p] # <<>> \/ toLeft[p] # <<>> \/ pc[p] \in Forward \cup Leaving

(* At most one process is in charge at any time, up to BYEE reaching the   *)
(* end of pipeToLeft: no two processes ever read the shared file offset or *)
(* pass a command on concurrently, which nothing but the protocol ensures. *)
OneInCharge ==
  \A p, q \in Proc : InCharge(p) /\ InCharge(q) => p = q

(* No command is written to a process that has left the loop that would    *)
(* read it, or that has ended: such a command would be lost and the ring   *)
(* would wait for it forever (which loop a process is in when EXIT or BYEE *)
(* reaches it is decided by the case analysis on FIN, lines 106-118).  The *)
(* exception is the parent's BYEE at line 142: its reader would be the     *)
(* last child, the first to have ended.                                    *)
NoStrandedCommand ==
  \A p \in Proc :
    /\ pc[p] \in {"backward"} \cup Leaving \cup Gone => toRight[p] = <<>>
    /\ pc[p] \in {"forward"} \cup Forward => toLeft[Right(p)] = <<>>
    /\ pc[p] \in Gone /\ p # Last => toLeft[Right(p)] = <<>>

(* The file is printed line by line in ring order, the parent first: the   *)
(* byte after a newline is printed by the right neighbour of the process   *)
(* that printed the newline, any other byte by the process that printed    *)
(* the byte before it (lines 68-88).                                      *)
LinesInTurn ==
  /\ printed # <<>> => printed[1] = Parent
  /\ \A i \in 1 .. (Len(printed) - 1) :
       printed[i + 1] = IF file[i] = "nl" THEN Right(printed[i]) ELSE printed[i]

Order(n) == IF n < NUMOFPID THEN Last - n ELSE Parent   \* the n-th but the last child

(* The last child is the k-th to announce, the others do so in order.      *)
LastIsAt(k) ==
  \A n \in DOMAIN announced :
    announced[n] = IF n < k THEN Order(n) ELSE IF n = k THEN Last ELSE Order(n - 1)

(* Exits are announced from the last child down to the first, and then by  *)
(* the parent, as the comment at line 141 wants it.  Only the announcement *)
(* of a last child that left at EXIT may come late, for it answers BYEE    *)
(* first (lines 122-123); if it is the one that found the end of the file  *)
(* nothing is out of order (lines 97-98).                                  *)
ExitsInOrder ==
  \/ LastIsAt(1)
  \/ /\ pc[Last] \in Gone /\ cmd[Last].op = "EXIT"
     /\ \E k \in 2 .. Len(announced) + 1 : LastIsAt(k)

NoForkFailed == \A p \in Proc : pc[p] # "absent"

(* Unless a fork fails, every process ends; as LineRing lets nobody leave  *)
(* before, all of the file is printed then.                                *)
AllExit == []NoForkFailed => <>(\A p \in Proc : pc[p] = "exited")

(* Comment at line 147: the parent waits for its children so that none     *)
(* becomes a zombie, so it ends after all of them.                         *)
ParentOutlivesChildren ==
  pc[Parent] = "exited" => \A p \in Proc \ {Parent} : pc[p] = "exited"

(***************************************************************************)
(* Refinement: position 0 of the abstract ring is the parent, position p+1 *)
(* child p.  Whose turn it is follows from who printed the last byte.      *)
(***************************************************************************)
Position(p) == IF p = Parent THEN 0 ELSE p + 1

Turn ==
  IF cursor = 0 THEN Parent
  ELSE IF file[cursor] = "nl" THEN Right(printed[cursor]) ELSE printed[cursor]

Ring == INSTANCE LineRing WITH
          N <- NUMOFPID,
          taken <- cursor,
          turn <- Position(Turn),
          gone <- {Position(p) : p \in {q \in Proc : pc[q] \in Gone}}

(* Even when forks fail, what is printed and who leaves follows LineRing.  *)
ImplementsLineRing == Ring!Spec
-----------------------------------------------------------------------------
(***************************************************************************)
(* The inductive invariant: the ring is starting, or one process is in     *)
(* charge of one command, or of BYEE; the command and who is in charge of  *)
(* it determine which loop every other process is in.                      *)
(***************************************************************************)

(* The processes that have left the forward loop when command m is in      *)
(* pipeToRight[j] or being handled by j.                                   *)
Broke(m, j) ==
  IF \/ m.op = "EXIT"
     \/ m.op = "FIN" /\ m.index # Parent /\ j <= m.index
  THEN {Parent} \cup 0 .. (j - 1)
  ELSE {}

Handling(m) ==
  CASE m.op = "READ" -> {"line", "pass", "end"}
    [] m.op = "FIN" -> {"fin"}
    [] OTHER -> {"exit"}

Starting ==
  /\ pc[Parent] = "fork"
  /\ cursor = 0
  /\ \A p \in Proc \ {Parent} :
       pc[p] \in IF p < forked THEN {"forward", "absent"} ELSE {"unborn"}
  /\ \A p \in Proc : toRight[p] = <<>> /\ toLeft[p] = <<>>

Carrying(j, m) ==
  /\ \/ toRight[j] = <<m>> /\ pc[j] \in {"forward", "absent"}
     \/ toRight[j] = <<>> /\ cmd[j] = m /\ pc[j] \in Handling(m)
  /\ m.op # "BYEE"
  /\ m.op = "EXIT" => j # Parent
  /\ m.op = "READ" => Turn = IF pc[j] = "pass" THEN Right(j) ELSE j
  /\ m.op # "READ" \/ pc[j] = "end" => cursor = Len(file)
  /\ \A p \in Proc \ {j} :
       /\ toRight[p] = <<>>
       /\ pc[p] \in {"absent", IF p \in Broke(m, j) THEN "backward" ELSE "forward"}
  /\ \A p \in Proc : toLeft[p] = <<>>
  /\ pc[Parent] # "absent"

After(j) == IF j = Parent THEN 0 .. Last ELSE (j + 1) .. Last

CarryingBye(j) ==
  /\ \/ pc[j] \in Leaving /\ toLeft[j] = <<>>
     \/ pc[j] \in Gone /\ toLeft[j] = <<Bye>>
  /\ cursor = Len(file)
  /\ \A p \in Proc \ {j} :
       /\ toLeft[p] = <<>>
       /\ pc[p] \in IF p \in After(j) THEN Gone ELSE {"backward", "absent"}
  /\ \A p \in Proc : toRight[p] = <<>>
  /\ pc[Parent] # "absent"

Phase ==
  \/ Starting
  \/ \E j \in Proc, m \in Command : Carrying(j, m)
  \/ \E j \in Proc : CarryingBye(j)

IInv == TypeOK /\ LinesInTurn /\ Phase
=============================================================================
