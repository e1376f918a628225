---------------------------- MODULE Hw3RingProofs ---------------------------
(***************************************************************************)
(* Proofs about Hw3Ring, for every number of children, every set of files  *)
(* and whether or not forks may fail.  IInv is the inductive invariant;    *)
(* the lemmas of the first section read off it who is in charge when a     *)
(* process is found at a given place.                                      *)
(***************************************************************************)
EXTENDS Hw3Ring, TLAPS

USE NUMOFPIDAssumption, FilesAssumption, ForkAssumption

LEMMA ProcFacts ==
  /\ Parent \in Proc
  /\ \A p \in Proc : Right(p) \in Proc
  /\ \A i \in 0 .. NUMOFPID : i < NUMOFPID => i \in Proc
  BY DEF Right, Proc, Parent

LEMMA CommandsTyped ==
  /\ Read \in Command /\ Exit \in Command /\ Bye \in Command
  /\ \A p \in Proc : Fin(p) \in Command
  BY DEF Read, Exit, Bye, Fin, Command, Proc

LEMMA SendTyped ==
  ASSUME NEW pipe \in [Proc -> Seq(Command)], NEW j \in Proc, NEW m \in Command
  PROVE  Send(pipe, j, m) \in [Proc -> Seq(Command)]
  BY DEF Send

(***************************************************************************)
(* Type correctness                                                        *)
(***************************************************************************)
LEMMA TypeStep ==
  ASSUME TypeOK, [Next]_vars
  PROVE  TypeOK'
<1> USE ProcFacts, CommandsTyped DEF TypeOK
<1>0. CASE UNCHANGED vars
  BY <1>0 DEF vars
<1>1. CASE Fork
  <2>1. pc' \in [Proc -> Label]
    <3>1. forked \in Proc
      BY <1>1 DEF Fork
    <3>2. CASE Goto(forked, "forward")
      BY <3>1, <3>2 DEF Goto, Label
    <3>3. CASE Goto(forked, "absent")
      BY <3>1, <3>3 DEF Goto, Label
    <3> QED BY <1>1, <3>2, <3>3 DEF Fork
  <2>2. forked' \in 0 .. NUMOFPID
    BY <1>1 DEF Fork
  <2> QED BY <1>1, <2>1, <2>2 DEF Fork
<1>2. CASE Kick
  BY <1>2, SendTyped DEF Kick, Goto, Label
<1>3. ASSUME NEW p \in Proc, ReadCommand(p) PROVE TypeOK'
  BY <1>3 DEF ReadCommand, Goto, Label
<1>4. ASSUME NEW p \in Proc, ReadByte(p) PROVE TypeOK'
  <2>1. file \in Seq(Byte)
    BY FilesAssumption
  <2> QED BY <1>4, <2>1 DEF ReadByte, Goto, Label
<1>5. ASSUME NEW p \in Proc, ReadEnd(p) \/ Return(p) PROVE TypeOK'
  BY <1>5 DEF ReadEnd, Return, Goto, Label
<1>6. ASSUME NEW p \in Proc, PassRead(p) PROVE TypeOK'
  <2>1. pc' \in [Proc -> Label] /\ toRight' \in [Proc -> Seq(Command)]
    BY <1>6, SendTyped DEF PassRead, Goto, Label
  <2> QED BY <1>6, <2>1 DEF PassRead
<1>7. ASSUME NEW p \in Proc, SendFin(p) PROVE TypeOK'
  <2>1. pc' \in [Proc -> Label] /\ toRight' \in [Proc -> Seq(Command)]
    BY <1>7, SendTyped DEF SendFin, Goto, Label
  <2> QED BY <1>7, <2>1 DEF SendFin
<1>8. ASSUME NEW p \in Proc, FinReturns(p) PROVE TypeOK'
  <2>1. pc' \in [Proc -> Label]
    BY <1>8 DEF FinReturns, Goto, Label
  <2>2. toRight' \in [Proc -> Seq(Command)]
    <3>1. CASE p = Last
      BY <1>8, <3>1 DEF FinReturns
    <3>2. CASE p # Last
      <4>1. toRight' = Send(toRight, Right(p), Exit)
        BY <1>8, <3>2 DEF FinReturns
      <4> QED BY <4>1, SendTyped
    <3> QED BY <3>1, <3>2
  <2> QED BY <1>8, <2>1, <2>2 DEF FinReturns
<1>9. ASSUME NEW p \in Proc, ForwardFin(p) PROVE TypeOK'
  <2>1. pc' \in [Proc -> Label] /\ toRight' \in [Proc -> Seq(Command)]
    BY <1>9, SendTyped DEF ForwardFin, Goto, Label
  <2> QED BY <1>9, <2>1 DEF ForwardFin
<1>10. ASSUME NEW p \in Proc, HandleExit(p) PROVE TypeOK'
  <2>1. pc' \in [Proc -> Label]
    BY <1>10 DEF HandleExit, Goto, Label
  <2>2. toRight' \in [Proc -> Seq(Command)] /\ toLeft' \in [Proc -> Seq(Command)]
    <3>1. CASE p = Last
      <4>1. toLeft' = Send(toLeft, p, Bye) /\ toRight' = toRight
        BY <1>10, <3>1 DEF HandleExit
      <4> QED BY <4>1, SendTyped
    <3>2. CASE p # Last
      <4>1. toRight' = Send(toRight, Right(p), Exit) /\ toLeft' = toLeft
        BY <1>10, <3>2 DEF HandleExit
      <4> QED BY <4>1, SendTyped
    <3> QED BY <3>1, <3>2
  <2> QED BY <1>10, <2>1, <2>2 DEF HandleExit
<1>11. ASSUME NEW p \in Proc, ReadBye(p) PROVE TypeOK'
  BY <1>11 DEF ReadBye, Goto, Label
<1>12. ASSUME NEW p \in Proc, Announce(p) PROVE TypeOK'
  BY <1>12 DEF Announce, Goto, Label
<1>13. ASSUME NEW p \in Proc, SendBye(p) PROVE TypeOK'
  <2>1. pc' \in [Proc -> Label] /\ toLeft' \in [Proc -> Seq(Command)]
    BY <1>13, SendTyped DEF SendBye, Goto, Label
  <2> QED BY <1>13, <2>1 DEF SendBye
<1> QED
  BY <1>0, <1>1, <1>2, <1>3, <1>4, <1>5, <1>6, <1>7, <1>8, <1>9, <1>10, <1>11,
     <1>12, <1>13 DEF Next, Step

(* The type invariant: every process is at a place of main, and every pipe *)
(* holds commands.                                                         *)
THEOREM TypeCorrect == Spec => []TypeOK
<1>1. Init => TypeOK
  BY ProcFacts, CommandsTyped DEF Init, TypeOK, Label
<1> QED BY <1>1, TypeStep, PTL DEF Spec

(***************************************************************************)
(* Who is in charge                                                        *)
(***************************************************************************)
LEMMA HandlerIsInCharge ==
  ASSUME IInv, NEW p \in Proc, pc[p] \in Forward
  PROVE  /\ Carrying(p, cmd[p])
         /\ toRight[p] = <<>>
         /\ pc[p] \in Handling(cmd[p])
<1>1. ~Starting
  BY DEF Starting, Forward
<1>2. ~\E j \in Proc : CarryingBye(j)
  BY DEF CarryingBye, Forward, Leaving, Gone
<1>3. PICK j \in Proc, m \in Command : Carrying(j, m)
  BY <1>1, <1>2 DEF IInv, Phase
<1>4. j = p
  BY <1>3 DEF Carrying, Forward
<1> QED BY <1>3, <1>4 DEF Carrying, Forward

LEMMA ReceiverIsInCharge ==
  ASSUME IInv, NEW p \in Proc, pc[p] = "forward", toRight[p] # <<>>
  PROVE  \E m \in Command : toRight[p] = <<m>> /\ Carrying(p, m)
<1>1. ~Starting
  BY DEF Starting
<1>2. ~\E j \in Proc : CarryingBye(j)
  BY DEF CarryingBye
<1>3. PICK j \in Proc, m \in Command : Carrying(j, m)
  BY <1>1, <1>2 DEF IInv, Phase
<1>4. j = p
  BY <1>3 DEF Carrying
<1> QED BY <1>3, <1>4 DEF Carrying

LEMMA LeaverIsInCharge ==
  ASSUME IInv, NEW p \in Proc, pc[p] \in Leaving
  PROVE  CarryingBye(p) /\ toLeft[p] = <<>>
<1>1. ~Starting
  BY DEF Starting, Leaving
<1>2. ~\E j \in Proc, m \in Command : Carrying(j, m)
  BY DEF Carrying, Leaving, Handling
<1>3. PICK j \in Proc : CarryingBye(j)
  BY <1>1, <1>2 DEF IInv, Phase
<1>4. j = p
  BY <1>3 DEF CarryingBye, Leaving, Gone
<1> QED BY <1>3, <1>4 DEF CarryingBye, Leaving, Gone

LEMMA ByeIsLast ==
  ASSUME IInv, NEW p \in Proc, pc[p] = "backward", toLeft[Right(p)] # <<>>
  PROVE  /\ CarryingBye(Right(p))
         /\ Right(p) # Parent
         /\ toLeft[Right(p)] = <<Bye>>
         /\ pc[Right(p)] \in Gone
<1>1. ~Starting
  BY ProcFacts DEF Starting
<1>2. ~\E j \in Proc, m \in Command : Carrying(j, m)
  BY ProcFacts DEF Carrying
<1>3. PICK j \in Proc : CarryingBye(j)
  BY <1>1, <1>2 DEF IInv, Phase
<1>4. j = Right(p)
  BY <1>3, ProcFacts DEF CarryingBye
<1>5. Right(p) # Parent
  <2>1. SUFFICES ASSUME Right(p) = Parent PROVE FALSE
    OBVIOUS
  <2>2. p \in After(Parent) /\ p # Parent
    BY <2>1 DEF After, Right, Proc, Parent, Last
  <2> QED BY <2>1, <2>2, <1>3, <1>4 DEF CarryingBye, Gone
<1> QED BY <1>3, <1>4, <1>5 DEF CarryingBye

(***************************************************************************)
(* Every step keeps a process in charge                                    *)
(***************************************************************************)
LEMMA RightFacts ==
  ASSUME NEW p \in Proc
  PROVE  /\ p # Parent => Right(p) = p + 1
         /\ Right(Parent) = 0
         /\ Right(p) # p
  BY NUMOFPIDAssumption DEF Right, Proc, Parent

(* Nothing else changes whose turn it is.                                  *)
LEMMA TurnUnchanged ==
  ASSUME UNCHANGED <<file, cursor, printed>>
  PROVE  Turn' = Turn /\ (LinesInTurn => LinesInTurn')
  BY DEF Turn, LinesInTurn

LEMMA StartSteps ==
  ASSUME IInv, Fork \/ Kick
  PROVE  LinesInTurn' /\ Phase'
<1> USE NUMOFPIDAssumption DEF Proc, Parent
<1>1. pc[Parent] = "fork" /\ TypeOK /\ Turn' = Turn /\ LinesInTurn'
  BY TurnUnchanged DEF Fork, Kick, IInv
<1>2. Starting
  BY <1>1 DEF IInv, Phase, Carrying, CarryingBye, Handling, Leaving, Gone
<1>3. CASE Fork
  <2>1. forked \in Proc /\ forked # Parent
    BY <1>1, <1>3 DEF Fork, TypeOK
  <2>2. /\ pc' \in {[pc EXCEPT ![forked] = "forward"], [pc EXCEPT ![forked] = "absent"]}
    BY <1>3 DEF Fork, Goto
  <2>3. /\ cursor = 0 /\ cursor' = cursor /\ toRight' = toRight /\ toLeft' = toLeft
        /\ forked' = forked + 1 /\ forked \in Nat
        /\ pc \in [Proc -> Label]
    BY <1>1, <1>2, <1>3 DEF Starting, Fork, TypeOK
  <2>4. pc'[Parent] = "fork"
    BY <1>1, <2>1, <2>2, <2>3, ProcFacts
  <2>5. ASSUME NEW p \in Proc \ {Parent}
        PROVE  pc'[p] \in IF p < forked' THEN {"forward", "absent"} ELSE {"unborn"}
    <3>1. p \in Nat /\ p \in Proc
      OBVIOUS
    <3>2. pc[p] \in IF p < forked THEN {"forward", "absent"} ELSE {"unborn"}
      BY <1>2 DEF Starting
    <3>3. CASE p = forked
      BY <2>1, <2>2, <2>3, <3>1, <3>3
    <3>4. CASE p # forked
      <4>1. pc'[p] = pc[p]
        BY <2>1, <2>2, <2>3, <3>1, <3>4
      <4>2. p < forked' <=> p < forked
        BY <2>3, <3>1, <3>4
      <4> QED BY <3>2, <4>1, <4>2
    <3> QED BY <3>3, <3>4
  <2>6. Starting'
    BY <1>2, <2>3, <2>4, <2>5 DEF Starting
  <2> QED BY <1>1, <2>6 DEF Phase
<1>4. CASE Kick
  <2>1. Carrying(Parent, Read)'
    <3>1. Turn' = Parent
      BY <1>1, <1>2 DEF Turn, Starting
    <3>2. /\ toRight' = [toRight EXCEPT ![Parent] = Append(@, Read)]
          /\ pc' = [pc EXCEPT ![Parent] = "forward"]
          /\ toRight \in [Proc -> Seq(Command)] /\ pc \in [Proc -> Label]
          /\ Parent \in Proc
      BY <1>1, <1>4, ProcFacts DEF Kick, Send, Goto, TypeOK
    <3>3. toRight'[Parent] = <<Read>> /\ pc'[Parent] = "forward"
      <4>1. toRight[Parent] = <<>>
        BY <1>2, <3>2 DEF Starting
      <4> QED BY <3>2, <4>1
    <3>5. ASSUME NEW p \in Proc \ {Parent}
          PROVE  toRight'[p] = <<>> /\ pc'[p] \in {"absent", "forward"}
      <4>1. toRight'[p] = toRight[p] /\ pc'[p] = pc[p]
        BY <3>2
      <4>2. p < forked
        BY <1>4 DEF Kick
      <4> QED BY <1>2, <4>1, <4>2 DEF Starting
    <3>4. \A p \in Proc : toLeft'[p] = <<>>
      BY <1>2, <1>4 DEF Starting, Kick
    <3> QED BY <3>1, <3>3, <3>4, <3>5 DEF Carrying, Broke, Read
  <2> QED BY <1>1, <2>1, CommandsTyped DEF Phase
<1> QED BY <1>3, <1>4

LEMMA ReadCommandStep ==
  ASSUME IInv, NEW p \in Proc, ReadCommand(p)
  PROVE  LinesInTurn' /\ Phase'
<1>1. TypeOK /\ Turn' = Turn /\ LinesInTurn'
  BY TurnUnchanged DEF ReadCommand, IInv
<1>2. PICK m \in Command : toRight[p] = <<m>> /\ Carrying(p, m)
  BY ReceiverIsInCharge DEF ReadCommand
<1>3. /\ toRight'[p] = <<>> /\ cmd'[p] = m
      /\ \A q \in Proc \ {p} : toRight'[q] = toRight[q] /\ pc'[q] = pc[q]
  BY <1>1, <1>2 DEF ReadCommand, Goto, TypeOK
<1>4. pc'[p] \in Handling(m) /\ pc'[p] \notin {"pass", "end", "absent"}
  BY <1>1, <1>2 DEF ReadCommand, Goto, TypeOK, Handling, Carrying, Command
<1>5. pc[p] = "forward" /\ toLeft' = toLeft /\ cursor' = cursor /\ file' = file
  BY DEF ReadCommand
<1>6. pc'[Parent] # "absent"
  BY <1>2, <1>3, <1>4, ProcFacts DEF Carrying
<1>7. Carrying(p, m)'
  BY <1>1, <1>2, <1>3, <1>4, <1>5, <1>6 DEF Carrying, Broke
<1> QED BY <1>1, <1>7 DEF Phase


(* A command sent on to the right neighbour is in that neighbour's charge. *)
LEMMA PassOn ==
  ASSUME TypeOK, NEW p \in Proc, NEW m \in Command, NEW n \in Command, NEW l,
         Carrying(p, m),
         toRight[p] = <<>>,
         pc[p] # "absent",
         toRight' = Send(toRight, Right(p), n),
         Goto(p, l),
         UNCHANGED <<file, cursor, toLeft>>,
         Turn' = Turn,
         n.op # "BYEE",
         n.op = "EXIT" => Right(p) # Parent,
         n.op = "READ" => Turn = Right(p),
         n.op # "READ" => cursor = Len(file),
         Right(p) \notin Broke(m, p),
         Right(p) \notin Broke(n, Right(p)),
         l = IF p \in Broke(n, Right(p)) THEN "backward" ELSE "forward",
         \A q \in Proc \ {p, Right(p)} : q \in Broke(n, Right(p)) <=> q \in Broke(m, p)
  PROVE  Phase'
<1> DEFINE r == Right(p)
<1>1. r \in Proc /\ r # p
  BY ProcFacts, RightFacts
<1>2. /\ toRight' = [toRight EXCEPT ![r] = Append(@, n)]
      /\ pc' = [pc EXCEPT ![p] = l]
      /\ toRight \in [Proc -> Seq(Command)] /\ pc \in [Proc -> Label]
  BY DEF Send, Goto, TypeOK
<1>3. toRight[r] = <<>> /\ pc[r] \in {"forward", "absent"}
  BY <1>1 DEF Carrying
<1>4. toRight'[r] = <<n>> /\ pc'[r] \in {"forward", "absent"}
  BY <1>1, <1>2, <1>3
<1>5. ASSUME NEW q \in Proc \ {r}
      PROVE  /\ toRight'[q] = <<>>
             /\ pc'[q] \in {"absent", IF q \in Broke(n, r) THEN "backward" ELSE "forward"}
  <2>1. CASE q = p
    BY <1>1, <1>2, <2>1
  <2>2. CASE q # p
    <3>1. toRight'[q] = toRight[q] /\ pc'[q] = pc[q]
      BY <1>1, <1>2, <2>2
    <3>2. /\ toRight[q] = <<>>
          /\ pc[q] \in {"absent", IF q \in Broke(m, p) THEN "backward" ELSE "forward"}
      BY <2>2 DEF Carrying
    <3> QED BY <2>2, <3>1, <3>2
  <2> QED BY <2>1, <2>2
<1>6. pc'[Parent] # "absent"
  <2>1. pc[Parent] # "absent"
    BY DEF Carrying
  <2>2. l # "absent"
    OBVIOUS
  <2> QED BY <1>2, <2>1, <2>2, ProcFacts
<1>7. \A q \in Proc : toLeft'[q] = <<>>
  BY DEF Carrying
<1>8. Carrying(r, n)'
  BY <1>4, <1>5, <1>6, <1>7 DEF Carrying, Broke
<1> QED BY <1>1, <1>8 DEF Phase

LEMMA BrokeFacts ==
  ASSUME NEW p \in Proc
  PROVE  /\ \A j \in Proc, m \in Command :
              m.op = "READ" \/ (m.op = "FIN" /\ m.index = Parent) => Broke(m, j) = {}
         /\ \A j \in Proc, m \in Command :
              m.op = "EXIT" \/ (m.op = "FIN" /\ m.index # Parent /\ j <= m.index)
                => (p \in Broke(m, j) <=> p = Parent \/ p < j)
         /\ \A j \in Proc, m \in Command :
              m.op = "FIN" /\ j > m.index => Broke(m, j) = {}
  BY NUMOFPIDAssumption DEF Broke, Proc, Parent, Command


LEMMA ReadByteStep ==
  ASSUME IInv, NEW p \in Proc, ReadByte(p)
  PROVE  LinesInTurn' /\ Phase'
<1> DEFINE n == cursor + 1
<1>1. TypeOK /\ file \in Seq(Byte)
  BY DEF IInv, TypeOK
<1>2. /\ Carrying(p, cmd[p]) /\ toRight[p] = <<>> /\ cmd[p].op = "READ"
      /\ cmd[p] \in Command
  BY <1>1, HandlerIsInCharge DEF ReadByte, Forward, Handling, TypeOK
<1>3. Turn = p
  BY <1>2 DEF Carrying, ReadByte
<1>4. /\ cursor \in Nat /\ cursor' = n /\ file' = file
      /\ printed \in Seq(Proc) /\ Len(printed) = cursor
      /\ printed' = Append(printed, p)
  BY <1>1 DEF ReadByte, TypeOK
<1>5. /\ Len(printed') = n /\ printed'[n] = p
      /\ \A i \in 1 .. cursor : printed'[i] = printed[i]
  BY <1>4
<1>6. LinesInTurn'
  <2>1. printed'[1] = Parent
    <3>1. CASE cursor = 0
      BY <1>3, <1>5, <3>1 DEF Turn
    <3>2. CASE cursor # 0
      BY <1>4, <1>5, <3>2 DEF IInv, LinesInTurn
    <3> QED BY <3>1, <3>2
  <2>2. ASSUME NEW i \in 1 .. (Len(printed') - 1)
        PROVE  printed'[i + 1] = IF file[i] = "nl" THEN Right(printed'[i]) ELSE printed'[i]
    <3>1. i \in 1 .. cursor
      BY <1>4, <1>5
    <3>2. CASE i = cursor
      BY <1>3, <1>4, <1>5, <3>1, <3>2 DEF Turn
    <3>3. CASE i # cursor
      <4>1. i \in 1 .. (Len(printed) - 1) /\ i + 1 \in 1 .. cursor
        BY <1>4, <3>1, <3>3
      <4>2. printed[i + 1] = IF file[i] = "nl" THEN Right(printed[i]) ELSE printed[i]
        BY <4>1 DEF IInv, LinesInTurn
      <4> QED BY <1>5, <3>1, <4>1, <4>2
    <3> QED BY <3>2, <3>3
  <2> QED BY <1>4, <2>1, <2>2 DEF LinesInTurn
<1>7. Turn' = IF file[n] = "nl" THEN Right(p) ELSE p
  BY <1>4, <1>5 DEF Turn
<1>8. /\ pc' = [pc EXCEPT ![p] = IF file[n] = "nl" THEN "pass" ELSE "line"]
      /\ pc \in [Proc -> Label]
      /\ UNCHANGED <<cmd, toRight, toLeft>>
  BY <1>1 DEF ReadByte, Goto, TypeOK
<1>9. pc'[p] = IF file[n] = "nl" THEN "pass" ELSE "line"
  BY <1>8
<1>10. Carrying(p, cmd[p])'
  BY <1>2, <1>7, <1>8, <1>9, ProcFacts DEF Carrying, Handling, Broke
<1> QED BY <1>2, <1>6, <1>8, <1>10 DEF Phase

LEMMA ReadEndStep ==
  ASSUME IInv, NEW p \in Proc, ReadEnd(p)
  PROVE  LinesInTurn' /\ Phase'
<1>1. TypeOK /\ Turn' = Turn /\ LinesInTurn'
  BY TurnUnchanged DEF ReadEnd, IInv
<1>2. /\ Carrying(p, cmd[p]) /\ toRight[p] = <<>> /\ cmd[p].op = "READ"
      /\ cmd[p] \in Command
  BY <1>1, HandlerIsInCharge DEF ReadEnd, Forward, Handling, TypeOK
<1>3. /\ pc' = [pc EXCEPT ![p] = "end"] /\ pc \in [Proc -> Label] /\ pc[p] = "line"
      /\ cursor = Len(file)
      /\ UNCHANGED <<file, cursor, cmd, toRight, toLeft>>
  BY <1>1 DEF ReadEnd, Goto, TypeOK
<1>4. Carrying(p, cmd[p])'
  BY <1>1, <1>2, <1>3, ProcFacts DEF Carrying, Handling, Broke
<1> QED BY <1>1, <1>2, <1>3, <1>4 DEF Phase

LEMMA PassReadStep ==
  ASSUME IInv, NEW p \in Proc, PassRead(p)
  PROVE  LinesInTurn' /\ Phase'
<1>1. TypeOK /\ Turn' = Turn /\ LinesInTurn'
  BY TurnUnchanged DEF PassRead, IInv
<1>2. /\ Carrying(p, cmd[p]) /\ toRight[p] = <<>> /\ cmd[p].op = "READ"
      /\ cmd[p] \in Command /\ Turn = Right(p)
  BY <1>1, HandlerIsInCharge DEF PassRead, Forward, Handling, TypeOK, Carrying
<1>3. Read.op = "READ" /\ Read \in Command
  BY CommandsTyped DEF Read
<1>4. \A j \in Proc : Broke(Read, j) = {} /\ Broke(cmd[p], j) = {}
  BY <1>2, <1>3, BrokeFacts
<1> QED BY <1>1, <1>2, <1>3, <1>4, ProcFacts, PassOn DEF PassRead

LEMMA SendFinStep ==
  ASSUME IInv, NEW p \in Proc, SendFin(p)
  PROVE  LinesInTurn' /\ Phase'
<1>1. TypeOK /\ Turn' = Turn /\ LinesInTurn'
  BY TurnUnchanged DEF SendFin, IInv
<1>2. /\ Carrying(p, cmd[p]) /\ toRight[p] = <<>> /\ cmd[p].op = "READ"
      /\ cmd[p] \in Command /\ cursor = Len(file)
  BY <1>1, HandlerIsInCharge DEF SendFin, Forward, Handling, TypeOK, Carrying
<1>3. Fin(p).op = "FIN" /\ Fin(p).index = p /\ Fin(p) \in Command
  BY CommandsTyped DEF Fin
<1>4. Broke(cmd[p], p) = {}
  BY <1>2, BrokeFacts
<1>5. Broke(Fin(p), Right(p)) = {}
  <2>1. CASE p = Parent
    BY <1>3, <2>1, BrokeFacts, ProcFacts
  <2>2. CASE p # Parent
    <3>1. Right(p) > p
      BY <2>2, RightFacts DEF Proc
    <3> QED BY <1>3, <3>1, BrokeFacts, ProcFacts
  <2> QED BY <2>1, <2>2
<1> QED BY <1>1, <1>2, <1>3, <1>4, <1>5, ProcFacts, PassOn DEF SendFin


(* The handlers of FIN and EXIT: what they know when they run.             *)
LEMMA FinHandler ==
  ASSUME IInv, NEW p \in Proc, pc[p] = "fin"
  PROVE  /\ Carrying(p, cmd[p]) /\ toRight[p] = <<>>
         /\ cmd[p] \in Command /\ cmd[p].op = "FIN" /\ cmd[p].index \in Proc
         /\ cursor = Len(file)
<1>1. TypeOK
  BY DEF IInv
<1>2. /\ Carrying(p, cmd[p]) /\ toRight[p] = <<>> /\ pc[p] \in Handling(cmd[p])
      /\ cmd[p] \in Command
  BY <1>1, HandlerIsInCharge DEF Forward, TypeOK
<1>3. cmd[p].op = "FIN" /\ cmd[p].index \in Proc
  BY <1>2 DEF Handling, Command
<1> QED BY <1>2, <1>3 DEF Carrying

LEMMA ExitHandler ==
  ASSUME IInv, NEW p \in Proc, pc[p] = "exit"
  PROVE  /\ Carrying(p, cmd[p]) /\ toRight[p] = <<>>
         /\ cmd[p] \in Command /\ cmd[p].op = "EXIT" /\ p # Parent
         /\ cursor = Len(file)
<1>1. TypeOK
  BY DEF IInv
<1>2. /\ Carrying(p, cmd[p]) /\ toRight[p] = <<>> /\ pc[p] \in Handling(cmd[p])
      /\ cmd[p] \in Command
  BY <1>1, HandlerIsInCharge DEF Forward, TypeOK
<1>3. cmd[p].op # "READ" /\ cmd[p].op # "FIN" /\ cmd[p].op # "BYEE"
  BY <1>2 DEF Handling, Carrying
<1>4. cmd[p].op = "EXIT"
  BY <1>2, <1>3 DEF Command
<1> QED BY <1>2, <1>4 DEF Carrying

(* The last child starts BYEE once every process before it waits for it.   *)
LEMMA LastLeaves ==
  ASSUME TypeOK, NEW m \in Command, Carrying(Last, m), toRight[Last] = <<>>,
         \A q \in Proc \ {Last} : q \in Broke(m, Last),
         cursor = Len(file),
         UNCHANGED <<file, cursor, toRight>>,
         NEW l \in Label, Goto(Last, l),
         \/ l = "announce" /\ toLeft' = toLeft
         \/ l = "lateAnnounce" /\ toLeft' = Send(toLeft, Last, Bye)
  PROVE  Phase'
<1>1. Last \in Proc /\ Last # Parent /\ Parent \in Proc
  BY NUMOFPIDAssumption DEF Last, Proc, Parent
<1>2. After(Last) = {}
  BY NUMOFPIDAssumption DEF After, Last, Parent
<1>3. \A p \in Proc : toRight[p] = <<>> /\ toLeft[p] = <<>>
  BY DEF Carrying
<1>4. pc \in [Proc -> Label] /\ toLeft \in [Proc -> Seq(Command)]
  BY DEF TypeOK
<1>5. /\ pc'[Last] = l
      /\ \A q \in Proc \ {Last} : pc'[q] = pc[q] /\ pc'[q] \in {"backward", "absent"}
  BY <1>1, <1>4 DEF Goto, Carrying
<1>6. /\ \/ l \in Leaving /\ toLeft'[Last] = <<>>
         \/ l \in Gone /\ toLeft'[Last] = <<Bye>>
      /\ \A q \in Proc \ {Last} : toLeft'[q] = <<>>
  <2>1. CASE l = "announce" /\ toLeft' = toLeft
    BY <1>1, <1>3, <2>1 DEF Leaving
  <2>2. CASE l = "lateAnnounce" /\ toLeft' = Send(toLeft, Last, Bye)
    <3>1. toLeft' = [toLeft EXCEPT ![Last] = Append(@, Bye)]
      BY <2>2 DEF Send
    <3>2. toLeft'[Last] = <<Bye>>
      <4>1. toLeft'[Last] = Append(toLeft[Last], Bye)
        BY <1>1, <1>4, <3>1
      <4>2. toLeft[Last] = <<>> /\ Bye \in Command
        BY <1>1, <1>3, CommandsTyped
      <4> QED BY <4>1, <4>2
    <3> QED BY <1>1, <1>3, <1>4, <2>2, <3>1, <3>2 DEF Gone
  <2> QED BY <2>1, <2>2
<1>7. pc'[Parent] # "absent"
  BY <1>1, <1>5 DEF Carrying
<1>8. CarryingBye(Last)'
  BY <1>2, <1>3, <1>5, <1>6, <1>7 DEF CarryingBye, After
<1> QED BY <1>1, <1>8 DEF Phase

LEMMA FinReturnsStep ==
  ASSUME IInv, NEW p \in Proc, FinReturns(p)
  PROVE  LinesInTurn' /\ Phase'
<1>1. TypeOK /\ Turn' = Turn /\ LinesInTurn'
  BY TurnUnchanged DEF FinReturns, IInv
<1>2. /\ Carrying(p, cmd[p]) /\ toRight[p] = <<>>
      /\ cmd[p] \in Command /\ cmd[p].op = "FIN" /\ cmd[p].index = p
      /\ cursor = Len(file)
  BY FinHandler DEF FinReturns
<1>3. CASE p = Last
  <2>1. \A q \in Proc \ {Last} : q \in Broke(cmd[p], Last)
    <3>1. p # Parent /\ Last <= cmd[p].index
      BY <1>2, <1>3 DEF Last, Parent
    <3>2. \A q \in Proc : q \in Broke(cmd[p], Last) <=> q = Parent \/ q < Last
      BY <1>2, <1>3, <3>1, BrokeFacts
    <3> QED BY <3>2 DEF Proc, Parent, Last
  <2>2. Goto(Last, "announce") /\ UNCHANGED <<file, cursor, toRight, toLeft>>
    BY <1>3 DEF FinReturns
  <2> QED BY <1>1, <1>2, <1>3, <2>1, <2>2, LastLeaves DEF Label
<1>4. CASE p # Last
  <2>1. /\ Exit.op = "EXIT" /\ Exit \in Command
        /\ Right(p) \in Proc /\ Right(p) # Parent
    BY <1>4, CommandsTyped, RightFacts, ProcFacts DEF Exit, Right, Proc, Parent, Last
  <2>2. \A q \in Proc : q \in Broke(Exit, Right(p)) <=> q = Parent \/ q < Right(p)
    BY <2>1, BrokeFacts
  <2>3. /\ p \in Broke(Exit, Right(p)) /\ Right(p) \notin Broke(Exit, Right(p))
        /\ Right(p) \notin Broke(cmd[p], p)
        /\ \A q \in Proc \ {p, Right(p)} : q \in Broke(Exit, Right(p)) <=> q \in Broke(cmd[p], p)
    <3>1. CASE p = Parent
      <4>1. Broke(cmd[p], p) = {}
        BY <1>2, <3>1, BrokeFacts
      <4> QED BY <2>1, <2>2, <3>1, <4>1, RightFacts DEF Proc
    <3>2. CASE p # Parent
      <4>1. \A q \in Proc : q \in Broke(cmd[p], p) <=> q = Parent \/ q < p
        <5>1. p <= cmd[p].index
          BY <1>2 DEF Proc
        <5> QED BY <1>2, <3>2, <5>1, BrokeFacts
      <4>2. Right(p) = p + 1
        BY <3>2, RightFacts
      <4> QED BY <2>1, <2>2, <3>2, <4>1, <4>2 DEF Proc
    <3> QED BY <3>1, <3>2
  <2>4. /\ toRight' = Send(toRight, Right(p), Exit) /\ Goto(p, "backward")
        /\ UNCHANGED <<file, cursor, toLeft>> /\ pc[p] # "absent"
    BY <1>4 DEF FinReturns
  <2> QED BY <1>1, <1>2, <2>1, <2>3, <2>4, PassOn
<1> QED BY <1>3, <1>4

LEMMA ForwardFinStep ==
  ASSUME IInv, NEW p \in Proc, ForwardFin(p)
  PROVE  LinesInTurn' /\ Phase'
<1> DEFINE m == cmd[p]
           k == cmd[p].index
           l == IF StaysForward(p, k) THEN "forward" ELSE "backward"
<1>1. TypeOK /\ Turn' = Turn /\ LinesInTurn'
  BY TurnUnchanged DEF ForwardFin, IInv
<1>2. /\ Carrying(p, m) /\ toRight[p] = <<>>
      /\ m \in Command /\ m.op = "FIN" /\ k \in Proc /\ k # p
      /\ cursor = Len(file)
  BY FinHandler DEF ForwardFin
<1>3. Right(p) \in Proc
  BY ProcFacts
<1>4. /\ l = IF p \in Broke(m, Right(p)) THEN "backward" ELSE "forward"
      /\ Right(p) \notin Broke(m, p) /\ Right(p) \notin Broke(m, Right(p))
      /\ \A q \in Proc \ {p, Right(p)} : q \in Broke(m, Right(p)) <=> q \in Broke(m, p)
  <2>1. CASE k = Parent
    <3>1. Broke(m, p) = {} /\ Broke(m, Right(p)) = {}
      BY <1>2, <1>3, <2>1, BrokeFacts
    <3> QED BY <2>1, <3>1 DEF StaysForward
  <2>2. CASE k # Parent /\ p = Parent
    <3>1. Broke(m, p) = {} /\ Right(p) = 0 /\ 0 <= k /\ p > k
      BY <1>2, <2>2, BrokeFacts, RightFacts DEF Proc, Parent
    <3>2. \A q \in Proc : q \in Broke(m, Right(p)) <=> q = Parent \/ q < 0
      BY <1>2, <1>3, <2>2, <3>1, BrokeFacts
    <3>3. ~StaysForward(p, k)
      BY <2>2 DEF StaysForward, Parent
    <3> QED BY <2>2, <3>1, <3>2, <3>3, RightFacts DEF Proc
  <2>3. CASE k # Parent /\ p # Parent /\ p < k
    <3>1. Right(p) = p + 1 /\ p <= k /\ p + 1 <= k
      BY <1>2, <2>3, RightFacts DEF Proc
    <3>2. \A q \in Proc : /\ q \in Broke(m, Right(p)) <=> q = Parent \/ q < p + 1
                          /\ q \in Broke(m, p) <=> q = Parent \/ q < p
      BY <1>2, <1>3, <2>3, <3>1, BrokeFacts
    <3>3. ~StaysForward(p, k)
      BY <1>2, <2>3 DEF StaysForward, Proc
    <3>4. p + 1 # Parent
      BY <1>2, <2>3, <3>1 DEF Proc, Parent
    <3> QED BY <1>3, <2>3, <3>1, <3>2, <3>3, <3>4 DEF Proc
  <2>4. CASE k # Parent /\ p # Parent /\ p > k
    <3>1. Broke(m, p) = {} /\ Broke(m, Right(p)) = {}
      <4>1. Right(p) > k
        BY <1>2, <2>4, RightFacts DEF Proc
      <4> QED BY <1>2, <1>3, <2>4, <4>1, BrokeFacts
    <3>2. StaysForward(p, k)
      BY <1>2, <2>4 DEF StaysForward, Proc, Parent, Last
    <3> QED BY <3>1, <3>2
  <2> QED BY <1>2, <2>1, <2>2, <2>3, <2>4 DEF Proc
<1>5. /\ toRight' = Send(toRight, Right(p), m) /\ Goto(p, l)
      /\ UNCHANGED <<file, cursor, toLeft>> /\ pc[p] # "absent"
  BY DEF ForwardFin
<1> HIDE DEF l
<1> QED BY <1>1, <1>2, <1>4, <1>5, PassOn


LEMMA HandleExitStep ==
  ASSUME IInv, NEW p \in Proc, HandleExit(p)
  PROVE  LinesInTurn' /\ Phase'
<1>1. TypeOK /\ Turn' = Turn /\ LinesInTurn'
  BY TurnUnchanged DEF HandleExit, IInv
<1>2. /\ Carrying(p, cmd[p]) /\ toRight[p] = <<>>
      /\ cmd[p] \in Command /\ cmd[p].op = "EXIT" /\ p # Parent
      /\ cursor = Len(file)
  BY ExitHandler DEF HandleExit
<1>3. \A q \in Proc : q \in Broke(cmd[p], p) <=> q = Parent \/ q < p
  BY <1>2, BrokeFacts
<1>4. CASE p = Last
  <2>1. \A q \in Proc \ {Last} : q \in Broke(cmd[p], Last)
    BY <1>3, <1>4 DEF Proc, Parent, Last
  <2>2. /\ Goto(Last, "lateAnnounce") /\ toLeft' = Send(toLeft, Last, Bye)
        /\ UNCHANGED <<file, cursor, toRight>>
    BY <1>4 DEF HandleExit
  <2> QED BY <1>1, <1>2, <1>4, <2>1, <2>2, LastLeaves DEF Label
<1>5. CASE p # Last
  <2>1. /\ Exit.op = "EXIT" /\ Exit \in Command
        /\ Right(p) = p + 1 /\ Right(p) \in Proc /\ Right(p) # Parent
    BY <1>2, <1>5, CommandsTyped, RightFacts, ProcFacts DEF Exit, Right, Proc, Parent, Last
  <2>2. \A q \in Proc : q \in Broke(Exit, Right(p)) <=> q = Parent \/ q < Right(p)
    BY <2>1, BrokeFacts
  <2>3. /\ p \in Broke(Exit, Right(p)) /\ Right(p) \notin Broke(Exit, Right(p))
        /\ Right(p) \notin Broke(cmd[p], p)
        /\ \A q \in Proc \ {p, Right(p)} : q \in Broke(Exit, Right(p)) <=> q \in Broke(cmd[p], p)
    BY <1>3, <2>1, <2>2 DEF Proc
  <2>4. /\ toRight' = Send(toRight, Right(p), Exit) /\ Goto(p, "backward")
        /\ UNCHANGED <<file, cursor, toLeft>> /\ pc[p] # "absent"
    BY <1>5 DEF HandleExit
  <2> QED BY <1>1, <1>2, <2>1, <2>3, <2>4, PassOn
<1> QED BY <1>4, <1>5

LEMMA ReadByeStep ==
  ASSUME IInv, NEW p \in Proc, ReadBye(p)
  PROVE  LinesInTurn' /\ Phase'
<1> DEFINE r == Right(p)
<1>1. TypeOK /\ Turn' = Turn /\ LinesInTurn'
  BY TurnUnchanged DEF ReadBye, IInv
<1>2. /\ CarryingBye(r) /\ r # Parent /\ r \in Proc /\ r # p
      /\ toLeft[r] = <<Bye>> /\ pc[r] \in Gone
  BY ByeIsLast, ProcFacts, RightFacts DEF ReadBye
<1>3. /\ toLeft' = [toLeft EXCEPT ![r] = Tail(@)] /\ toLeft \in [Proc -> Seq(Command)]
      /\ cmd' = [cmd EXCEPT ![p] = Head(toLeft[r])] /\ cmd \in [Proc -> Command]
      /\ pc \in [Proc -> Label]
      /\ UNCHANGED <<file, cursor, toRight>>
  BY <1>1 DEF ReadBye, TypeOK
<1>4. cmd'[p] = Bye
  BY <1>2, <1>3
<1>5. pc' = [pc EXCEPT ![p] = "announce"]
  <2>1. Bye.op = "BYEE"
    BY DEF Bye
  <2> QED BY <1>4, <2>1 DEF ReadBye, Goto
<1>6. \A q \in Proc : toLeft'[q] = <<>>
  <2>1. toLeft'[r] = <<>>
    <3>1. toLeft'[r] = Tail(toLeft[r])
      BY <1>2, <1>3
    <3> QED BY <1>2, <3>1
  <2>2. \A q \in Proc \ {r} : toLeft'[q] = <<>>
    BY <1>2, <1>3 DEF CarryingBye
  <2> QED BY <2>1, <2>2
<1>7. \A q \in Proc : q \in After(p) <=> q \in After(r) \cup {r}
  BY <1>2, RightFacts DEF After, Right, Proc, Parent, Last
<1>8. p \notin After(p)
  BY DEF After, Proc, Parent, Last
<1>9. ASSUME NEW q \in Proc \ {p}
      PROVE  pc'[q] \in IF q \in After(p) THEN Gone ELSE {"backward", "absent"}
  <2>1. pc'[q] = pc[q]
    BY <1>3, <1>5
  <2>2. CASE q = r
    BY <1>2, <1>7, <2>1, <2>2
  <2>3. CASE q # r
    BY <1>2, <1>7, <2>1, <2>3 DEF CarryingBye
  <2> QED BY <2>2, <2>3
<1>10. CarryingBye(p)'
  <2>1. pc'[p] = "announce"
    BY <1>3, <1>5
  <2>2. pc'[Parent] # "absent"
    BY <1>2, <1>3, <1>5, ProcFacts DEF CarryingBye
  <2> QED BY <1>2, <1>3, <1>6, <1>9, <2>1, <2>2 DEF CarryingBye, Leaving, After
<1> QED BY <1>1, <1>10 DEF Phase

(* A process that has sent BYEE changes nothing the others depend on.      *)
LEMMA GoneStaysGone ==
  ASSUME IInv, NEW p \in Proc, pc[p] \in Gone, NEW l \in Gone, Goto(p, l),
         UNCHANGED <<file, cursor, toRight, toLeft>>
  PROVE  Phase'
<1>1. ~Starting
  BY DEF Starting, Gone
<1>2. ~\E j \in Proc, m \in Command : Carrying(j, m)
  BY DEF Carrying, Gone, Handling
<1>3. PICK j \in Proc : CarryingBye(j)
  BY <1>1, <1>2 DEF IInv, Phase
<1>4. pc' = [pc EXCEPT ![p] = l] /\ pc \in [Proc -> Label]
  BY DEF Goto, IInv, TypeOK
<1>5. ASSUME NEW q \in Proc
      PROVE  \/ pc'[q] = pc[q]
             \/ q = p /\ pc[q] \in Gone /\ pc'[q] \in Gone
  BY <1>4
<1>6. \A q \in Proc \ {j} : pc'[q] \in IF q \in After(j) THEN Gone ELSE {"backward", "absent"}
  BY <1>3, <1>5 DEF CarryingBye, Gone
<1>7. \/ pc'[j] \in Leaving /\ toLeft[j] = <<>>
      \/ pc'[j] \in Gone /\ toLeft[j] = <<Bye>>
  BY <1>3, <1>5 DEF CarryingBye, Gone, Leaving
<1>8. pc'[Parent] # "absent"
  BY <1>3, <1>5, ProcFacts DEF CarryingBye, Gone
<1>9. CarryingBye(j)'
  BY <1>3, <1>6, <1>7, <1>8 DEF CarryingBye, After
<1> QED BY <1>9 DEF Phase

LEMMA AnnounceStep ==
  ASSUME IInv, NEW p \in Proc, Announce(p)
  PROVE  LinesInTurn' /\ Phase'
<1>1. TypeOK /\ Turn' = Turn /\ LinesInTurn'
  BY TurnUnchanged DEF Announce, IInv
<1>2. CASE pc[p] = "lateAnnounce"
  BY <1>1, <1>2, GoneStaysGone DEF Announce, Gone
<1>3. CASE pc[p] = "announce"
  <2>1. CarryingBye(p) /\ toLeft[p] = <<>>
    BY <1>3, LeaverIsInCharge DEF Leaving
  <2>2. /\ pc' = [pc EXCEPT ![p] = "bye"] /\ pc \in [Proc -> Label]
        /\ UNCHANGED <<file, cursor, toRight, toLeft>>
    BY <1>1, <1>3 DEF Announce, Goto, TypeOK
  <2>3. CarryingBye(p)'
    BY <2>1, <2>2, ProcFacts DEF CarryingBye, Leaving, After
  <2> QED BY <1>1, <2>3 DEF Phase
<1> QED BY <1>2, <1>3 DEF Announce

LEMMA SendByeStep ==
  ASSUME IInv, NEW p \in Proc, SendBye(p)
  PROVE  LinesInTurn' /\ Phase'
<1>1. TypeOK /\ Turn' = Turn /\ LinesInTurn'
  BY TurnUnchanged DEF SendBye, IInv
<1>2. CarryingBye(p) /\ toLeft[p] = <<>>
  BY LeaverIsInCharge DEF Leaving, SendBye
<1>3. /\ pc' = [pc EXCEPT ![p] = "return"] /\ pc \in [Proc -> Label]
      /\ toLeft' = [toLeft EXCEPT ![p] = Append(@, Bye)] /\ toLeft \in [Proc -> Seq(Command)]
      /\ UNCHANGED <<file, cursor, toRight>>
  BY <1>1 DEF SendBye, Goto, Send, TypeOK
<1>4. toLeft'[p] = <<Bye>>
  <2>1. toLeft'[p] = Append(toLeft[p], Bye)
    BY <1>3
  <2> QED BY <1>2, <2>1, CommandsTyped
<1>5. pc'[p] = "return"
  BY <1>3
<1>6. CarryingBye(p)'
  BY <1>2, <1>3, <1>4, <1>5, ProcFacts DEF CarryingBye, Gone, After
<1> QED BY <1>1, <1>6 DEF Phase

LEMMA ReturnStep ==
  ASSUME IInv, NEW p \in Proc, Return(p)
  PROVE  LinesInTurn' /\ Phase'
<1>1. LinesInTurn'
  BY TurnUnchanged DEF Return, IInv
<1> QED BY <1>1, GoneStaysGone DEF Return, Gone

LEMMA InvStep ==
  ASSUME IInv, [Next]_vars
  PROVE  IInv'
<1>1. TypeOK'
  BY TypeStep DEF IInv
<1>2. LinesInTurn' /\ Phase'
  <2>1. CASE UNCHANGED vars
    BY <2>1 DEF vars, IInv, LinesInTurn, Phase, Starting, Carrying, CarryingBye, Turn
  <2>2. CASE Next
    BY <2>2, StartSteps, ReadCommandStep, ReadByteStep, ReadEndStep, PassReadStep,
       SendFinStep, FinReturnsStep, ForwardFinStep, HandleExitStep, ReadByeStep,
       AnnounceStep, SendByeStep, ReturnStep DEF Next, Step
  <2> QED BY <2>1, <2>2
<1> QED BY <1>1, <1>2 DEF IInv

LEMMA InvInit == Init => IInv
<1> SUFFICES ASSUME Init PROVE IInv
  OBVIOUS
<1>1. TypeOK
  BY ProcFacts, CommandsTyped DEF Init, TypeOK, Label
<1>2. LinesInTurn
  BY DEF Init, LinesInTurn
<1>3. Starting
  BY ProcFacts DEF Init, Starting, Proc
<1> QED BY <1>1, <1>2, <1>3 DEF IInv, Phase

(***************************************************************************)
(* Theorems                                                                *)
(***************************************************************************)

(* The inductive invariant holds in every reachable state.                 *)
THEOREM InvCorrect == Spec => []IInv
<1> QED BY InvInit, InvStep, PTL DEF Spec

(* Every line of the file is printed by the process whose turn it is.      *)
THEOREM LinesInTurnCorrect == Spec => []LinesInTurn
<1>1. IInv => LinesInTurn
  BY DEF IInv
<1> QED BY <1>1, InvCorrect, PTL

(* No two processes ever handle commands or read the file concurrently.    *)
THEOREM OneInChargeCorrect == Spec => []OneInCharge
<1>1. IInv => OneInCharge
  <2> SUFFICES ASSUME IInv, NEW p \in Proc, NEW q \in Proc, InCharge(p), InCharge(q)
               PROVE  p = q
    BY DEF OneInCharge
  <2>1. ~Starting
    BY DEF Starting, InCharge, Forward, Leaving
  <2>2. CASE \E j \in Proc, m \in Command : Carrying(j, m)
    <3>1. PICK j \in Proc, m \in Command : Carrying(j, m)
      BY <2>2
    <3>2. \A r \in Proc : InCharge(r) => r = j
      BY <3>1 DEF Carrying, InCharge, Forward, Leaving, Handling
    <3> QED BY <3>2
  <2>3. CASE \E j \in Proc : CarryingBye(j)
    <3>1. PICK j \in Proc : CarryingBye(j)
      BY <2>3
    <3>2. \A r \in Proc : InCharge(r) => r = j
      BY <3>1 DEF CarryingBye, InCharge, Forward, Leaving, Gone
    <3> QED BY <3>2
  <2> QED BY <2>1, <2>2, <2>3 DEF IInv, Phase
<1> QED BY <1>1, InvCorrect, PTL

(* No command is left in a pipe nobody will read again.                    *)
THEOREM NoStrandedCommandCorrect == Spec => []NoStrandedCommand
<1>1. IInv => NoStrandedCommand
  <2> SUFFICES ASSUME IInv, NEW p \in Proc
               PROVE  /\ pc[p] \in {"backward"} \cup Leaving \cup Gone => toRight[p] = <<>>
                      /\ pc[p] \in {"forward"} \cup Forward => toLeft[Right(p)] = <<>>
                      /\ pc[p] \in Gone /\ p # Last => toLeft[Right(p)] = <<>>
    BY DEF NoStrandedCommand
  <2>1. CASE Starting
    BY <2>1, ProcFacts DEF Starting
  <2>2. CASE \E j \in Proc, m \in Command : Carrying(j, m)
    BY <2>2, ProcFacts DEF Carrying, Leaving, Gone, Handling
  <2>3. CASE \E j \in Proc : CarryingBye(j)
    <3>1. PICK j \in Proc : CarryingBye(j)
      BY <2>3
    <3>2. pc[p] \in {"backward"} \cup Leaving \cup Gone \cup {"absent"}
      BY <3>1 DEF CarryingBye
    <3>3. toRight[p] = <<>>
      BY <3>1 DEF CarryingBye
    <3>4. ASSUME pc[p] \in Gone, p # Last
          PROVE  toLeft[Right(p)] = <<>>
      <4>1. p = j \/ p \in After(j)
        BY <3>1, <3>4 DEF CarryingBye, Gone
      <4>2. Right(p) # j
        BY <3>4, <4>1, RightFacts DEF After, Right, Proc, Parent, Last
      <4> QED BY <3>1, <4>2, ProcFacts DEF CarryingBye
    <3> QED BY <3>2, <3>3, <3>4 DEF Forward, Leaving, Gone
  <2> QED BY <2>1, <2>2, <2>3 DEF IInv, Phase
<1> QED BY <1>1, InvCorrect, PTL


(***************************************************************************)
(* Refinement of LineRing                                                  *)
(***************************************************************************)
GonePositions == {Position(p) : p \in {q \in Proc : pc[q] \in Gone}}

LEMMA PositionFacts ==
  ASSUME NEW p \in Proc
  PROVE  /\ Position(p) \in 0 .. NUMOFPID
         /\ Position(Right(p)) = IF Position(p) = NUMOFPID THEN 0 ELSE Position(p) + 1
         /\ \A q \in Proc : Position(q) = Position(p) => q = p
         /\ p # Parent => Position(p) = p + 1
         /\ Position(Parent) = 0
         /\ Position(p) \in GonePositions <=> pc[p] \in Gone
<1>1. /\ Position(p) \in 0 .. NUMOFPID
      /\ Position(Right(p)) = IF Position(p) = NUMOFPID THEN 0 ELSE Position(p) + 1
      /\ \A q \in Proc : Position(q) = Position(p) => q = p
      /\ p # Parent => Position(p) = p + 1
      /\ Position(Parent) = 0
  BY DEF Position, Right, Proc, Parent
<1>2. Position(p) \in GonePositions <=> pc[p] \in Gone
  BY <1>1 DEF GonePositions
<1> QED BY <1>1, <1>2

(* A step that lets nobody go and reads nothing is a stutter of LineRing.  *)
LEMMA Stutter ==
  ASSUME UNCHANGED <<file, cursor, printed>>,
         \A q \in Proc : pc'[q] \in Gone <=> pc[q] \in Gone
  PROVE  UNCHANGED Ring!vars
<1>1. Turn' = Turn
  BY TurnUnchanged
<1>2. {q \in Proc : pc'[q] \in Gone} = {q \in Proc : pc[q] \in Gone}
  OBVIOUS
<1> QED BY <1>1, <1>2 DEF Ring!vars, Position

(* The last process in charge of BYEE leaves the abstract ring.            *)
LEMMA LeaveStep ==
  ASSUME IInv, NEW p \in Proc, pc[p] \notin Gone, cursor = Len(file),
         \A q \in After(p) : pc[q] \in Gone,
         NEW l \in Gone, Goto(p, l), UNCHANGED <<file, cursor, printed>>
  PROVE  Ring!Leave(Position(p))
<1>1. Turn' = Turn
  BY TurnUnchanged
<1>2. pc' = [pc EXCEPT ![p] = l] /\ pc \in [Proc -> Label]
  BY DEF Goto, IInv, TypeOK
<1>3. {q \in Proc : pc'[q] \in Gone} = {q \in Proc : pc[q] \in Gone} \cup {p}
  BY <1>2
<1>4. GonePositions' = GonePositions \cup {Position(p)}
  BY <1>3 DEF GonePositions, Position
<1>5. Position(p) \notin GonePositions
  BY PositionFacts
<1>6. (Position(p) + 1) .. NUMOFPID \subseteq GonePositions
  <2> SUFFICES ASSUME NEW i \in (Position(p) + 1) .. NUMOFPID
               PROVE  i \in GonePositions
    OBVIOUS
  <2>1. Position(p) \in 0 .. NUMOFPID
    BY PositionFacts
  <2>2. i - 1 \in Proc /\ i - 1 # Parent
    BY <2>1 DEF Proc, Parent
  <2>4. i - 1 \in After(p)
    <3>1. CASE p = Parent
      BY <2>1, <3>1, PositionFacts DEF After, Last
    <3>2. CASE p # Parent
      <4>1. i \in (p + 2) .. NUMOFPID
        BY <2>1, <3>2, PositionFacts DEF Proc
      <4> QED BY <3>2, <4>1 DEF After, Last, Proc
    <3> QED BY <3>1, <3>2
  <2>3. Position(i - 1) = i
    BY <2>1, <2>2, PositionFacts
  <2> QED BY <2>2, <2>3, <2>4, PositionFacts
<1> QED BY <1>1, <1>4, <1>5, <1>6 DEF Ring!Leave, GonePositions, Position

LEMMA TakeStep ==
  ASSUME IInv, NEW p \in Proc, ReadByte(p)
  PROVE  Ring!Take(Position(p))
<1> DEFINE n == cursor + 1
<1>1. TypeOK
  BY DEF IInv
<1>2. Turn = p
  BY HandlerIsInCharge, <1>1 DEF ReadByte, Forward, Handling, Carrying, TypeOK
<1>3. /\ cursor' = n /\ file' = file /\ printed' = Append(printed, p) /\ n \in 1 .. Len(file)
      /\ printed \in Seq(Proc) /\ Len(printed) = cursor /\ cursor \in Nat
  BY <1>1 DEF ReadByte, TypeOK
<1>4. Turn' = IF file[n] = "nl" THEN Right(p) ELSE p
  BY <1>3 DEF Turn
<1>5. Position(Turn') = IF file[n] = "nl" THEN Ring!Succ(Position(p)) ELSE Position(p)
  BY <1>4, PositionFacts DEF Ring!Succ
<1>6. {q \in Proc : pc'[q] \in Gone} = {q \in Proc : pc[q] \in Gone}
  <2>1. pc[p] \notin Gone /\ pc'[p] \notin Gone /\ \A q \in Proc \ {p} : pc'[q] = pc[q]
    <3>1. pc' = [pc EXCEPT ![p] = IF file[n] = "nl" THEN "pass" ELSE "line"]
      BY DEF ReadByte, Goto
    <3>2. pc \in [Proc -> Label] /\ pc[p] = "line"
      BY <1>1 DEF ReadByte, TypeOK
    <3> QED BY <3>1, <3>2 DEF Gone
  <2> QED BY <2>1
<1>7. \E k \in (cursor + 1) .. Len(file) :
        /\ \A i \in (cursor + 1) .. (k - 1) : file[i] # "nl"
        /\ cursor' = k
        /\ Position(Turn') = IF file[k] = "nl" THEN Ring!Succ(Position(p)) ELSE Position(p)
  <2>1. n \in (cursor + 1) .. Len(file) /\ (cursor + 1) .. (n - 1) = {}
    BY <1>3
  <2> QED BY <1>3, <1>5, <2>1
<1> QED BY <1>2, <1>3, <1>6, <1>7 DEF Ring!Take, Position

LEMMA RefinementStep ==
  ASSUME IInv, [Next]_vars
  PROVE  [Ring!Next]_(Ring!vars)
<1>1. TypeOK
  BY DEF IInv
<1>2. ASSUME NEW p \in Proc, Ring!Take(Position(p)) \/ Ring!Leave(Position(p))
      PROVE  Ring!Next
  BY <1>2, PositionFacts DEF Ring!Next, Ring!Position
<1>3. CASE UNCHANGED vars
  BY <1>3, Stutter DEF vars
<1>4. CASE Fork \/ Kick
  <2>1. pc[Parent] = "fork" /\ forked \in Nat /\ UNCHANGED <<file, cursor, printed>>
    BY <1>1, <1>4 DEF Fork, Kick, TypeOK
  <2>2. Starting
    BY <2>1, ProcFacts DEF IInv, Phase, Carrying, CarryingBye, Handling, Leaving, Gone
  <2>3. \A q \in Proc : pc[q] \notin Gone
    BY <2>2 DEF Starting, Gone
  <2>4. PICK p \in Proc, l \in {"forward", "absent"} : pc' = [pc EXCEPT ![p] = l]
    <3>1. CASE Fork
      <4>1. forked \in Proc
        BY <3>1, <2>1 DEF Fork, Proc
      <4> QED BY <3>1, <4>1 DEF Fork, Goto
    <3>2. CASE Kick
      BY <3>2, ProcFacts DEF Kick, Goto
    <3> QED BY <1>4, <3>1, <3>2
  <2>5. \A q \in Proc : pc'[q] \notin Gone
    BY <1>1, <2>3, <2>4 DEF TypeOK, Gone
  <2> QED BY <2>1, <2>3, <2>5, Stutter
<1>5. ASSUME NEW p \in Proc, ReadByte(p) PROVE Ring!Next
  BY <1>2, <1>5, TakeStep
<1>6. ASSUME NEW p \in Proc, SendBye(p) PROVE Ring!Next
  <2>1. CarryingBye(p) /\ pc[p] \notin Gone
    BY <1>6, LeaverIsInCharge DEF SendBye, Leaving, Gone
  <2>2. \A q \in After(p) : pc[q] \in Gone
    BY <2>1 DEF CarryingBye, After, Proc, Parent, Last
  <2> QED BY <1>2, <1>6, <2>1, <2>2, LeaveStep DEF SendBye, CarryingBye, Gone
<1>7. ASSUME NEW p \in Proc, HandleExit(p), p = Last PROVE Ring!Next
  <2>1. After(p) = {}
    BY <1>7 DEF After, Last, Parent
  <2> QED BY <1>2, <1>7, <2>1, LeaveStep, ExitHandler DEF HandleExit, Gone
<1>8. ASSUME NEW p \in Proc, NEW l \in Label, Goto(p, l),
             pc[p] \in Gone <=> l \in Gone, UNCHANGED <<file, cursor, printed>>
      PROVE  UNCHANGED Ring!vars
  <2>1. \A q \in Proc : pc'[q] = IF q = p THEN l ELSE pc[q]
    BY <1>1, <1>8 DEF Goto, TypeOK
  <2> QED BY <1>8, <2>1, Stutter
<1>9. ASSUME NEW p \in Proc,
             \/ ReadCommand(p) \/ ReadEnd(p) \/ PassRead(p) \/ SendFin(p)
             \/ FinReturns(p) \/ ForwardFin(p) \/ (HandleExit(p) /\ p # Last)
             \/ ReadBye(p) \/ Announce(p) \/ Return(p)
      PROVE  UNCHANGED Ring!vars
  <2>1. CASE ReadCommand(p) \/ ReadEnd(p) \/ PassRead(p) \/ SendFin(p)
    BY <1>8, <2>1 DEF ReadCommand, ReadEnd, PassRead, SendFin, Label, Gone
  <2>2. CASE FinReturns(p) \/ ForwardFin(p) \/ (HandleExit(p) /\ p # Last)
    BY <1>8, <2>2 DEF FinReturns, ForwardFin, HandleExit, Label, Gone
  <2>3. CASE ReadBye(p) \/ Announce(p) \/ Return(p)
    BY <1>8, <2>3 DEF ReadBye, Announce, Return, Label, Gone
  <2> QED BY <1>9, <2>1, <2>2, <2>3
<1>10. ASSUME NEW p \in Proc, Step(p) PROVE [Ring!Next]_(Ring!vars)
  <2>1. CASE Fork \/ Kick
    BY <1>4, <2>1
  <2>2. CASE ReadByte(p) \/ SendBye(p) \/ (HandleExit(p) /\ p = Last)
    BY <1>5, <1>6, <1>7, <2>2
  <2>3. CASE \/ ReadCommand(p) \/ ReadEnd(p) \/ PassRead(p) \/ SendFin(p)
             \/ FinReturns(p) \/ ForwardFin(p) \/ (HandleExit(p) /\ p # Last)
             \/ ReadBye(p) \/ Announce(p) \/ Return(p)
    <3>1. UNCHANGED Ring!vars
      BY <1>9, <2>3
    <3> QED BY <3>1
  <2> QED BY <1>10, <2>1, <2>2, <2>3 DEF Step, Parent
<1> QED BY <1>3, <1>10 DEF Next

(* The ring of pipes implements the abstract ring: what is printed, in     *)
(* which order and by whom, and who may leave when.                        *)
THEOREM RefinesLineRing == Spec => ImplementsLineRing
<1>1. Init => Ring!Init
  <2> SUFFICES ASSUME Init PROVE Ring!Init
    OBVIOUS
  <2>1. Turn = Parent /\ \A q \in Proc : pc[q] \notin Gone
    BY DEF Init, Turn, Gone
  <2> QED BY <2>1, ProcFacts, PositionFacts DEF Ring!Init, Init
<1>2. IInv /\ [Next]_vars => [Ring!Next]_(Ring!vars)
  BY RefinementStep
<1> QED BY <1>1, <1>2, InvCorrect, PTL DEF Spec, ImplementsLineRing, Ring!Spec

-----------------------------------------------------------------------------
(***************************************************************************)
(* The processes announce their exits in order.  On top of IInv this takes *)
(* an invariant that connects the announcements with the places of the     *)
(* processes.                                                              *)
(***************************************************************************)
Others == Proc \ {Last}
Announced == {"bye", "return", "exited"}

(* When p announces its exit, not counting the last child.                 *)
Rank(p) == IF p = Parent THEN NUMOFPID ELSE Last - p

(* n processes other than the last child have announced their exits.       *)
Announcements(n) ==
  /\ \A p \in Others : pc[p] # "lateAnnounce" /\ (pc[p] \in Announced <=> Rank(p) <= n)
  /\ pc[Last] = "exit" => cmd[Last].op = "EXIT"
  /\ \/ pc[Last] \notin Announced \cup {"lateAnnounce"} /\ n = 0 /\ announced = <<>>
     \/ /\ pc[Last] = "lateAnnounce" /\ cmd[Last].op = "EXIT"
        /\ Len(announced) = n /\ LastIsAt(n + 1)
     \/ /\ pc[Last] \in Announced /\ Len(announced) = n + 1
        /\ \/ LastIsAt(1)
           \/ pc[Last] \in Gone /\ cmd[Last].op = "EXIT" /\ \E k \in 2 .. n + 1 : LastIsAt(k)

ExitInv == \E n \in 0 .. NUMOFPID : Announcements(n)
-----------------------------------------------------------------------------
LEMMA RankFacts ==
  /\ Last \in Proc /\ Last # Parent
  /\ \A p \in Others :
       /\ Rank(p) \in 1 .. NUMOFPID
       /\ Order(Rank(p)) = p
       /\ Rank(p) > 1 => \E q \in Others : q \in After(p) /\ Rank(q) = Rank(p) - 1
       /\ p # Parent => p \in Nat /\ p < Last
<1>1. ASSUME NEW p \in Others, Rank(p) > 1
      PROVE  \E q \in Others : q \in After(p) /\ Rank(q) = Rank(p) - 1
  <2>1. CASE p = Parent
    <3>1. 0 \in Others /\ 0 \in After(p) /\ Rank(0) = Rank(p) - 1
      BY <1>1, <2>1 DEF Rank, Others, Proc, Parent, Last, After
    <3> QED BY <3>1
  <2>2. CASE p # Parent
    <3>1. p + 1 \in Others /\ p + 1 \in After(p) /\ Rank(p + 1) = Rank(p) - 1
      BY <1>1, <2>2 DEF Rank, Others, Proc, Parent, Last, After
    <3> QED BY <3>1
  <2> QED BY <2>1, <2>2
<1> QED BY <1>1 DEF Rank, Others, Order, Proc, Parent, Last

LEMMA ExitInit == Init => ExitInv
<1> SUFFICES ASSUME Init PROVE Announcements(0)
  <2>1. 0 \in 0 .. NUMOFPID
    OBVIOUS
  <2> QED BY <2>1 DEF ExitInv
<1>1. \A p \in Proc : pc[p] \in {"fork", "unborn"}
  BY DEF Init
<1> QED BY <1>1, RankFacts DEF Init, Announcements, Announced, Others

(* Steps that announce nothing and move nobody past an announcement.       *)
LEMMA QuietStep ==
  ASSUME ExitInv, UNCHANGED announced,
         pc[Last] \in Gone => cmd'[Last] = cmd[Last],
         pc'[Last] = "exit" => cmd'[Last].op = "EXIT",
         pc[Last] \in Gone => pc'[Last] \in Gone,
         \A p \in Proc : /\ pc'[p] \in Announced <=> pc[p] \in Announced
                         /\ pc'[p] = "lateAnnounce" <=> pc[p] = "lateAnnounce"
  PROVE  ExitInv'
<1>1. PICK n \in 0 .. NUMOFPID : Announcements(n)
  BY DEF ExitInv
<1>2. Announcements(n)'
  BY <1>1, RankFacts DEF Announcements, Others, LastIsAt, Gone, Announced
<1> QED BY <1>2 DEF ExitInv

(* One process moves.                                                      *)
LEMMA QuietMove ==
  ASSUME ExitInv, TypeOK, UNCHANGED announced, NEW p \in Proc, NEW l \in Label, Goto(p, l),
         \/ pc[p] \notin Announced \cup {"lateAnnounce"} /\ l \notin Announced \cup {"lateAnnounce"}
         \/ pc[p] \in Announced /\ l \in {"return", "exited"},
         l = "exit" => cmd'[p].op = "EXIT",
         \/ UNCHANGED cmd
         \/ pc[p] \notin Gone /\ \A q \in Proc \ {p} : cmd'[q] = cmd[q]
  PROVE  ExitInv'
<1>1. pc' = [pc EXCEPT ![p] = l] /\ pc \in [Proc -> Label]
  BY DEF Goto, TypeOK
<1>2. \A q \in Proc : pc'[q] = IF q = p THEN l ELSE pc[q]
  BY <1>1
<1>3. Last \in Proc
  BY RankFacts
<1>4. pc'[Last] = "exit" => cmd'[Last].op = "EXIT"
  <2>1. pc[Last] = "exit" => cmd[Last].op = "EXIT"
    BY DEF ExitInv, Announcements
  <2> QED BY <1>2, <1>3, <2>1
<1>5. pc[Last] \in Gone => cmd'[Last] = cmd[Last] /\ pc'[Last] \in Gone
  BY <1>2, <1>3 DEF Gone, Announced
<1>6. ASSUME NEW q \in Proc
      PROVE  /\ pc'[q] \in Announced <=> pc[q] \in Announced
             /\ pc'[q] = "lateAnnounce" <=> pc[q] = "lateAnnounce"
  BY <1>2 DEF Announced
<1> QED
  BY <1>4, <1>5, <1>6, QuietStep

LEMMA AnnouncedGrows ==
  ASSUME TypeOK, NEW p \in Proc, announced' = Append(announced, p)
  PROVE  /\ Len(announced') = Len(announced) + 1
         /\ Len(announced) \in Nat
         /\ DOMAIN announced = 1 .. Len(announced)
         /\ DOMAIN announced' = 1 .. Len(announced) + 1
         /\ \A n \in 1 .. Len(announced) : announced'[n] = announced[n]
         /\ announced'[Len(announced) + 1] = p
<1>1. announced \in Seq(Proc)
  BY DEF TypeOK
<1> QED BY <1>1

(* When a process that has received BYEE announces its exit, those that    *)
(* come before it in the order have done so.                               *)
LEMMA OtherAnnounces ==
  ASSUME IInv, ExitInv, NEW p \in Others, Announce(p)
  PROVE  ExitInv'
<1>1. PICK n \in 0 .. NUMOFPID : Announcements(n)
  BY DEF ExitInv
<1>2. p \in Proc /\ p # Last /\ pc[p] = "announce" /\ TypeOK
  BY <1>1 DEF Announce, Others, Announcements, IInv
<1>3. CarryingBye(p)
  BY <1>2, LeaverIsInCharge DEF Leaving
<1>4. \A q \in After(p) : q \in Proc \ {p} /\ pc[q] \in Gone
  BY <1>2, <1>3, RankFacts DEF CarryingBye, After, Proc, Parent, Last, Others
<1>5. pc[Last] \in Gone
  <2>1. Last \in After(p)
    BY <1>2, RankFacts DEF After, Proc, Parent, Last, Others
  <2> QED BY <1>4, <2>1
<1>6. Rank(p) = n + 1
  <2>1. Rank(p) > n /\ Rank(p) \in 1 .. NUMOFPID
    BY <1>1, <1>2, RankFacts DEF Announcements, Announced
  <2>2. CASE Rank(p) > 1
    <3>1. PICK q \in Others : q \in After(p) /\ Rank(q) = Rank(p) - 1
      BY <2>2, RankFacts
    <3>2. pc[q] \in Announced
      BY <1>1, <1>4, <3>1 DEF Announcements, Gone, Announced
    <3>3. Rank(p) - 1 <= n
      BY <1>1, <3>1, <3>2 DEF Announcements
    <3> QED BY <2>1, <3>3
  <2>3. CASE Rank(p) = 1
    BY <2>1, <2>3
  <2> QED BY <2>1, <2>2, <2>3
<1>7. /\ n + 1 \in 0 .. NUMOFPID
      /\ p = Order(n + 1)
  BY <1>6, RankFacts
<1>8. /\ pc' = [pc EXCEPT ![p] = "bye"] /\ pc \in [Proc -> Label]
      /\ announced' = Append(announced, p) /\ UNCHANGED cmd
  BY <1>2 DEF Announce, Goto, TypeOK
<1>9. \A q \in Others : pc'[q] # "lateAnnounce" /\ (pc'[q] \in Announced <=> Rank(q) <= n + 1)
  <2>1. SUFFICES ASSUME NEW q \in Others, q # p
                 PROVE  /\ pc'[q] # "lateAnnounce"
                        /\ pc'[q] \in Announced <=> Rank(q) <= n + 1
    BY <1>2, <1>6, <1>8 DEF Announced
  <2>2. pc'[q] = pc[q]
    BY <1>8, <2>1
  <2>3. Rank(q) # n + 1 /\ Rank(q) \in 1 .. NUMOFPID
    BY <1>7, <2>1, RankFacts
  <2> QED BY <1>1, <2>2, <2>3 DEF Announcements
<1>10. pc'[Last] = pc[Last] /\ pc[Last] # "exit"
  BY <1>2, <1>5, <1>8, RankFacts DEF Gone
<1>11. /\ Len(announced') = Len(announced) + 1
       /\ Len(announced) \in Nat
       /\ DOMAIN announced = 1 .. Len(announced)
       /\ DOMAIN announced' = 1 .. Len(announced) + 1
       /\ \A i \in 1 .. Len(announced) : announced'[i] = announced[i]
       /\ announced'[Len(announced) + 1] = p
  BY <1>2, <1>8, AnnouncedGrows
<1>12. CASE pc[Last] = "lateAnnounce"
  <2>1. Len(announced) = n /\ LastIsAt(n + 1) /\ cmd[Last].op = "EXIT"
    BY <1>1, <1>12 DEF Announcements, Announced
  <2>2. LastIsAt(n + 2)'
    BY <1>7, <1>11, <2>1 DEF LastIsAt, Order
  <2>3. Announcements(n + 1)'
    BY <1>8, <1>9, <1>10, <1>11, <1>12, <2>1, <2>2 DEF Announcements
  <2> QED BY <1>7, <2>3 DEF ExitInv
<1>13. CASE pc[Last] # "lateAnnounce"
  <2>1. pc[Last] \in Announced /\ Len(announced) = n + 1
    BY <1>1, <1>5, <1>13 DEF Announcements, Announced, Gone
  <2>2. ASSUME NEW k \in 1 .. n + 1, LastIsAt(k)
        PROVE  LastIsAt(k)'
    BY <1>7, <1>11, <2>1, <2>2 DEF LastIsAt, Order
  <2>3. 1 \in 1 .. n + 1 /\ \A k \in 2 .. n + 1 : k \in 1 .. n + 1 /\ k \in 2 .. (n + 1) + 1
    OBVIOUS
  <2>4. \/ LastIsAt(1)'
        \/ cmd[Last].op = "EXIT" /\ \E k \in 2 .. (n + 1) + 1 : LastIsAt(k)'
    BY <1>1, <1>13, <2>1, <2>2, <2>3 DEF Announcements
  <2>5. Announcements(n + 1)'
    BY <1>5, <1>8, <1>9, <1>10, <1>11, <2>1, <2>4 DEF Announcements
  <2> QED BY <1>7, <2>5 DEF ExitInv
<1> QED BY <1>12, <1>13

(* The last child announces its exit at once, or, having answered BYEE, at *)
(* any time after.                                                         *)
LEMMA LastAnnounces ==
  ASSUME IInv, ExitInv, Announce(Last)
  PROVE  ExitInv'
<1>1. PICK n \in 0 .. NUMOFPID : Announcements(n)
  BY DEF ExitInv
<1>2. /\ pc' = [pc EXCEPT ![Last] = IF pc[Last] = "announce" THEN "bye" ELSE "return"]
      /\ pc \in [Proc -> Label] /\ TypeOK /\ Last \in Proc
      /\ announced' = Append(announced, Last) /\ UNCHANGED cmd
      /\ pc[Last] \in {"announce", "lateAnnounce"}
  BY RankFacts DEF Announce, Goto, IInv, TypeOK
<1>3. \A q \in Others : pc'[q] = pc[q]
  BY <1>2 DEF Others
<1>4. \A q \in Others : pc'[q] # "lateAnnounce" /\ (pc'[q] \in Announced <=> Rank(q) <= n)
  BY <1>1, <1>3 DEF Announcements
<1>5. pc'[Last] = IF pc[Last] = "announce" THEN "bye" ELSE "return"
  BY <1>2
<1>6. /\ Len(announced') = Len(announced) + 1
      /\ Len(announced) \in Nat
      /\ DOMAIN announced = 1 .. Len(announced)
      /\ DOMAIN announced' = 1 .. Len(announced) + 1
      /\ \A i \in 1 .. Len(announced) : announced'[i] = announced[i]
      /\ announced'[Len(announced) + 1] = Last
  BY <1>2, AnnouncedGrows
<1>7. Len(announced) = n /\ LastIsAt(n + 1)'
  <2>1. CASE pc[Last] = "announce"
    <3>1. n = 0 /\ announced = <<>>
      BY <1>1, <2>1 DEF Announcements, Announced
    <3> QED BY <1>6, <3>1 DEF LastIsAt
  <2>2. CASE pc[Last] = "lateAnnounce"
    <3>1. Len(announced) = n /\ LastIsAt(n + 1)
      BY <1>1, <2>2 DEF Announcements, Announced
    <3> QED BY <1>6, <3>1 DEF LastIsAt
  <2> QED BY <1>2, <2>1, <2>2
<1>8. \/ LastIsAt(1)'
      \/ pc'[Last] \in Gone /\ cmd'[Last].op = "EXIT" /\ \E k \in 2 .. n + 1 : LastIsAt(k)'
  <2>1. CASE n = 0
    BY <1>7, <2>1
  <2>2. CASE n # 0
    <3>1. pc[Last] = "lateAnnounce" /\ cmd[Last].op = "EXIT"
      BY <1>1, <1>2, <2>2 DEF Announcements, Announced
    <3>2. n + 1 \in 2 .. n + 1
      BY <2>2
    <3> QED BY <1>2, <1>5, <1>7, <3>1, <3>2 DEF Gone
  <2> QED BY <2>1, <2>2
<1>9. Announcements(n)'
  BY <1>4, <1>5, <1>6, <1>7, <1>8 DEF Announcements, Announced
<1> QED BY <1>9 DEF ExitInv

(* The last child answers EXIT with BYEE before anything is announced.     *)
LEMMA LastHandlesExit ==
  ASSUME IInv, ExitInv, HandleExit(Last)
  PROVE  ExitInv'
<1>1. PICK n \in 0 .. NUMOFPID : Announcements(n)
  BY DEF ExitInv
<1>2. /\ pc' = [pc EXCEPT ![Last] = "lateAnnounce"] /\ pc \in [Proc -> Label]
      /\ UNCHANGED <<cmd, announced>> /\ pc[Last] = "exit" /\ Last \in Proc
  BY RankFacts DEF HandleExit, Goto, IInv, TypeOK
<1>3. n = 0 /\ announced = <<>> /\ cmd[Last].op = "EXIT"
  BY <1>1, <1>2 DEF Announcements, Announced
<1>4. \A q \in Others : pc'[q] = pc[q]
  BY <1>2 DEF Others
<1>5. pc'[Last] = "lateAnnounce"
  BY <1>2
<1>6. LastIsAt(n + 1)' /\ Len(announced') = 0
  BY <1>2, <1>3 DEF LastIsAt
<1>7. Announcements(n)'
  BY <1>1, <1>2, <1>3, <1>4, <1>5, <1>6 DEF Announcements
<1> QED BY <1>7 DEF ExitInv

(* Nobody but the processes the parent has yet to fork is in its way.      *)
LEMMA ForkIsQuiet == ASSUME IInv, ExitInv, Fork PROVE ExitInv'
<1>1. Starting
  <2>1. pc[Parent] = "fork"
    BY DEF Fork
  <2>2. ~\E j \in Proc, m \in Command : Carrying(j, m)
    BY <2>1, ProcFacts DEF Carrying, Handling
  <2>3. ~\E j \in Proc : CarryingBye(j)
    BY <2>1, ProcFacts DEF CarryingBye, Leaving, Gone
  <2> QED BY <2>2, <2>3 DEF IInv, Phase
<1>2. forked \in Proc /\ forked # Parent /\ pc[forked] = "unborn" /\ TypeOK
  BY <1>1 DEF IInv, TypeOK, Fork, Starting, Proc, Parent
<1>3. PICK l \in {"forward", "absent"} : Goto(forked, l)
  BY DEF Fork
<1>4. l \in Label
  BY DEF Label
<1> QED BY <1>2, <1>3, <1>4, QuietMove DEF Announced, Fork

LEMMA ReadCommandIsQuiet == ASSUME IInv, ExitInv, NEW p \in Proc, ReadCommand(p) PROVE ExitInv'
<1> DEFINE m == Head(toRight[p])
           l == CASE m.op = "READ" -> "line" [] m.op = "FIN" -> "fin" [] m.op = "EXIT" -> "exit" [] OTHER -> "backward"
<1>1. TypeOK /\ pc[p] = "forward" /\ UNCHANGED announced /\ Goto(p, l) /\ cmd' = [cmd EXCEPT ![p] = m]
  BY DEF ReadCommand, IInv
<1>2. /\ cmd'[p] = m /\ \A q \in Proc \ {p} : cmd'[q] = cmd[q]
  BY <1>1 DEF TypeOK
<1>3. /\ l \in Label /\ l \notin Announced \cup {"lateAnnounce"}
      /\ l = "exit" => m.op = "EXIT"
  BY DEF Label, Announced
<1>4. pc[p] \notin Gone /\ pc[p] \notin Announced \cup {"lateAnnounce"}
  BY <1>1 DEF Gone, Announced
<1> HIDE DEF l, m
<1> QED BY <1>1, <1>2, <1>3, <1>4, QuietMove

LEMMA ReadByeIsQuiet == ASSUME IInv, ExitInv, NEW p \in Proc, ReadBye(p) PROVE ExitInv'
<1>1. /\ TypeOK /\ pc[p] = "backward" /\ UNCHANGED announced
      /\ \A q \in Proc \ {p} : cmd'[q] = cmd[q]
  BY DEF ReadBye, IInv, TypeOK
<1>2. PICK l \in {"announce", "backward"} : Goto(p, l)
  BY DEF ReadBye
<1>3. l \in Label /\ l \notin Announced \cup {"lateAnnounce"} /\ l # "exit"
  BY DEF Label, Announced
<1>4. pc[p] \notin Gone /\ pc[p] \notin Announced \cup {"lateAnnounce"}
  BY <1>1 DEF Gone, Announced
<1> QED BY <1>1, <1>2, <1>3, <1>4, QuietMove

LEMMA ExitStep == ASSUME IInv, ExitInv, [Next]_vars PROVE ExitInv'
<1> USE DEF Announced
<1>1. TypeOK
  BY DEF IInv
<1>2. CASE UNCHANGED vars
  BY <1>2 DEF vars, ExitInv, Announcements, LastIsAt
<1>3. CASE Kick
  <2>1. pc[Parent] = "fork"
    BY <1>1, <1>3 DEF Kick, IInv, Phase, Starting, Carrying, CarryingBye, TypeOK
  <2> QED BY <1>1, <1>3, <2>1, ProcFacts, QuietMove DEF Kick, Label
<1>4. ASSUME NEW p \in Proc, ReadByte(p) \/ ReadEnd(p) \/ PassRead(p) \/ SendFin(p)
      PROVE  ExitInv'
  <2>1. PICK l \in {"line", "pass", "end", "forward"} : Goto(p, l)
    BY <1>4 DEF ReadByte, ReadEnd, PassRead, SendFin
  <2>2. pc[p] \in {"line", "pass", "end"} /\ UNCHANGED <<cmd, announced>>
    BY <1>4 DEF ReadByte, ReadEnd, PassRead, SendFin
  <2> QED BY <1>1, <2>1, <2>2, QuietMove DEF Label
<1>5. ASSUME NEW p \in Proc, FinReturns(p) \/ ForwardFin(p) \/ (HandleExit(p) /\ p # Last)
      PROVE  ExitInv'
  <2>1. PICK l \in {"announce", "backward", "forward"} : Goto(p, l)
    BY <1>5 DEF FinReturns, ForwardFin, HandleExit
  <2>2. pc[p] \in {"fin", "exit"} /\ UNCHANGED <<cmd, announced>>
    BY <1>5 DEF FinReturns, ForwardFin, HandleExit
  <2> QED BY <1>1, <2>1, <2>2, QuietMove DEF Label
<1>6. ASSUME NEW p \in Proc, Announce(p) PROVE ExitInv'
  BY <1>6, OtherAnnounces, LastAnnounces DEF Others
<1>7. ASSUME NEW p \in Proc, SendBye(p) \/ Return(p) PROVE ExitInv'
  <2>1. PICK l \in {"return", "exited"} : Goto(p, l)
    BY <1>7 DEF SendBye, Return
  <2>2. pc[p] \in {"bye", "return"} /\ UNCHANGED <<cmd, announced>>
    BY <1>7 DEF SendBye, Return
  <2> QED BY <1>1, <2>1, <2>2, QuietMove DEF Label
<1> QED
  BY <1>2, <1>3, <1>4, <1>5, <1>6, <1>7, ForkIsQuiet, ReadCommandIsQuiet, ReadByeIsQuiet,
     LastHandlesExit DEF Next, Step

(* Its invariant holds in every reachable state.                           *)
LEMMA ExitInvCorrect == Spec => []ExitInv
BY ExitInit, ExitStep, InvCorrect, PTL DEF Spec

(* ExitsInOrder: exits are announced from the last child down, the parent  *)
(* last; only the last child itself may be late, if it left at EXIT.       *)
THEOREM ExitsInOrderCorrect == Spec => []ExitsInOrder
<1>1. TypeOK /\ ExitInv => ExitsInOrder
  <2> SUFFICES ASSUME TypeOK, ExitInv PROVE ExitsInOrder
    OBVIOUS
  <2>1. PICK n \in 0 .. NUMOFPID : Announcements(n)
    BY DEF ExitInv
  <2>2. CASE announced = <<>>
    BY <2>2 DEF ExitsInOrder, LastIsAt
  <2>3. CASE pc[Last] = "lateAnnounce"
    <3>1. Len(announced) = n /\ LastIsAt(n + 1) /\ cmd[Last].op = "EXIT" /\ pc[Last] \in Gone
      BY <2>1, <2>3 DEF Announcements, Announced, Gone
    <3>2. n = 0 \/ n + 1 \in 2 .. n + 1
      OBVIOUS
    <3> QED BY <3>1, <3>2 DEF ExitsInOrder
  <2>4. CASE pc[Last] \in Announced
    <3>1. /\ Len(announced) = n + 1
          /\ \/ LastIsAt(1)
             \/ pc[Last] \in Gone /\ cmd[Last].op = "EXIT" /\ \E k \in 2 .. n + 1 : LastIsAt(k)
      BY <2>1, <2>4 DEF Announcements, Announced
    <3>2. \A k \in 2 .. n + 1 : k \in 2 .. Len(announced) + 1
      BY <3>1
    <3> QED BY <3>1, <3>2 DEF ExitsInOrder
  <2> QED BY <2>1, <2>2, <2>3, <2>4 DEF Announcements
<1> QED BY <1>1, ExitInvCorrect, TypeCorrect, PTL
=============================================================================
