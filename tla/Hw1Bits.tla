------------------------------ MODULE Hw1Bits -------------------------------
(***************************************************************************)
(* hw1/20170767.c: seven functions, one for each type, read the same open  *)
(* file from its start: a group of characters at a time, which are shifted *)
(* into a variable of the type, bit by bit, and printed.                   *)
(*                                                                         *)
(* The functions differ in width, type and initial value only, so stage s  *)
(* is the s-th call of main.  The two unions are not initialised.  The     *)
(* file exists and can be read; how values are printed is left out.        *)
(***************************************************************************)
EXTENDS Integers, Sequences, SeqSums

CONSTANTS
  CHAR_SIZE, INT_SIZE, DOUBLE_SIZE,   \* widths in bits: 8, 32 and 64 in the code
  Files,                              \* the files the program may be started on
  Leftover                            \* what an uninitialised union may hold

Character == {"0", "1", "newline"}

ASSUME WidthAssumption == {CHAR_SIZE, INT_SIZE, DOUBLE_SIZE} \subseteq Nat \ {0, 1}
ASSUME FilesAssumption == Files \subseteq Seq(Character)
ASSUME LeftoverAssumption ==
  \A w \in {INT_SIZE, DOUBLE_SIZE} : Leftover \subseteq -PowerOf2(w - 1) .. PowerOf2(w - 1) - 1

VARIABLES
  file,     \* the content of the file
  stage,    \* which function runs
  pc,       \* where in it
  cursor,   \* the position in the file
  buffer,   \* the group that was read
  i,        \* how many of its characters have been shifted in
  result,   \* the variable of that name
  out       \* the values printed, for each stage

vars == <<file, stage, pc, cursor, buffer, i, result, out>>

Promise == INSTANCE BitValues

Stage == Promise!Stage
Width == Promise!Width(stage)
IsUnion(s) == Promise!Types[s] \in {"float", "double"}
IsUnsigned(s) == Promise!Types[s] \in {"unsigned_char", "unsigned_int"}
InitialResult(s) == IF IsUnion(s) THEN Leftover ELSE {0}

Init ==
  /\ file \in Files
  /\ stage = 1
  /\ pc = "read"
  /\ cursor = 0
  /\ buffer = <<>>
  /\ i = 0
  /\ result \in InitialResult(1)
  /\ out = [s \in Stage |-> <<>>]

(* fread of one group.  At the end of the file it gets what is left, which *)
(* may be nothing, feof() is true and the loop is left.                    *)
Read ==
  /\ pc = "read"
  /\ IF cursor + Width <= Len(file)
     THEN /\ buffer' = SubSeq(file, cursor + 1, cursor + Width)
          /\ cursor' = cursor + Width
          /\ pc' = "shift"
     ELSE /\ cursor' = Len(file)
          /\ pc' = "rewind"
          /\ UNCHANGED buffer
  /\ i' = 0
  /\ UNCHANGED <<file, stage, result, out>>

(* Conversion to a type of Width bits.                                     *)
Wrapped(r) ==
  IF IsUnsigned(stage) THEN r % PowerOf2(Width)
  ELSE ((r + PowerOf2(Width - 1)) % PowerOf2(Width)) - PowerOf2(Width - 1)

(* Fault: bits are added without a shift of the sign (result * 2 | bit).   *)
Shift_NotWrapped ==
  /\ pc = "shift"
  /\ i < Width
  /\ result' = 2 * result + (IF buffer[i + 1] = "1" THEN 1 ELSE 0)
  /\ i' = i + 1
  /\ UNCHANGED <<file, stage, pc, cursor, buffer, out>>

(* result = result << 1, and | 1 for a '1'; any other character is a 0.    *)
Shift ==
  /\ pc = "shift"
  /\ i < Width
  /\ result' = Wrapped(2 * result) + (IF buffer[i + 1] = "1" THEN 1 ELSE 0)
  /\ i' = i + 1
  /\ UNCHANGED <<file, stage, pc, cursor, buffer, out>>

(* What is not in ASCII is printed as a dot; the pattern of a union is     *)
(* read as a float or double.                                              *)
Shown(r) ==
  CASE Promise!Types[stage] = "ascii" /\ ~(r >= 0 /\ r <= PowerOf2(Width - 1) - 1) -> Promise!Dot
    [] IsUnion(stage) -> r % PowerOf2(Width)
    [] OTHER -> r

PrintValue ==
  /\ pc = "shift"
  /\ i = Width
  /\ out' = [out EXCEPT ![stage] = Append(@, Shown(result))]
  /\ result' = 0
  /\ pc' = "read"
  /\ UNCHANGED <<file, stage, cursor, buffer, i>>

(* The end of a function: rewind(), and the next one is called.            *)
Rewind ==
  /\ pc = "rewind"
  /\ cursor' = 0
  /\ IF stage < 7
     THEN stage' = stage + 1 /\ pc' = "read" /\ result' \in InitialResult(stage + 1)
     ELSE pc' = "done" /\ UNCHANGED <<stage, result>>
  /\ UNCHANGED <<file, buffer, i, out>>

Next == Read \/ Shift \/ PrintValue \/ Rewind

Spec == Init /\ [][Next]_vars

(* A single-threaded program keeps running.                                *)
FairSpec == Spec /\ WF_vars(Next)
-----------------------------------------------------------------------------
(***************************************************************************)
(* Properties                                                              *)
(***************************************************************************)

(* The type invariant: `result' stays in the range of its type.            *)
TypeOK ==
  /\ stage \in Stage
  /\ pc \in {"read", "shift", "rewind", "done"}
  /\ cursor \in 0 .. Len(file)
  /\ buffer \in Seq(Character)
  /\ i \in 0 .. Width
  /\ result = Wrapped(result)
  /\ out \in [Stage -> Seq(Int)]

(* Each value printed is that of its group of bits, whatever was in the    *)
(* variable before: what is left over has been shifted out.  For the seven *)
(* types of main; unsigned float and unsigned double, which                *)
(* src/hw1/README.md:24 and 26 ask for too, are not printed.               *)
ImplementsBitValues == Promise!Spec

(* Each type is printed to the last whole group.                           *)
PrintsAll == Promise!Progress
=============================================================================
