------------------------------- MODULE MCBits -------------------------------
(* hw1 and the model answer on the same file, one after the other.         *)
EXTENDS Hw1Bits, SequencesExt

CONSTANTS MaxLen, INT_BYTES, DOUBLE_BYTES

ASSUME BytesAssumption ==
  CHAR_SIZE > 1 /\ {INT_BYTES, DOUBLE_BYTES} \subseteq 1 .. CHAR_SIZE

VARIABLES answerStage, answerPc, answerCursor, eof, values, answerOut

Answer == INSTANCE Answer1Bits WITH
            stage <- answerStage, pc <- answerPc, cursor <- answerCursor, out <- answerOut

answerVars == <<answerStage, answerPc, answerCursor, eof, values, answerOut>>

(* Short files hold every sequence of bits; long ones have room for two    *)
(* values of the widest type.                                              *)
MCFiles ==
  LET short == UNION {[1 .. n -> {"0", "1"}] : n \in 0 .. MaxLen}
      bytes == {<<"0", "0", "1">>, <<"1", "0", "0">>, <<"1", "1", "1">>}
      long == {FlattenSeq(s) : s \in [1 .. 2 * DOUBLE_BYTES -> bytes]}
  IN  short \cup long \cup {Append(b, "newline") : b \in short}

MCLeftover == {0, 1, -1}

BothInit == Init /\ Answer!Init

BothNext ==
  \/ Next /\ UNCHANGED answerVars
  \/ pc = "done" /\ Answer!Next /\ UNCHANGED vars

BothSpec == BothInit /\ [][BothNext]_<<vars, answerVars>> /\ WF_<<vars, answerVars>>(BothNext)

(* The variables of both programs stay in the range of their types: no     *)
(* bit goes beyond the sign, no byte beyond its width.                     *)
BothTypeOK == TypeOK /\ Answer!TypeOK

(* The model answer never loads beyond its buffer, nor too little.         *)
AnswerBufferHolds == Answer!BufferHolds

(* Two ways to the same output: both programs print the value of every     *)
(* whole group of bits, for each of the seven types main has a function    *)
(* for, in its order, and nothing else.  It does not say that the          *)
(* assignment is met: of the nine types src/hw1/README.md:16-26 says MUST  *)
(* be printed, unsigned float and unsigned double are missing in both.     *)
BothImplementBitValues ==
  /\ ImplementsBitValues /\ PrintsAll
  /\ Answer!ImplementsBitValues /\ Answer!PrintsAll
=============================================================================
