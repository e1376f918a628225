---------------------------- MODULE Answer1Bits -----------------------------
(***************************************************************************)
(* Correct_Answer/Assignment1: the model answer to the same exercise as    *)
(* hw1.  For each type the file is opened anew and all its values are      *)
(* loaded into a buffer, byte by byte in the order a little endian machine *)
(* keeps them, and then printed.                                           *)
(*                                                                         *)
(* The print_* functions differ in size and type only: stage s is the s-th *)
(* call of main.  The file exists and can be read; malloc succeeds.        *)
(***************************************************************************)
EXTENDS Integers, Sequences, SeqSums

CONSTANTS
  CHAR_SIZE,                \* bits in a byte, 8
  INT_BYTES, DOUBLE_BYTES,  \* sizeof int (and float) and double: 4 and 8
  Files                     \* the files the program may be started on

VARIABLES
  file,     \* the content of the file
  stage,    \* which print function runs
  pc,       \* where in it
  cursor,   \* the position in the file
  eof,      \* feof(fp)
  values,   \* the values in the buffer, each a sequence of bytes
  out       \* the values printed, for each stage

vars == <<file, stage, pc, cursor, eof, values, out>>

Promise == INSTANCE BitValues WITH
             INT_SIZE <- INT_BYTES * CHAR_SIZE,
             DOUBLE_SIZE <- DOUBLE_BYTES * CHAR_SIZE

Stage == Promise!Stage
ValueSize == Promise!Width(stage) \div CHAR_SIZE   \* sizeof the type

(* get_file_size counts characters; load divides them into values.         *)
Count == (Len(file) \div CHAR_SIZE) \div ValueSize

Init ==
  /\ file \in Files
  /\ stage = 1
  /\ pc = "open"
  /\ cursor = 0
  /\ eof = FALSE
  /\ values = <<>>
  /\ out = [s \in Stage |-> <<>>]

Open ==
  /\ pc = "open"
  /\ cursor' = 0
  /\ eof' = FALSE
  /\ values' = <<>>
  /\ pc' = "load"
  /\ UNCHANGED <<file, stage, out>>

(* The bits of a byte are shifted in, of characters that are there; the    *)
(* string buffer is zero behind them.                                      *)
Byte(at) ==
  LET byte[k \in 0 .. CHAR_SIZE] ==
        IF k = 0 THEN 0
        ELSE ((2 * byte[k - 1]) % PowerOf2(CHAR_SIZE))
             + (IF at + k <= Len(file) /\ file[at + k] = "1" THEN 1 ELSE 0)
  IN  byte[CHAR_SIZE]

(* Fault: the first byte of the file goes to the lowest address.           *)
Loaded_BigEndian == [b \in 1 .. ValueSize |-> Byte(cursor + (b - 1) * CHAR_SIZE)]

(* load_value: the first byte of the file goes to the highest address.     *)
Loaded == [b \in 1 .. ValueSize |-> Byte(cursor + (ValueSize - b) * CHAR_SIZE)]

(* Fault: the loop runs once more for an end of file that is only reached. *)
LoadValue_Late ==
  /\ pc = "load"
  /\ IF eof
     THEN pc' = "print" /\ UNCHANGED <<cursor, eof, values>>
     ELSE LET next == cursor + ValueSize * CHAR_SIZE IN
            /\ values' = Append(values, Loaded)
            /\ cursor' = IF next <= Len(file) THEN next ELSE Len(file)
            /\ eof' = (cursor = Len(file))
            /\ UNCHANGED pc
  /\ UNCHANGED <<file, stage, out>>

(* One turn of the loop of load_values.  feof() is true only once a read   *)
(* has come short, so a last value of fewer bits, or of none, is loaded.   *)
LoadValue ==
  /\ pc = "load"
  /\ IF eof
     THEN pc' = "print" /\ UNCHANGED <<cursor, eof, values>>
     ELSE LET next == cursor + ValueSize * CHAR_SIZE IN
            /\ values' = Append(values, Loaded)
            /\ cursor' = IF next <= Len(file) THEN next ELSE Len(file)
            /\ eof' = (next > Len(file))
            /\ UNCHANGED pc
  /\ UNCHANGED <<file, stage, out>>

(* What the bytes are as a value of the type; the pattern of a float.      *)
Shown(bytes) ==
  LET type == Promise!Types[stage]
      bits == ValueSize * CHAR_SIZE
      sum == PrefixSums([b \in 1 .. ValueSize |-> bytes[b] * PowerOf2(CHAR_SIZE * (b - 1))])[ValueSize]
      signed == IF sum >= PowerOf2(bits - 1) THEN sum - PowerOf2(bits) ELSE sum
  IN  CASE type = "ascii" /\ ~(signed >= 0 /\ signed <= PowerOf2(CHAR_SIZE - 1) - 1) -> Promise!Dot
        [] type \in {"signed_char", "int"} -> signed
        [] OTHER -> sum

(* One turn of the loop of a print function, or its end.                   *)
PrintValue ==
  /\ pc = "print"
  /\ IF Len(out[stage]) < Count
     THEN /\ out' = [out EXCEPT ![stage] = Append(@, Shown(values[Len(@) + 1]))]
          /\ UNCHANGED <<stage, pc>>
     ELSE /\ IF stage < 7 THEN stage' = stage + 1 /\ pc' = "open" ELSE pc' = "done" /\ UNCHANGED stage
          /\ UNCHANGED out
  /\ UNCHANGED <<file, cursor, eof, values>>

Next == Open \/ LoadValue \/ PrintValue

Spec == Init /\ [][Next]_vars

(* A single-threaded program keeps running.                                *)
FairSpec == Spec /\ WF_vars(Next)
-----------------------------------------------------------------------------
(***************************************************************************)
(* Properties                                                              *)
(***************************************************************************)

(* The type invariant.                                                     *)
TypeOK ==
  /\ stage \in Stage
  /\ pc \in {"open", "load", "print", "done"}
  /\ cursor \in 0 .. Len(file)
  /\ eof \in BOOLEAN
  /\ values \in Seq(Seq(0 .. PowerOf2(CHAR_SIZE) - 1))
  /\ out \in [Stage -> Seq(Int)]

(* load_values takes as many bytes for its buffer as the file has bits,    *)
(* times eight.  This is enough for the whole values and the last, partial *)
(* or empty one, unless the file is empty; and it is never too few values  *)
(* that are loaded for those to be printed.                                *)
BufferHolds ==
  /\ file # <<>> => Len(values) * ValueSize <= Len(file) * CHAR_SIZE
  /\ pc = "print" => Len(values) > Count

(* Loading backwards and reading as the machine does gives each group of   *)
(* bits its value.  For the seven types of main; unsigned float and        *)
(* unsigned double, which src/hw1/README.md:24 and 26 ask for too, are not *)
(* printed.                                                                *)
ImplementsBitValues == Promise!Spec

(* Each type is printed to the last whole group.                           *)
PrintsAll == Promise!Progress
=============================================================================
