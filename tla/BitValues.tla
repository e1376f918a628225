----------------------------- MODULE BitValues ------------------------------
(***************************************************************************)
(* What hw1 and its model answer make of a file: its characters are bits,  *)
(* most significant first, and it is printed seven times over as values of *)
(* seven types, each value made of the next whole group of bits.  Bits     *)
(* left over at the end are not printed.                                   *)
(*                                                                         *)
(* This is less than the assignment asks for.  src/hw1/README.md:16-26     *)
(* says that a program MUST print nine types, in an order it gives; the    *)
(* seventh, unsigned float, and the ninth, unsigned double, which C does   *)
(* not have, are printed by neither program.  The other seven are printed  *)
(* in the order given there.                                               *)
(***************************************************************************)
EXTENDS Integers, Sequences, SeqSums

CONSTANTS CHAR_SIZE, INT_SIZE, DOUBLE_SIZE   \* widths in bits

VARIABLES
  file,   \* the characters
  out     \* the values printed so far, for each type

(* The types that main prints, in its order: those of src/hw1/README.md    *)
(* without unsigned float (after float) and unsigned double (at the end).  *)
Types == <<"signed_char", "ascii", "unsigned_char", "int", "unsigned_int", "float", "double">>
Stage == DOMAIN Types

Width(s) ==
  CASE Types[s] \in {"signed_char", "ascii", "unsigned_char"} -> CHAR_SIZE
    [] Types[s] \in {"int", "unsigned_int", "float"} -> INT_SIZE
    [] Types[s] = "double" -> DOUBLE_SIZE

Dot == 46   \* the ASCII code of '.'

Total(s) == Len(file) \div Width(s)

(* What group k of the file means.  A float or double is shown as the      *)
(* number its bits make, whatever else they stand for.                     *)
Value(s, k) ==
  LET w == Width(s)
      bit == [i \in 1 .. w |-> IF file[(k - 1) * w + i] = "1" THEN 1 ELSE 0]
      sum == PrefixSums([i \in 1 .. w |-> bit[i] * PowerOf2(w - i)])[w]
  IN  CASE Types[s] = "ascii" /\ bit[1] = 1 -> Dot
        [] Types[s] \in {"signed_char", "int"} -> sum - bit[1] * PowerOf2(w)
        [] OTHER -> sum

Init == out = [s \in Stage |-> <<>>]

PrintValue(s) ==
  /\ \A t \in 1 .. (s - 1) : Len(out[t]) = Total(t)
  /\ Len(out[s]) < Total(s)
  /\ out' = [out EXCEPT ![s] = Append(@, Value(s, Len(@) + 1))]

Next == (\E s \in Stage : PrintValue(s)) /\ UNCHANGED file

Spec == Init /\ [][Next]_<<file, out>>

(* Everything is printed in the end.                                       *)
Progress == WF_<<file, out>>(Next)
=============================================================================
