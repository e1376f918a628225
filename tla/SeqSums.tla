------------------------------- MODULE SeqSums ------------------------------
(***************************************************************************)
(* Powers of two, and sums and selections over a sequence, element after   *)
(* element, as the loops over the heaps' lists and tables and over the     *)
(* bits of a value take them.  Recursive functions over the positions,     *)
(* rather than ^, folds and SelectSeq, so that what they compute can be    *)
(* proved by induction.                                                    *)
(***************************************************************************)
EXTENDS Integers, Sequences

PowerOf2(n) ==
  LET power[i \in 0 .. n] == IF i = 0 THEN 1 ELSE 2 * power[i - 1]
  IN  power[n]

(* The sums of the first 0, 1, 2, ... numbers of s.                        *)
PrefixSums(s) ==
  LET sum[i \in 0 .. Len(s)] == IF i = 0 THEN 0 ELSE sum[i - 1] + s[i]
  IN  sum

(* The elements of s to keep, in their order; keep[i] is for s[i].         *)
Select(s, keep) ==
  LET kept[i \in 0 .. Len(s)] ==
        IF i = 0 THEN <<>>
        ELSE IF keep[i] THEN Append(kept[i - 1], s[i]) ELSE kept[i - 1]
  IN  kept[Len(s)]
=============================================================================
