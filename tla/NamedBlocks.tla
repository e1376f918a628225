----------------------------- MODULE NamedBlocks ----------------------------
(***************************************************************************)
(* What the heap of the fourth assignment promises: data is kept under     *)
(* names, one value or, for a struct, several; values keep the order in    *)
(* which they came and stay what they were until their name is freed; all  *)
(* of them together fit the heap.                                          *)
(***************************************************************************)
EXTENDS Integers, Sequences, SequencesExt, SeqSums

CONSTANTS Name, BYTE_SIZE

VARIABLE blocks   \* the values, as records [name, data]

SizeOf(s) == PrefixSums([i \in DOMAIN s |-> Len(s[i].data)])[Len(s)]

Without(s, n) == Select(s, [i \in DOMAIN s |-> s[i].name # n])

Used(n) == \E i \in DOMAIN blocks : blocks[i].name = n

Init == blocks = <<>>

(* Name n gets the values that come after those already there.             *)
Allocate(n) ==
  /\ ~Used(n)
  /\ IsPrefix(blocks, blocks')
  /\ \A i \in (Len(blocks) + 1) .. Len(blocks') : blocks'[i].name = n
  /\ SizeOf(blocks') <= BYTE_SIZE

Deallocate(n) == blocks' = Without(blocks, n)

Next == \E n \in Name : Allocate(n) \/ Deallocate(n)

Spec == Init /\ [][Next]_blocks
=============================================================================
