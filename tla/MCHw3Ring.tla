----------------------------- MODULE MCHw3Ring ------------------------------
(* Model values for the runs of Hw3Ring: four children as in the code, and *)
(* every file of up to MaxLen bytes.                                       *)
EXTENDS Hw3Ring

CONSTANT MaxLen

MCFiles == UNION {[1 .. n -> Byte] : n \in 0 .. MaxLen}
=============================================================================
