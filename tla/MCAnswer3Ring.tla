--------------------------- MODULE MCAnswer3Ring ----------------------------
(* Model values for the runs of Answer3Ring: every file of up to MaxLen    *)
(* bytes.                                                                  *)
EXTENDS Answer3Ring

CONSTANT MaxLen

MCFiles == UNION {[1 .. n -> Byte] : n \in 0 .. MaxLen}
=============================================================================
