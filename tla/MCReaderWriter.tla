--------------------------- MODULE MCReaderWriter ---------------------------
(* The program for TLC: thread ids 1 .. NUM_OF_READER + 1.                 *)
EXTENDS ReaderWriter

MCThread == 1 .. NUM_OF_READER + 1
=============================================================================
