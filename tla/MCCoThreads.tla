---------------------------- MODULE MCCoThreads -----------------------------
(* Programs on the thread library for TLC: threads are interchangeable.    *)
EXTENDS CoThreadsClient, TLC

ThreadSymmetry == Permutations(Thread)
=============================================================================
