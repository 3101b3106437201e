----------------------------- MODULE MCFileJobs -----------------------------
(* Small instances of FileJobs. *)
EXTENDS FileJobs, TLC

CONSTANTS j1, c1, c2, d1

AllButLock == AllOperations \ {LockPDF}
JustSplit  == {SplitPDF}
Symmetric  == Permutations(Cleaners)
=============================================================================
