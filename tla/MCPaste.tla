------------------------------ MODULE MCPaste ------------------------------
(* Small instances of PasteLifecycle. *)
EXTENDS PasteLifecycle, TLC

CONSTANTS p1, p2, f1, f2, r1, r2, s1, s2

\* A text paste of one hour, or one that never expires.
HourOrNever == {1, Never}
JustHour == {1}
Symmetric == Permutations(Files) \cup Permutations(Requests) \cup Permutations(Sweeps)
              \cup Permutations(Ids)
=============================================================================
