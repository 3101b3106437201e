---------------------------- MODULE MCPasteServer ----------------------------
(* Small instances of PasteServer. *)
EXTENDS PasteServer, TLC

CONSTANTS p1, f1, r1

PasteCleanup == <<"paste">>
PasteSweeps  == {<<"first", "paste">>, <<"cron", <<"paste", 1>>>>}
JustHour     == {1}
=============================================================================
