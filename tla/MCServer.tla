------------------------------ MODULE MCServer ------------------------------
(* Small instances of Server. *)
EXTENDS Server, TLC

CONSTANTS h1, h2

\* Two of the three schedulers: the order between them is what matters.
TwoSchedulers == <<"cleanup", "paste">>
Symmetric == Permutations(Requests)
=============================================================================
