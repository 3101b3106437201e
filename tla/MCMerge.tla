------------------------------- MODULE MCMerge -------------------------------
(* Small instances of MergeUpload. *)
EXTENDS MergeUpload, TLC

CONSTANTS files, files0, files1, other

Symmetric == Permutations({files, files0, files1})
=============================================================================
