---------------------------- MODULE MCRemoteSync -----------------------------
(* Two stories, either of which may be taken for the other. *)
EXTENDS RemoteSync, TLC

CONSTANTS w1, w2

Symmetry == Permutations(Works)
=============================================================================
