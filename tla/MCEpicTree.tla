------------------------------ MODULE MCEpicTree ------------------------------
(* Small instances of EpicTree: two processes that run verbs of two sessions. *)
EXTENDS EpicTree

CONSTANTS p1, p2, a, b
=============================================================================
