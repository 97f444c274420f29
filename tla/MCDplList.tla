----------------------------- MODULE MCDplList -----------------------------
(* Three nodes and two entries: lists of up to three nodes with one entry  *)
(* in several of them, every order of pushes, removes and iterator steps.  *)
EXTENDS DplList
=============================================================================
