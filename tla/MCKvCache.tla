----------------------------- MODULE MCKvCache -----------------------------
(***************************************************************************)
(* A cache of a few cells shared by two sequences.                         *)
(***************************************************************************)
EXTENDS KvCache

MCDeltas == {-1, 1}
=============================================================================
