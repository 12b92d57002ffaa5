---------------------------- MODULE MCSwaWindow ----------------------------
(***************************************************************************)
(* A context of seven positions with a window of two, ubatches of two, and  *)
(* rows for four positions behind a sink row.                              *)
(***************************************************************************)
EXTENDS SwaWindow
=============================================================================
