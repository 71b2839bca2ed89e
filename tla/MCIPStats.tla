---------------------------- MODULE MCIPStats -----------------------------
(***************************************************************************)
(* More entries than the ring has cells, so that it turns around.          *)
(***************************************************************************)
EXTENDS IPStats
=============================================================================
