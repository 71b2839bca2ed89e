----------------------------- MODULE MCSrvLog -----------------------------
(***************************************************************************)
(* Two goroutines that log, two names from the start and one that may be   *)
(* added or be missing.                                                    *)
(***************************************************************************)
EXTENDS SrvLog

MCClient == {"c1", "c2"}
=============================================================================
