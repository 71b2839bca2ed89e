---------------------------- MODULE MCLifecycle ----------------------------
(***************************************************************************)
(* Two subscribers and return codes that differ from those the code uses   *)
(* itself (0 for a request, 1 for a failed start).                         *)
(***************************************************************************)
EXTENDS Lifecycle
=============================================================================
