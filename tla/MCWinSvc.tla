----------------------------- MODULE MCWinSvc -----------------------------
(***************************************************************************)
(* Return codes of the application: success, an error, a negative one and  *)
(* one that does not fit the exit code of a service, here of three bits.   *)
(***************************************************************************)
EXTENDS WinSvc

MCCode == {-1, 0, 2, 9}
=============================================================================
