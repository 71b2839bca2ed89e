---------------------------- MODULE MCSingleton ----------------------------
(***************************************************************************)
(* Three processes, so that one can start while two others are at odds     *)
(* over the file.                                                          *)
(***************************************************************************)
EXTENDS Singleton
=============================================================================
