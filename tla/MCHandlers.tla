----------------------------- MODULE MCHandlers -----------------------------
(***************************************************************************)
(* A small registry: one method, the paths "", "/", "/a", "/a/" and        *)
(* "/a/b", two access levels.                                              *)
(***************************************************************************)
EXTENDS Handlers

P(segs, slash) == [segs |-> segs, slash |-> slash]

MCPath == {P(<<>>, FALSE), Root, P(<<"a">>, FALSE), P(<<"a">>, TRUE),
           P(<<"a", "b">>, FALSE)}

U(path, access) ==
  [method |-> "GET", pattern |-> path, access |-> access, f |-> "f"]

MCInitRegs ==
  <<[u |-> U(P(<<"a">>, TRUE), ACCESS_LEVEL_ADMIN), type |-> "PRIVATE_HANDLER"],
    [u |-> U(P(<<"a", "b">>, FALSE), ACCESS_LEVEL_NONE),
     type |-> "ALL_HANDLER"]>>

MCRegChoice ==
  [u : {U(p, a) : p \in MCPath, a \in {ACCESS_LEVEL_NONE, ACCESS_LEVEL_ADMIN}},
   type : HandlerType]
=============================================================================
