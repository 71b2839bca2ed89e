---------------------------- MODULE MCDispatch ----------------------------
(***************************************************************************)
(* Handlers at "/a/", "/a" and "/", paths that need cleaning or a slash,   *)
(* and two access lists that disagree on a host.                           *)
(***************************************************************************)
EXTENDS Dispatch

P(segs, slash) == [segs |-> segs, slash |-> slash]

MCPath == {P(<<>>, FALSE), Root, P(<<"a">>, FALSE), P(<<"a">>, TRUE)}
MCRawPath == {P(<<>>, FALSE), P(<<"a">>, FALSE), P(<<"a">>, TRUE),
              P(<<"a", "..", "a", "", "b">>, TRUE), P(<<"..", "a", ".">>, FALSE),
              star}

U(path, access, f) ==
  [method |-> "GET", pattern |-> path, access |-> access, f |-> f]
MCInitHandlers == <<U(P(<<"a">>, TRUE), ACCESS_LEVEL_ADMIN, "tree")>>
MCHandlerSet == {U(P(<<"a">>, TRUE), ACCESS_LEVEL_ADMIN, "tree"),
                 U(P(<<"a">>, FALSE), ACCESS_LEVEL_NONE, "leaf"),
                 U(Root, ACCESS_LEVEL_USER, "root")}

MCLevelSet == {[h \in Host |-> ACCESS_LEVEL_USER],
               [h \in Host |-> IF h = "near" THEN ACCESS_LEVEL_ADMIN
                               ELSE ACCESS_LEVEL_NONE]}
=============================================================================
