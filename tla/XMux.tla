-------------------------------- MODULE XMux --------------------------------
(***************************************************************************)
(* The request multiplexer of netXMux.go: the map XMux.m from keys to      *)
(* entries, the registration and removal of a handler, and the choice of   *)
(* the entry that serves a path.                                           *)
(*                                                                         *)
(* A path or pattern is its list of segments and whether it ends in '/':   *)
(* "/" is Root, "/a" is [segs |-> <<a>>, slash |-> FALSE], "/a/" the same  *)
(* with slash TRUE, and "" is [segs |-> <<>>, slash |-> FALSE].  The map   *)
(* is a total function whose value at an absent key is nilEntry, the zero  *)
(* muxEntry that a Go map lookup returns for it.                           *)
(*                                                                         *)
(* Patterns that start with a host name are left out: registerHandler      *)
(* (net.go:673) refuses every path that does not start with '/', so        *)
(* XMux.hosts is FALSE in both multiplexers of an HttpSrv.                 *)
(***************************************************************************)
EXTENDS Naturals, Sequences

CONSTANTS Method,   \* HTTP methods
          Segment,  \* path segments
          Path,     \* the paths and patterns considered
          Func      \* handler functions

Root == [segs |-> <<>>, slash |-> TRUE]

\* pattern[0 : len(pattern)-1] of a pattern that ends in '/'
noSlash(p) == [p EXCEPT !.slash = FALSE]

ASSUME PathAssumption ==
  /\ Path \subseteq [segs : Seq(Segment), slash : BOOLEAN]
  /\ Root \in Path
  /\ \A p \in Path : noSlash(p) \in Path

ASSUME FuncAssumption == Func \cap {"nil", "redirect"} = {}

ACCESS_LEVEL_NONE == 0
ACCESS_LEVEL_USER == 1
ACCESS_LEVEL_ADMIN == 2

AccessLevel == {ACCESS_LEVEL_NONE, ACCESS_LEVEL_USER, ACCESS_LEVEL_ADMIN}

Key == Method \X Path

makeKey(method, path) == <<method, path>>

UriHandler == [method : Method, pattern : Path, access : AccessLevel, f : Func]

muxEntry == [explicit : BOOLEAN, f : Func \cup {"nil", "redirect"},
             access : AccessLevel, pattern : Path]

nilEntry == [explicit |-> FALSE, f |-> "nil",
             access |-> ACCESS_LEVEL_NONE, pattern |-> Root]

NewXMux == [k \in Key |-> nilEntry]

-----------------------------------------------------------------------------
(***************************************************************************)
(* Registration.  Handle panics on a key that is already registered        *)
(* explicitly; otherwise it stores the handler and, for "/tree/", an       *)
(* implicit redirect at "/tree" unless "/tree" is registered explicitly.   *)
(***************************************************************************)
HandlePanics(m, u) == m[makeKey(u.method, u.pattern)].explicit

\* Mutant: the redirect for "/tree/" takes the place of a handler at "/tree".
HandleOverTree(m, u) ==
  [k \in Key |->
     IF k = makeKey(u.method, u.pattern)
       THEN [explicit |-> TRUE, f |-> u.f, access |-> u.access,
             pattern |-> u.pattern]
     ELSE IF k = makeKey(u.method, noSlash(u.pattern)) /\ u.pattern.slash
       THEN [explicit |-> FALSE, f |-> "redirect", access |-> u.access,
             pattern |-> u.pattern]
     ELSE m[k]]

Handle(m, u) ==
  LET key  == makeKey(u.method, u.pattern)
      bare == makeKey(u.method, noSlash(u.pattern))
  IN [k \in Key |->
        IF k = key
          THEN [explicit |-> TRUE, f |-> u.f, access |-> u.access,
                pattern |-> u.pattern]
        ELSE IF k = bare /\ u.pattern.slash /\ ~m[bare].explicit
          THEN [explicit |-> FALSE, f |-> "redirect", access |-> u.access,
                pattern |-> u.pattern]
        ELSE m[k]]

\* Mutant: the redirect for "/tree" outlives "/tree/".
RemoveKeepsRedirect(m, method, path) ==
  [m EXCEPT ![makeKey(method, path)] = nilEntry]

RemoveHandleFunc(m, method, path) ==
  LET key  == makeKey(method, path)
      bare == makeKey(method, noSlash(path))
  IN [k \in Key |->
        IF k = key \/ (k = bare /\ path.slash /\ ~m[bare].explicit)
          THEN nilEntry
          ELSE m[k]]

-----------------------------------------------------------------------------
(***************************************************************************)
(* Routing.  match ranges over a Go map, in an order that changes from one *)
(* call to the next, and keeps the longest matching key it has met.  All   *)
(* matching keys are prefixes of one text, so the one with more segments   *)
(* is the longer one; ties is the set of keys that some iteration order    *)
(* ends on.                                                                *)
(***************************************************************************)
\* Mutant: a pattern without a trailing slash matches as a prefix too.
PathMatchPrefix(pattern, path) ==
  /\ Len(pattern.segs) <= Len(path.segs)
  /\ SubSeq(path.segs, 1, Len(pattern.segs)) = pattern.segs

pathMatch(pattern, path) ==
  IF pattern.slash
    THEN /\ \/ Len(pattern.segs) < Len(path.segs)
            \/ Len(pattern.segs) = Len(path.segs) /\ path.slash
         /\ SubSeq(path.segs, 1, Len(pattern.segs)) = pattern.segs
    ELSE pattern = path

matching(m, method, path) ==
  {k \in Key : m[k] # nilEntry /\ k[1] = method /\ pathMatch(k[2], path)}

ties(m, method, path) ==
  LET ks == matching(m, method, path)
  IN {k \in ks : \A j \in ks : Len(j[2].segs) <= Len(k[2].segs)}

\* The entry XMux.handler returns; nilEntry stands for its nil handler.
match(m, method, path) ==
  IF matching(m, method, path) = {}
    THEN nilEntry
    ELSE m[CHOOSE k \in ties(m, method, path) : TRUE]
=============================================================================
