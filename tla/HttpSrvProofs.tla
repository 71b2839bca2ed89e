--------------------------- MODULE HttpSrvProofs ---------------------------
(***************************************************************************)
(* Proofs about HttpSrv: its handler registry by itself, for every set of  *)
(* methods, paths and handlers and every sequence of start-up              *)
(* registrations, and then its listeners, for every set of addresses,      *)
(* ports and ini files and every choice of failing binds.                  *)
(*                                                                         *)
(* The registry.  HInv is inductive.  RegistryMatchesMux needs nothing but *)
(* the types; RedirectHasTarget is inductive because Handle never touches  *)
(* an explicit entry (so a target keeps its access level) and              *)
(* RemoveHandleFunc drops the redirect together with its target.           *)
(* ExplicitServes is there for RegisteredIsRouted: a registered path is    *)
(* routed to its own key because every other key that matches it is        *)
(* strictly shorter.                                                       *)
(*                                                                         *)
(* The listeners.  SInv is inductive.  SocketsOwned is not by itself: that *)
(* the two sides never release or bind each other's sockets follows from   *)
(* SideSeparation, and that a static handler registered by Configure keeps *)
(* registry and multiplexer together needs MapsInv.                        *)
(***************************************************************************)
EXTENDS HttpSrv, FiniteSetTheorems, TLAPS


\* explicit entries serve a function, never a redirect or nothing
serves(m) == \A k \in Key : m[k].explicit => m[k].f \in Func

ExplicitServes == \A s \in Side : serves(mux[s])

HInv == HandlersTypeOK /\ RegistryMatchesMux /\ RedirectHasTarget /\ ExplicitServes

-----------------------------------------------------------------------------
(* The multiplexer's operators. *)

(***************************************************************************)
(* Dropping the trailing slash of a pattern stays inside Path.             *)
(***************************************************************************)
LEMMA NoSlashType ==
  ASSUME NEW method \in Method, NEW p \in Path
  PROVE  /\ makeKey(method, p) \in Key
         /\ makeKey(method, noSlash(p)) \in Key
BY PathAssumption DEF makeKey, Key

(***************************************************************************)
(* The zero entry of a Go map is an entry, and it is not explicit.         *)
(***************************************************************************)
LEMMA NilEntryType == nilEntry \in muxEntry /\ ~nilEntry.explicit
BY PathAssumption DEF nilEntry, muxEntry, AccessLevel, ACCESS_LEVEL_NONE,
   ACCESS_LEVEL_USER, ACCESS_LEVEL_ADMIN

(***************************************************************************)
(* Handle returns a multiplexer.                                           *)
(***************************************************************************)
LEMMA HandleType ==
  ASSUME NEW m \in [Key -> muxEntry], NEW u \in UriHandler
  PROVE  Handle(m, u) \in [Key -> muxEntry]
<1>1. u.method \in Method /\ u.pattern \in Path /\ u.access \in AccessLevel
      /\ u.f \in Func
  BY DEF UriHandler
<1>2. [explicit |-> TRUE, f |-> u.f, access |-> u.access,
       pattern |-> u.pattern] \in muxEntry
  BY <1>1 DEF muxEntry
<1>3. [explicit |-> FALSE, f |-> "redirect", access |-> u.access,
       pattern |-> u.pattern] \in muxEntry
  BY <1>1 DEF muxEntry
<1> QED
  BY <1>2, <1>3 DEF Handle

(***************************************************************************)
(* What Handle does to the entries, when it does not panic: its own key    *)
(* becomes explicit, every other key keeps its explicit flag, and explicit *)
(* entries do not change at all.                                           *)
(***************************************************************************)
LEMMA HandleEffect ==
  ASSUME NEW m \in [Key -> muxEntry], NEW u \in UriHandler,
         ~HandlePanics(m, u), NEW k \in Key
  PROVE  /\ k = makeKey(u.method, u.pattern) => Handle(m, u)[k].explicit
         /\ k # makeKey(u.method, u.pattern) =>
              (Handle(m, u)[k].explicit <=> m[k].explicit)
         /\ m[k].explicit => Handle(m, u)[k] = m[k]
<1>1. CASE k = makeKey(u.method, u.pattern)
  BY <1>1 DEF Handle, HandlePanics
<1>2. CASE k # makeKey(u.method, u.pattern)
  BY <1>2 DEF Handle
<1> QED
  BY <1>1, <1>2

(***************************************************************************)
(* Handle keeps every redirect next to its target.                         *)
(***************************************************************************)
LEMMA HandleRedirects ==
  ASSUME NEW m \in [Key -> muxEntry], NEW u \in UriHandler,
         ~HandlePanics(m, u), redirectsHaveTargets(m)
  PROVE  redirectsHaveTargets(Handle(m, u))
<1> DEFINE n == Handle(m, u)
           key == makeKey(u.method, u.pattern)
           bare == makeKey(u.method, noSlash(u.pattern))
<1>0. u.method \in Method /\ u.pattern \in Path
  BY DEF UriHandler
<1>1. key \in Key /\ bare \in Key
  BY <1>0, NoSlashType
<1> SUFFICES ASSUME NEW k \in Key, n[k] # nilEntry, ~n[k].explicit
             PROVE  /\ n[k].f = "redirect"
                    /\ n[k].pattern.slash
                    /\ k[2] = noSlash(n[k].pattern)
                    /\ n[makeKey(k[1], n[k].pattern)].explicit
                    /\ n[makeKey(k[1], n[k].pattern)].access = n[k].access
  BY DEF redirectsHaveTargets
<1>2. k # key
  BY HandleEffect
<1>3. CASE k = bare /\ u.pattern.slash /\ ~m[bare].explicit
  <2>1. n[k] = [explicit |-> FALSE, f |-> "redirect", access |-> u.access,
                pattern |-> u.pattern]
    BY <1>2, <1>3 DEF Handle
  <2>2. n[key] = [explicit |-> TRUE, f |-> u.f, access |-> u.access,
                  pattern |-> u.pattern]
    BY <1>1 DEF Handle
  <2>3. k[1] = u.method /\ k[2] = noSlash(u.pattern)
    BY <1>3 DEF makeKey
  <2> QED
    BY <1>3, <2>1, <2>2, <2>3
<1>4. CASE ~(k = bare /\ u.pattern.slash /\ ~m[bare].explicit)
  <2>1. n[k] = m[k]
    BY <1>2, <1>4 DEF Handle
  <2> DEFINE t == makeKey(k[1], m[k].pattern)
  <2>2. t \in Key
    BY NoSlashType DEF Key, muxEntry
  <2>3. /\ m[k].f = "redirect" /\ m[k].pattern.slash
        /\ k[2] = noSlash(m[k].pattern)
        /\ m[t].explicit /\ m[t].access = m[k].access
    BY <2>1 DEF redirectsHaveTargets
  <2>4. n[t] = m[t]
    BY <2>2, <2>3, HandleEffect
  <2> QED
    BY <2>1, <2>3, <2>4
<1> QED
  BY <1>3, <1>4

(***************************************************************************)
(* The explicit entries Handle leaves serve functions.                     *)
(***************************************************************************)
LEMMA HandleServes ==
  ASSUME NEW m \in [Key -> muxEntry], NEW u \in UriHandler, serves(m)
  PROVE  serves(Handle(m, u))
<1> SUFFICES ASSUME NEW k \in Key, Handle(m, u)[k].explicit
             PROVE  Handle(m, u)[k].f \in Func
  BY DEF serves
<1>1. u.f \in Func
  BY DEF UriHandler
<1>2. CASE k = makeKey(u.method, u.pattern)
  BY <1>1, <1>2 DEF Handle
<1>3. CASE k # makeKey(u.method, u.pattern)
  BY <1>3 DEF Handle, serves
<1> QED
  BY <1>2, <1>3

(***************************************************************************)
(* RemoveHandleFunc returns a multiplexer in which the key is gone, and    *)
(* every other key keeps its explicit flag; what stays is unchanged.       *)
(***************************************************************************)
LEMMA RemoveEffect ==
  ASSUME NEW m \in [Key -> muxEntry], NEW method \in Method, NEW path \in Path
  PROVE  /\ RemoveHandleFunc(m, method, path) \in [Key -> muxEntry]
         /\ \A k \in Key :
              LET n == RemoveHandleFunc(m, method, path) IN
              /\ n[k] = nilEntry \/ n[k] = m[k]
              /\ k = makeKey(method, path) => n[k] = nilEntry
              /\ (k # makeKey(method, path) /\ m[k].explicit) => n[k] = m[k]
BY NilEntryType, NoSlashType DEF RemoveHandleFunc

(***************************************************************************)
(* RemoveHandleFunc keeps every redirect next to its target.               *)
(***************************************************************************)
LEMMA RemoveRedirects ==
  ASSUME NEW m \in [Key -> muxEntry], NEW method \in Method, NEW path \in Path,
         redirectsHaveTargets(m)
  PROVE  redirectsHaveTargets(RemoveHandleFunc(m, method, path))
<1> DEFINE n == RemoveHandleFunc(m, method, path)
           key == makeKey(method, path)
<1> SUFFICES ASSUME NEW k \in Key, n[k] # nilEntry, ~n[k].explicit
             PROVE  /\ n[k].f = "redirect"
                    /\ n[k].pattern.slash
                    /\ k[2] = noSlash(n[k].pattern)
                    /\ n[makeKey(k[1], n[k].pattern)].explicit
                    /\ n[makeKey(k[1], n[k].pattern)].access = n[k].access
  BY DEF redirectsHaveTargets
<1>1. n[k] = m[k]
  BY RemoveEffect
<1> DEFINE t == makeKey(k[1], m[k].pattern)
<1>2. t \in Key
  BY NoSlashType DEF Key, muxEntry
<1>3. /\ m[k].f = "redirect" /\ m[k].pattern.slash
      /\ k[2] = noSlash(m[k].pattern)
      /\ m[t].explicit /\ m[t].access = m[k].access
  BY <1>1 DEF redirectsHaveTargets
<1>4. t # key
  <2> SUFFICES ASSUME t = key PROVE FALSE
    OBVIOUS
  <2>1. k[1] = method /\ m[k].pattern = path
    BY DEF makeKey
  <2>2. k = makeKey(method, noSlash(path))
    BY <1>3, <2>1 DEF makeKey, Key
  <2>3. path.slash /\ ~m[k].explicit
    BY <1>1, <1>3, <2>1
  <2>4. n[k] = nilEntry
    BY <2>2, <2>3 DEF RemoveHandleFunc
  <2> QED
    BY <2>4
<1>5. n[t] = m[t]
  BY <1>2, <1>3, <1>4, RemoveEffect
<1> QED
  BY <1>1, <1>3, <1>5

(***************************************************************************)
(* A pattern matches itself; any other pattern that matches a path has     *)
(* fewer segments.                                                         *)
(***************************************************************************)
LEMMA MatchLengths ==
  ASSUME NEW p \in Path, NEW q \in Path
  PROVE  /\ pathMatch(p, p)
         /\ (pathMatch(q, p) /\ q # p) =>
              /\ Len(q.segs) < Len(p.segs)
              /\ Len(q.segs) \in Nat /\ Len(p.segs) \in Nat
<1>1. /\ p \in [segs : Seq(Segment), slash : BOOLEAN]
      /\ q \in [segs : Seq(Segment), slash : BOOLEAN]
  BY PathAssumption
<1>2. Len(q.segs) \in Nat /\ Len(p.segs) \in Nat
  BY <1>1
<1>3. SubSeq(p.segs, 1, Len(p.segs)) = p.segs
  BY <1>1
<1>4. pathMatch(p, p)
  BY <1>3 DEF pathMatch
<1>5. ASSUME pathMatch(q, p), q # p PROVE Len(q.segs) < Len(p.segs)
  <2>1. CASE ~q.slash
    BY <1>5, <2>1 DEF pathMatch
  <2>2. CASE q.slash /\ ~(Len(q.segs) < Len(p.segs))
    <3>1. /\ Len(q.segs) = Len(p.segs) /\ p.slash
          /\ SubSeq(p.segs, 1, Len(q.segs)) = q.segs
      BY <1>5, <2>2 DEF pathMatch
    <3>2. q.segs = p.segs
      BY <1>3, <3>1
    <3>3. q.slash = p.slash
      BY <1>1, <2>2, <3>1
    <3>4. q = p
      BY <1>1, <3>2, <3>3
    <3> QED
      BY <1>5, <3>4
  <2> QED
    BY <1>1, <2>1, <2>2
<1> QED
  BY <1>2, <1>4, <1>5

(***************************************************************************)
(* An entry of a multiplexer is the only one that its own path can be      *)
(* routed to.                                                              *)
(***************************************************************************)
LEMMA RoutedToItself ==
  ASSUME NEW m, NEW method \in Method, NEW path \in Path,
         m[makeKey(method, path)] # nilEntry
  PROVE  /\ ties(m, method, path) = {makeKey(method, path)}
         /\ match(m, method, path) = m[makeKey(method, path)]
<1> DEFINE key == makeKey(method, path)
           ks == matching(m, method, path)
<1>1. key \in Key /\ key[1] = method /\ key[2] = path
  BY DEF makeKey, Key
<1>2. key \in ks
  BY <1>1, MatchLengths DEF matching
<1>3. ASSUME NEW j \in ks, j # key
      PROVE  /\ Len(j[2].segs) < Len(path.segs)
             /\ Len(j[2].segs) \in Nat /\ Len(path.segs) \in Nat
  <2>1. j \in Key /\ j[1] = method /\ j[2] \in Path /\ pathMatch(j[2], path)
    BY DEF matching, Key
  <2>2. j[2] # path
    BY <1>3, <2>1 DEF Key, makeKey
  <2> QED
    BY <2>1, <2>2, MatchLengths
<1>4. Len(path.segs) \in Nat
  BY PathAssumption
<1>5. key \in ties(m, method, path)
  BY <1>1, <1>2, <1>3, <1>4 DEF ties
<1>6. ASSUME NEW k \in ties(m, method, path) PROVE k = key
  <2>1. k \in ks /\ Len(path.segs) <= Len(k[2].segs)
    BY <1>1, <1>2 DEF ties
  <2> QED
    BY <1>3, <2>1
<1>7. ties(m, method, path) = {key}
  BY <1>5, <1>6
<1> HIDE DEF key
<1>8. (CHOOSE k \in {key} : TRUE) = key
  OBVIOUS
<1> QED
  BY <1>2, <1>7, <1>8 DEF match, key

-----------------------------------------------------------------------------
(* The registry. *)

(***************************************************************************)
(* A new HttpSrv satisfies the invariant.                                  *)
(***************************************************************************)
LEMMA InitHInv == NewHttpSrv => /\ handlers \in [Side -> [Key -> UriHandler \cup {nilHandler}]]
                                /\ mux \in [Side -> [Key -> muxEntry]]
                                /\ RegistryMatchesMux
                                /\ RedirectHasTarget
                                /\ ExplicitServes
<1> SUFFICES ASSUME NewHttpSrv
             PROVE  /\ handlers \in [Side -> [Key -> UriHandler \cup {nilHandler}]]
                    /\ mux \in [Side -> [Key -> muxEntry]]
                    /\ RegistryMatchesMux
                    /\ RedirectHasTarget
                    /\ ExplicitServes
  OBVIOUS
<1> USE NilEntryType
<1>1. handlers \in [Side -> [Key -> UriHandler \cup {nilHandler}]]
  BY DEF NewHttpSrv
<1>2. mux \in [Side -> [Key -> muxEntry]]
  BY DEF NewHttpSrv, NewXMux
<1>3. RegistryMatchesMux
  BY DEF NewHttpSrv, NewXMux, RegistryMatchesMux
<1>4. RedirectHasTarget
  BY DEF NewHttpSrv, NewXMux, RedirectHasTarget, redirectsHaveTargets
<1>5. ExplicitServes
  BY DEF NewHttpSrv, NewXMux, ExplicitServes, serves
<1> QED
  BY <1>1, <1>2, <1>3, <1>4, <1>5

(***************************************************************************)
(* The part of HInv about the two maps: registry and multiplexers.         *)
(***************************************************************************)
MapsInv ==
  /\ handlers \in [Side -> [Key -> UriHandler \cup {nilHandler}]]
  /\ mux \in [Side -> [Key -> muxEntry]]
  /\ RegistryMatchesMux
  /\ RedirectHasTarget
  /\ ExplicitServes

(***************************************************************************)
(* A registration's handler is not the absent one.                         *)
(***************************************************************************)
LEMMA HandlerNotNil == ASSUME NEW u \in UriHandler PROVE u # nilHandler
BY FuncAssumption DEF UriHandler, nilHandler

(***************************************************************************)
(* registerHandler keeps the two maps together, also when it panics after  *)
(* the registry map was written or between the two sides.                  *)
(***************************************************************************)
LEMMA RegisterKeepsMaps ==
  ASSUME MapsInv, NEW u \in UriHandler, NEW type \in HandlerType,
         registerHandler(u, type)
  PROVE  MapsInv'
<1> DEFINE key == makeKey(u.method, u.pattern)
<1>0. key \in Key
  BY NoSlashType DEF UriHandler
<1>1. \A s \in Side : /\ handlers[s] \in [Key -> UriHandler \cup {nilHandler}]
                      /\ mux[s] \in [Key -> muxEntry]
                      /\ redirectsHaveTargets(mux[s])
  BY DEF MapsInv, RedirectHasTarget
<1>2. handlers' \in [Side -> [Key -> UriHandler \cup {nilHandler}]]
  BY <1>1 DEF registerHandler
<1>3. mux' \in [Side -> [Key -> muxEntry]]
  BY <1>1, HandleType DEF registerHandler
<1>4. RegistryMatchesMux'
  <2> SUFFICES ASSUME NEW s \in Side, NEW k \in Key
               PROVE  (handlers'[s][k] # nilHandler) <=> mux'[s][k].explicit
    BY DEF RegistryMatchesMux
  <2>0. (handlers[s][k] # nilHandler) <=> mux[s][k].explicit
    BY DEF MapsInv, RegistryMatchesMux
  <2>1. CASE s \notin reached(u, type)
    BY <2>0, <2>1 DEF registerHandler
  <2>2. CASE s \in reached(u, type) /\ k = key
    <3>1. handlers'[s][k] = u
      BY <1>1, <2>2 DEF registerHandler
    <3>2. mux'[s][k].explicit
      <4>1. CASE HandlePanics(mux[s], u)
        BY <2>2, <4>1 DEF registerHandler, HandlePanics
      <4>2. CASE ~HandlePanics(mux[s], u)
        BY <1>1, <2>2, <4>2, HandleEffect DEF registerHandler
      <4> QED BY <4>1, <4>2
    <3> QED
      BY <3>1, <3>2, HandlerNotNil
  <2>3. CASE s \in reached(u, type) /\ k # key
    <3>1. handlers'[s][k] = handlers[s][k]
      BY <1>1, <2>3 DEF registerHandler
    <3>2. mux'[s][k].explicit <=> mux[s][k].explicit
      <4>1. CASE HandlePanics(mux[s], u)
        BY <4>1 DEF registerHandler
      <4>2. CASE ~HandlePanics(mux[s], u)
        <5>1. mux'[s] = Handle(mux[s], u)
          BY <2>3, <4>2 DEF registerHandler
        <5> QED
          BY <1>1, <2>3, <4>2, <5>1, HandleEffect
      <4> QED BY <4>1, <4>2
    <3> QED
      BY <2>0, <3>1, <3>2
  <2> QED
    BY <2>1, <2>2, <2>3
<1>5. RedirectHasTarget'
  <2> SUFFICES ASSUME NEW s \in Side
               PROVE  redirectsHaveTargets(mux'[s])
    BY DEF RedirectHasTarget, redirectsHaveTargets
  <2>1. mux'[s] = mux[s] \/ (~HandlePanics(mux[s], u) /\ mux'[s] = Handle(mux[s], u))
    BY DEF registerHandler
  <2> QED
    BY <1>1, <2>1, HandleRedirects
<1>6. ExplicitServes'
  <2> SUFFICES ASSUME NEW s \in Side
               PROVE  serves(mux'[s])
    BY DEF ExplicitServes, serves
  <2>1. mux'[s] = mux[s] \/ mux'[s] = Handle(mux[s], u)
    BY DEF registerHandler
  <2> QED
    BY <1>1, <2>1, HandleServes DEF MapsInv, ExplicitServes
<1> QED
  BY <1>2, <1>3, <1>4, <1>5, <1>6 DEF MapsInv

(***************************************************************************)
(* removeHandler keeps the two maps together.                              *)
(***************************************************************************)
LEMMA RemoveKeepsMaps ==
  ASSUME MapsInv, NEW method \in Method, NEW path \in Path,
         removeHandler(method, path)
  PROVE  MapsInv'
<1> DEFINE key == makeKey(method, path)
<1>1. \A s \in Side : /\ handlers[s] \in [Key -> UriHandler \cup {nilHandler}]
                      /\ mux[s] \in [Key -> muxEntry]
                      /\ redirectsHaveTargets(mux[s])
  BY DEF MapsInv, RedirectHasTarget
<1>2. handlers' \in [Side -> [Key -> UriHandler \cup {nilHandler}]]
  BY <1>1 DEF removeHandler
<1>3. mux' \in [Side -> [Key -> muxEntry]]
  BY <1>1, RemoveEffect DEF removeHandler
<1>4. RegistryMatchesMux'
  <2> SUFFICES ASSUME NEW s \in Side, NEW k \in Key
               PROVE  (handlers'[s][k] # nilHandler) <=> mux'[s][k].explicit
    BY DEF RegistryMatchesMux
  <2>0. (handlers[s][k] # nilHandler) <=> mux[s][k].explicit
    BY DEF MapsInv, RegistryMatchesMux
  <2>1. mux'[s] = RemoveHandleFunc(mux[s], method, path)
    BY DEF removeHandler
  <2>2. CASE k = key
    <3>1. handlers'[s][k] = nilHandler
      BY <1>1, <2>2 DEF removeHandler
    <3>2. mux'[s][k] = nilEntry
      BY <1>1, <2>1, <2>2, RemoveEffect
    <3> QED
      BY <3>1, <3>2, NilEntryType
  <2>3. CASE k # key
    <3>1. handlers'[s][k] = handlers[s][k]
      BY <1>1, <2>3 DEF removeHandler
    <3>2. mux'[s][k].explicit <=> mux[s][k].explicit
      BY <1>1, <2>1, <2>3, RemoveEffect, NilEntryType
    <3> QED
      BY <2>0, <3>1, <3>2
  <2> QED
    BY <2>2, <2>3
<1>5. RedirectHasTarget'
  <2> SUFFICES ASSUME NEW s \in Side
               PROVE  redirectsHaveTargets(mux'[s])
    BY DEF RedirectHasTarget, redirectsHaveTargets
  <2> QED
    BY <1>1, RemoveRedirects DEF removeHandler
<1>6. ExplicitServes'
  <2> SUFFICES ASSUME NEW s \in Side, NEW k \in Key, mux'[s][k].explicit
               PROVE  mux'[s][k].f \in Func
    BY DEF ExplicitServes, serves
  <2>1. mux'[s] = RemoveHandleFunc(mux[s], method, path)
    BY DEF removeHandler
  <2>2. mux'[s][k] = mux[s][k]
    BY <1>1, <2>1, RemoveEffect, NilEntryType
  <2> QED
    BY <2>2 DEF MapsInv, ExplicitServes, serves
<1> QED
  BY <1>2, <1>3, <1>4, <1>5, <1>6 DEF MapsInv

-----------------------------------------------------------------------------
(* The specification. *)

(***************************************************************************)
(* HInv holds initially and every step keeps it.                           *)
(***************************************************************************)
LEMMA HInvInductive ==
  /\ HInit => HInv
  /\ HInv /\ [HNext]_rvars => HInv'
<1>0. HInv <=> MapsInv /\ initPos \in Nat /\ ops \in Nat
  BY DEF HInv, MapsInv, HandlersTypeOK
<1>1. HInit => HInv
  BY <1>0, InitHInv DEF HInit, MapsInv
<1>2. HInv /\ [HNext]_rvars => HInv'
  <2> SUFFICES ASSUME HInv, [HNext]_rvars PROVE MapsInv' /\ initPos' \in Nat /\ ops' \in Nat
    BY DEF HInv, MapsInv, HandlersTypeOK
  <2>0. MapsInv /\ initPos \in Nat /\ ops \in Nat
    BY <1>0
  <2>1. CASE NetInit
    <3> DEFINE r == InitRegs[initPos + 1]
    <3>1. r \in Reg
      BY <2>0, <2>1, RegAssumption DEF NetInit
    <3>2. r.u \in UriHandler /\ r.type \in HandlerType
      BY <3>1 DEF Reg
    <3>3. registerHandler(r.u, r.type)
      BY <2>1 DEF NetInit
    <3>4. MapsInv'
      BY <2>0, <3>2, <3>3, RegisterKeepsMaps
    <3> QED
      BY <2>0, <2>1, <3>4 DEF NetInit
  <2>2. ASSUME NEW r \in RegChoice, RegisterHandler(r)
        PROVE  MapsInv' /\ initPos' \in Nat /\ ops' \in Nat
    <3>1. r.u \in UriHandler /\ r.type \in HandlerType
      BY RegAssumption DEF Reg
    <3>2. MapsInv'
      BY <2>0, <2>2, <3>1, RegisterKeepsMaps DEF RegisterHandler
    <3> QED
      BY <2>0, <2>2, <3>2 DEF RegisterHandler
  <2>3. ASSUME NEW method \in Method, NEW path \in Path, RemoveHandler(method, path)
        PROVE  MapsInv' /\ initPos' \in Nat /\ ops' \in Nat
    <3>1. MapsInv'
      BY <2>0, <2>3, RemoveKeepsMaps DEF RemoveHandler
    <3> QED
      BY <2>0, <2>3, <3>1 DEF RemoveHandler
  <2>4. CASE UNCHANGED rvars
    BY <2>0, <2>4 DEF rvars, MapsInv, RegistryMatchesMux, RedirectHasTarget,
       redirectsHaveTargets, ExplicitServes, serves
  <2> QED
    BY <2>1, <2>2, <2>3, <2>4 DEF HNext
<1> QED
  BY <1>1, <1>2

(***************************************************************************)
(* Every reachable state satisfies HInv: the registry is well typed, lists *)
(* exactly what the multiplexers serve, and no redirect is an orphan.      *)
(***************************************************************************)
THEOREM HandlersInvariant == HSpec => []HInv
<1>1. HInit => HInv
  BY HInvInductive
<1>2. HInv /\ [HNext]_rvars => HInv'
  BY HInvInductive
<1> QED
  BY <1>1, <1>2, PTL DEF HSpec

(***************************************************************************)
(* The type invariant of the registry.                                     *)
(***************************************************************************)
THEOREM HandlersTypeCorrect == HSpec => []HandlersTypeOK
BY HandlersInvariant, PTL DEF HInv

(***************************************************************************)
(* The registry maps and the multiplexers agree, whatever panics half way. *)
(***************************************************************************)
THEOREM RegistryAgrees == HSpec => []RegistryMatchesMux
BY HandlersInvariant, PTL DEF HInv

(***************************************************************************)
(* No redirect outlives its target or is open to more callers than it.     *)
(***************************************************************************)
THEOREM RedirectsGuarded == HSpec => []RedirectHasTarget
BY HandlersInvariant, PTL DEF HInv

(***************************************************************************)
(* The maps alone make a registered path reach its own handler.            *)
(***************************************************************************)
LEMMA MapsRoute == MapsInv => RegisteredIsRouted
<1> SUFFICES ASSUME MapsInv, NEW s \in Side, NEW method \in Method, NEW path \in Path,
                    handlers[s][makeKey(method, path)] # nilHandler
             PROVE  /\ ties(mux[s], method, path) = {makeKey(method, path)}
                    /\ match(mux[s], method, path).f # "redirect"
  BY DEF RegisteredIsRouted
<1> DEFINE key == makeKey(method, path)
<1>1. key \in Key
  BY NoSlashType
<1>2. mux[s][key].explicit
  BY <1>1 DEF MapsInv, RegistryMatchesMux
<1>3. mux[s][key].f \in Func
  BY <1>1, <1>2 DEF MapsInv, ExplicitServes, serves
<1>4. mux[s][key] # nilEntry
  BY <1>2, NilEntryType
<1>5. /\ ties(mux[s], method, path) = {key}
      /\ match(mux[s], method, path) = mux[s][key]
  BY <1>4, RoutedToItself
<1>6. match(mux[s], method, path).f \in Func
  BY <1>3, <1>5
<1> QED
  BY <1>5, <1>6, FuncAssumption

(***************************************************************************)
(* A registered path is served by its own handler, whatever order match    *)
(* ranges over the map in.                                                 *)
(***************************************************************************)
THEOREM RegisteredAreRouted == HSpec => []RegisteredIsRouted
<1>1. HInv => RegisteredIsRouted
  BY MapsRoute DEF HInv, MapsInv, HandlersTypeOK
<1> QED
  BY <1>1, HandlersInvariant, PTL

(***************************************************************************)
(* No step replaces a handler in service by another one.                   *)
(***************************************************************************)
THEOREM HandlersNeverReplaced == HSpec => NeverReplaced
<1> DEFINE Kept == \A s \in Side, k \in Key :
             (mux[s][k].explicit /\ mux'[s][k].explicit) => mux'[s][k] = mux[s][k]
<1>1. HInv /\ [HNext]_rvars => [Kept]_mux
  <2> SUFFICES ASSUME HInv, HNext, NEW s \in Side, NEW k \in Key,
                      mux[s][k].explicit, mux'[s][k].explicit
               PROVE  mux'[s][k] = mux[s][k]
    BY DEF rvars
  <2>0. mux[s] \in [Key -> muxEntry]
    BY DEF HInv, HandlersTypeOK
  <2>1. ASSUME NEW u \in UriHandler, NEW type \in HandlerType, registerHandler(u, type)
        PROVE  mux'[s][k] = mux[s][k]
    BY <2>0, <2>1, HandleEffect DEF registerHandler
  <2>2. CASE NetInit
    <3> DEFINE r == InitRegs[initPos + 1]
    <3>1. r \in Reg
      BY <2>2, RegAssumption DEF NetInit, HInv, HandlersTypeOK
    <3> QED
      BY <2>1, <2>2, <3>1 DEF NetInit, Reg
  <2>3. ASSUME NEW r \in RegChoice, RegisterHandler(r)
        PROVE  mux'[s][k] = mux[s][k]
    BY <2>1, <2>3, RegAssumption DEF RegisterHandler, Reg
  <2>4. ASSUME NEW method \in Method, NEW path \in Path, RemoveHandler(method, path)
        PROVE  mux'[s][k] = mux[s][k]
    <3>1. mux'[s] = RemoveHandleFunc(mux[s], method, path)
      BY <2>4 DEF RemoveHandler, removeHandler
    <3> QED
      BY <2>0, <3>1, RemoveEffect, NilEntryType
  <2> QED
    BY <2>2, <2>3, <2>4 DEF HNext
<1> QED
  BY <1>1, HandlersInvariant, PTL DEF HSpec, NeverReplaced

(***************************************************************************)
(* Registry and multiplexer come apart at a key only when a registration   *)
(* clashes there (registerHandler, RemoveHandleFunc).                      *)
(***************************************************************************)
THEOREM OnlyClashesDisagree == HSpec => OnlyClashDisagrees
<1> DEFINE Apart == \A s \in Side, k \in Key :
             (agree(s, k) /\ ~agree(s, k)')
               => mux[s][k].explicit /\ UNCHANGED mux[s]
<1>1. HInv /\ [HNext]_rvars => [Apart]_hvars
  <2> SUFFICES ASSUME HInv, HNext, NEW s \in Side, NEW k \in Key,
                      agree(s, k), ~agree(s, k)'
               PROVE  mux[s][k].explicit /\ UNCHANGED mux[s]
    BY DEF rvars, hvars
  <2>0. /\ mux[s] \in [Key -> muxEntry] /\ handlers[s] \in [Key -> UriHandler \cup {nilHandler}]
        /\ handlers[s][k] # nilHandler => mux[s][k].explicit
    BY DEF HInv, HandlersTypeOK, RegistryMatchesMux
  <2>a. handlers'[s][k] # nilHandler /\ mux'[s][k] # entryOf(handlers'[s][k])
    BY DEF agree
  <2>b. handlers[s][k] # nilHandler => mux[s][k] = entryOf(handlers[s][k])
    BY DEF agree
  <2>1. ASSUME NEW u \in UriHandler, NEW type \in HandlerType, registerHandler(u, type)
        PROVE  mux[s][k].explicit /\ UNCHANGED mux[s]
    <3> DEFINE key == makeKey(u.method, u.pattern)
    <3>1. CASE s \in reached(u, type) /\ ~HandlePanics(mux[s], u)
      <4>1. mux'[s] = Handle(mux[s], u) /\ handlers'[s] = [handlers[s] EXCEPT ![key] = u]
        BY <2>1, <3>1 DEF registerHandler
      <4>2. CASE k = key
        BY <2>0, <2>a, <4>1, <4>2 DEF Handle, entryOf
      <4>3. CASE k # key
        <5>1. handlers'[s][k] = handlers[s][k]
          BY <4>1, <4>3
        <5>2. Handle(mux[s], u)[k] = mux[s][k]
          BY <2>0, <2>a, <3>1, <5>1, HandleEffect
        <5> QED
          BY <2>a, <2>b, <4>1, <5>1, <5>2
      <4> QED
        BY <4>2, <4>3
    <3>2. CASE s \in reached(u, type) /\ HandlePanics(mux[s], u)
      <4>1. mux'[s] = mux[s] /\ handlers'[s] = [handlers[s] EXCEPT ![key] = u]
        BY <2>1, <3>2 DEF registerHandler
      <4>2. CASE k = key
        BY <3>2, <4>1, <4>2 DEF HandlePanics
      <4>3. CASE k # key
        BY <2>a, <2>b, <4>1, <4>3
      <4> QED
        BY <4>2, <4>3
    <3>3. CASE s \notin reached(u, type)
      BY <2>1, <2>a, <2>b, <3>3 DEF registerHandler
    <3> QED
      BY <3>1, <3>2, <3>3
  <2>2. CASE NetInit
    <3> DEFINE r == InitRegs[initPos + 1]
    <3>1. r \in Reg
      BY <2>2, RegAssumption DEF NetInit, HInv, HandlersTypeOK
    <3> QED
      BY <2>1, <2>2, <3>1 DEF NetInit, Reg
  <2>3. ASSUME NEW r \in RegChoice, RegisterHandler(r)
        PROVE  mux[s][k].explicit /\ UNCHANGED mux[s]
    BY <2>1, <2>3, RegAssumption DEF RegisterHandler, Reg
  <2>4. ASSUME NEW method \in Method, NEW path \in Path, RemoveHandler(method, path)
        PROVE  FALSE
    <3>1. /\ mux'[s] = RemoveHandleFunc(mux[s], method, path)
          /\ handlers'[s] = [handlers[s] EXCEPT ![makeKey(method, path)] = nilHandler]
      BY <2>4 DEF RemoveHandler, removeHandler
    <3>2. k # makeKey(method, path) /\ handlers'[s][k] = handlers[s][k]
      BY <2>0, <2>a, <3>1
    <3>3. mux'[s][k] = mux[s][k]
      BY <2>0, <2>a, <3>1, <3>2, RemoveEffect
    <3> QED
      BY <2>a, <2>b, <3>2, <3>3
  <2> QED
    BY <2>2, <2>3, <2>4 DEF HNext
<1> QED
  BY <1>1, HandlersInvariant, PTL DEF HSpec, OnlyClashDisagrees

-----------------------------------------------------------------------------
(* The listeners. *)


SInv == SrvTypeOK /\ MapsInv /\ SideSeparation /\ SocketsOwned

-----------------------------------------------------------------------------
(* What a side wants. *)

(***************************************************************************)
(* The binds a side wants are binds, on addresses of that side.            *)
(***************************************************************************)
LEMMA WantSides ==
  ASSUME NEW sv \in Srv, NEW addrs \in SUBSET Addr, NEW s \in Side
  PROVE  /\ want(s, sv, addrs) \subseteq Bind
         /\ httpList(s, sv, addrs) \subseteq want(s, sv, addrs)
         /\ TLSList(s, sv, addrs) \subseteq want(s, sv, addrs)
         /\ s = "private" => \A b \in want(s, sv, addrs) : b[1] \in PrivateNet
         /\ s = "public" => \A b \in want(s, sv, addrs) : b[1] \notin PrivateNet
<1>1. sv.port[s] \in {0} \cup Port /\ sv.tlsPort[s] \in {0} \cup Port
  BY DEF Srv
<1>2. sideAddrs(s, sv, addrs) \subseteq Addr
  BY DEF sideAddrs
<1>3. s = "private" => sideAddrs(s, sv, addrs) \subseteq PrivateNet
  BY DEF sideAddrs, isPrivateNetwork
<1>4. s = "public" => sideAddrs(s, sv, addrs) \cap PrivateNet = {}
  BY DEF sideAddrs
<1>5. httpList(s, sv, addrs) \subseteq sideAddrs(s, sv, addrs) \X Port
  BY <1>1, SrvAssumption DEF httpList
<1>6. TLSList(s, sv, addrs) \subseteq sideAddrs(s, sv, addrs) \X Port
  BY <1>1, SrvAssumption DEF TLSList
<1>7. want(s, sv, addrs) \subseteq sideAddrs(s, sv, addrs) \X Port
  BY <1>5, <1>6 DEF want
<1> QED
  BY <1>2, <1>3, <1>4, <1>7 DEF want, Bind

(***************************************************************************)
(* The fields Configure stores have their types.                           *)
(***************************************************************************)
LEMMA ConfiguredType == ASSUME NEW c \in Configs PROVE configured(c) \in Srv
<1>1. c \in Config
  BY SrvAssumption
<1>2. [s \in Side |-> c.cert # noCert /\ c.tlsPort[s] > 0 /\ c.redirect]
        \in [Side -> BOOLEAN]
  OBVIOUS
<1> QED
  BY <1>1, <1>2 DEF configured, Config, Srv

(***************************************************************************)
(* The static handler of a side is a handler.                              *)
(***************************************************************************)
LEMMA StaticHandlerType == ASSUME NEW s \in Side PROVE staticHandler(s) \in UriHandler
BY SrvAssumption, PathAssumption DEF staticHandler, UriHandler, AccessLevel,
   ACCESS_LEVEL_ADMIN, ACCESS_LEVEL_NONE, ACCESS_LEVEL_USER

(***************************************************************************)
(* What a restart leaves in a side's map: well-typed listeners on binds    *)
(* the side wants; the open ones are those it has just opened and those    *)
(* that were open and are still wanted.                                    *)
(***************************************************************************)
LEMMA RestartEffect ==
  ASSUME SrvTypeOK, NEW sv \in Srv, NEW s \in Side, NEW held
  PROVE  LET r == restarted(s, sv, held)
             up == httpUp(s, sv, held) \cup TLSUp(s, sv, held)
         IN /\ r \in [Bind -> Listener]
            /\ up \subseteq want(s, sv, localAddrs)
            /\ \A b \in Bind : r[b].state # "none" => b \in want(s, sv, localAddrs)
            /\ \A b \in Bind : r[b].state = "open" <=>
                 (b \in up \/ (b \in openOf(s) /\ b \notin released(s, sv)))
<1> DEFINE r == restarted(s, sv, held)
           W == want(s, sv, localAddrs)
           up == httpUp(s, sv, held) \cup TLSUp(s, sv, held)
<1>1. localAddrs \in SUBSET Addr /\ listeners[s] \in [Bind -> Listener]
  BY DEF SrvTypeOK
<1>2. httpList(s, sv, localAddrs) \subseteq W /\ TLSList(s, sv, localAddrs) \subseteq W
  BY <1>1, WantSides
<1>3. up \subseteq W
  BY <1>2 DEF httpUp, TLSUp, httpNew, TLSNew
<1>4. opened(sv.tlsCfg) \in Listener /\ opened(noCert) \in Listener
      /\ noListener \in Listener
  BY SrvAssumption DEF opened, noListener, Listener, noCert, Srv
<1>5. /\ opened(sv.tlsCfg).state = "open" /\ opened(noCert).state = "open"
      /\ noListener.state = "none"
  BY DEF opened, noListener
<1>6. ASSUME NEW b \in Bind
      PROVE  \/ b \in up /\ r[b] \in {opened(sv.tlsCfg), opened(noCert)}
             \/ b \notin up /\ b \in kept(s, sv) /\ r[b] = listeners[s][b]
             \/ b \notin up /\ b \notin kept(s, sv) /\ r[b] = noListener
  BY DEF restarted
<1>7. r \in [Bind -> Listener]
  <2>1. \A b \in Bind : r[b] \in Listener
    BY <1>1, <1>4, <1>6
  <2> QED
    BY <2>1 DEF restarted
<1>8. \A b \in Bind : r[b].state # "none" => b \in W
  BY <1>3, <1>5, <1>6 DEF kept
<1>9. ASSUME NEW b \in Bind
      PROVE  r[b].state = "open" <=>
               (b \in up \/ (b \in openOf(s) /\ b \notin released(s, sv)))
  BY <1>3, <1>5, <1>6 DEF kept, inMap, openOf, released
<1> QED
  BY <1>3, <1>7, <1>8, <1>9

-----------------------------------------------------------------------------
(* HttpSrv.Configure. *)

(***************************************************************************)
(* Configure, when it does not panic, keeps registry and multiplexers      *)
(* together.                                                               *)
(***************************************************************************)
LEMMA ConfigureKeepsMaps ==
  ASSUME MapsInv, NEW c \in Configs, NEW force, NEW taken,
         ~configurePanics(c), Configure(c, force, taken)
  PROVE  MapsInv'
<1> DEFINE key == makeKey("GET", Root)
<1>0. key \in Key
  BY SrvAssumption, PathAssumption, NoSlashType
<1>1. \A s \in Side : /\ handlers[s] \in [Key -> UriHandler \cup {nilHandler}]
                      /\ mux[s] \in [Key -> muxEntry]
                      /\ redirectsHaveTargets(mux[s])
                      /\ staticHandler(s) \in UriHandler
                      /\ makeKey(staticHandler(s).method, staticHandler(s).pattern) = key
  BY StaticHandlerType DEF MapsInv, RedirectHasTarget, staticHandler
<1>h. handlers' = [s \in Side |->
        IF registersStatic(s, c)
          THEN [handlers[s] EXCEPT ![key] = staticHandler(s)]
          ELSE handlers[s]]
  BY DEF Configure
<1>m. mux' = [s \in Side |->
        IF registersStatic(s, c) THEN Handle(mux[s], staticHandler(s)) ELSE mux[s]]
  BY DEF Configure
<1>p. \A s \in Side : registersStatic(s, c) => ~HandlePanics(mux[s], staticHandler(s))
  BY DEF configurePanics
<1>2. handlers' \in [Side -> [Key -> UriHandler \cup {nilHandler}]]
  BY <1>1, <1>h
<1>3. mux' \in [Side -> [Key -> muxEntry]]
  BY <1>1, <1>m, HandleType
<1>4. RegistryMatchesMux'
  <2> SUFFICES ASSUME NEW s \in Side, NEW k \in Key
               PROVE  (handlers'[s][k] # nilHandler) <=> mux'[s][k].explicit
    BY DEF RegistryMatchesMux
  <2>0. (handlers[s][k] # nilHandler) <=> mux[s][k].explicit
    BY DEF MapsInv, RegistryMatchesMux
  <2>1. CASE ~registersStatic(s, c)
    BY <1>h, <1>m, <2>0, <2>1
  <2>2. CASE registersStatic(s, c)
    <3>1. mux'[s] = Handle(mux[s], staticHandler(s))
      BY <1>m, <2>2
    <3>2. handlers'[s] = [handlers[s] EXCEPT ![key] = staticHandler(s)]
      BY <1>h, <2>2
    <3>3. CASE k = key
      <4>1. mux'[s][k].explicit
        BY <1>1, <1>p, <2>2, <3>1, <3>3, HandleEffect
      <4>2. handlers'[s][k] = staticHandler(s)
        BY <1>1, <3>2, <3>3
      <4> QED
        BY <1>1, <4>1, <4>2, HandlerNotNil
    <3>4. CASE k # key
      <4>1. mux'[s][k].explicit <=> mux[s][k].explicit
        BY <1>1, <1>p, <2>2, <3>1, <3>4, HandleEffect
      <4>2. handlers'[s][k] = handlers[s][k]
        BY <1>1, <3>2, <3>4
      <4> QED
        BY <2>0, <4>1, <4>2
    <3> QED
      BY <3>3, <3>4
  <2> QED
    BY <2>1, <2>2
<1>5. RedirectHasTarget'
  <2> SUFFICES ASSUME NEW s \in Side
               PROVE  redirectsHaveTargets(mux'[s])
    BY DEF RedirectHasTarget, redirectsHaveTargets
  <2> QED
    BY <1>1, <1>m, <1>p, HandleRedirects
<1>6. ExplicitServes'
  <2> SUFFICES ASSUME NEW s \in Side
               PROVE  serves(mux'[s])
    BY DEF ExplicitServes, serves
  <2>1. mux'[s] = mux[s] \/ mux'[s] = Handle(mux[s], staticHandler(s))
    BY <1>m
  <2> QED
    BY <1>1, <2>1, HandleServes DEF MapsInv, ExplicitServes
<1> QED
  BY <1>2, <1>3, <1>4, <1>5, <1>6 DEF MapsInv

(***************************************************************************)
(* Configure keeps the listeners on their sides and the sockets in their   *)
(* maps: what a side closes it owned, and what it opens it records.        *)
(***************************************************************************)
LEMMA ConfigureKeepsListeners ==
  ASSUME SrvTypeOK, SideSeparation, SocketsOwned,
         NEW c \in Configs, NEW force, NEW taken, Configure(c, force, taken)
  PROVE  /\ srv' \in Srv
         /\ listeners' \in [Side -> [Bind -> Listener]]
         /\ sockets' \in SUBSET Bind
         /\ failed' \in [Side -> SUBSET Bind]
         /\ SideSeparation'
         /\ SocketsOwned'
<1> DEFINE sv == configured(c)
           R == {s \in Side : restarts(s, c, force)}
           freed(s) == IF s \in R THEN released(s, sv) ELSE {}
           held1 == taken \cup (sockets \ freed("private"))
           up(s, held) == IF s \in R
                            THEN httpUp(s, sv, held) \cup TLSUp(s, sv, held)
                            ELSE {}
           held2 == (held1 \ freed("public")) \cup up("private", held1)
           hld(s) == IF s = "private" THEN held1 ELSE held2
           U(s) == up(s, hld(s))
<1>s. "private" \in Side /\ "public" \in Side /\ Side = {"private", "public"}
  BY DEF Side
<1>1. sv \in Srv
  BY ConfiguredType
<1>2. srv' = sv
  BY DEF Configure
<1>3. \A s \in Side : listeners'[s] =
        IF s \in R THEN restarted(s, sv, hld(s)) ELSE listeners[s]
  BY DEF Configure
<1>4. sockets' = (sockets \ (freed("private") \cup freed("public")))
                   \cup U("private") \cup U("public")
  BY <1>s DEF Configure
<1>5. listeners' \in [Side -> [Bind -> Listener]]
  <2>1. \A s \in Side : listeners'[s] \in [Bind -> Listener]
    BY <1>1, <1>3, RestartEffect DEF SrvTypeOK
  <2> QED
    BY <2>1 DEF Configure
<1>6. \A s \in Side : U(s) \subseteq want(s, sv, localAddrs)
  BY <1>1, RestartEffect
<1>7. \A s \in Side : want(s, sv, localAddrs) \subseteq Bind
  BY <1>1, WantSides DEF SrvTypeOK
<1>8. sockets' \in SUBSET Bind
  BY <1>s, <1>4, <1>6, <1>7 DEF SrvTypeOK
<1>9. failed' \in [Side -> SUBSET Bind]
  <2>1. \A s \in Side : restartFails(s, sv, hld(s)) \subseteq Bind
    BY <1>1, <1>7, WantSides DEF restartFails, httpNew, TLSNew, SrvTypeOK
  <2> QED
    BY <2>1 DEF Configure, SrvTypeOK
<1>10. SideSeparation'
  <2>1. ASSUME NEW s \in Side, NEW b \in Bind, listeners'[s][b].state # "none"
        PROVE  b \in inMap(s) \/ b \in want(s, sv, localAddrs)
    <3>1. CASE s \in R
      BY <1>1, <1>3, <2>1, <3>1, RestartEffect
    <3>2. CASE s \notin R
      BY <1>3, <2>1, <3>2 DEF inMap
    <3> QED
      BY <3>1, <3>2
  <2>2. /\ \A b \in want("private", sv, localAddrs) : b[1] \in PrivateNet
        /\ \A b \in want("public", sv, localAddrs) : b[1] \notin PrivateNet
    BY <1>s, <1>1, WantSides DEF SrvTypeOK
  <2> QED
    BY <1>s, <2>1, <2>2 DEF SideSeparation, inMap
<1>11. \A s \in Side : openOf(s)' = (openOf(s) \ freed(s)) \cup U(s)
  <2>0. \A s \in Side : U(s) \subseteq Bind
    BY <1>6, <1>7
  <2> SUFFICES ASSUME NEW s \in Side, NEW b \in Bind
               PROVE  listeners'[s][b].state = "open" <=>
                        (b \in openOf(s) /\ b \notin freed(s)) \/ b \in U(s)
    <3> HIDE DEF U, freed
    <3> QED
      BY <2>0 DEF openOf
  <2>1. CASE s \in R
    <3>1. listeners'[s] = restarted(s, sv, hld(s))
      BY <1>3, <2>1
    <3>2. U(s) = httpUp(s, sv, hld(s)) \cup TLSUp(s, sv, hld(s))
          /\ freed(s) = released(s, sv)
      BY <2>1
    <3> HIDE DEF hld, U, freed, R, sv
    <3>3. restarted(s, sv, hld(s))[b].state = "open" <=>
            (b \in httpUp(s, sv, hld(s)) \cup TLSUp(s, sv, hld(s))
               \/ (b \in openOf(s) /\ b \notin released(s, sv)))
      BY <1>1, RestartEffect
    <3> QED
      BY <3>1, <3>2, <3>3
  <2>2. CASE s \notin R
    BY <1>3, <2>2 DEF openOf
  <2> QED
    BY <2>1, <2>2
<1>12. \A s \in Side : freed(s) \subseteq openOf(s)
  BY DEF released
<1>13. SocketsOwned'
  <2>1. sockets' = openOf("private")' \cup openOf("public")'
    BY <1>s, <1>4, <1>11, <1>12 DEF SocketsOwned
  <2>2. (openOf("private") \cap openOf("public"))' = {}
    BY <1>10 DEF SideSeparation, inMap, openOf
  <2> QED
    BY <2>1, <2>2 DEF SocketsOwned
<1> QED
  BY <1>1, <1>2, <1>5, <1>8, <1>9, <1>10, <1>13

-----------------------------------------------------------------------------
(* The specification. *)

(***************************************************************************)
(* The part of SInv that a cfgNet can disturb.                             *)
(***************************************************************************)
NetInv ==
  /\ MapsInv
  /\ srv \in Srv
  /\ listeners \in [Side -> [Bind -> Listener]]
  /\ sockets \in SUBSET Bind
  /\ failed \in [Side -> SUBSET Bind]
  /\ panicked \in BOOLEAN
  /\ SideSeparation
  /\ SocketsOwned

(***************************************************************************)
(* cfgNet keeps that part, whether it returns early, panics or configures. *)
(***************************************************************************)
LEMMA CfgNetKeeps ==
  ASSUME SInv, NEW force, cfgNet(force)
  PROVE  NetInv'
<1>1. SrvTypeOK /\ MapsInv /\ SideSeparation /\ SocketsOwned /\ cfg \in Configs
      /\ panicked \in BOOLEAN
  BY DEF SInv, SrvTypeOK
<1>2. CASE UNCHANGED <<handlers, mux, srv, listeners, sockets, failed>>
           /\ panicked' \in BOOLEAN
  BY <1>1, <1>2 DEF NetInv, SrvTypeOK, MapsInv, RegistryMatchesMux,
     RedirectHasTarget, redirectsHaveTargets, ExplicitServes, serves,
     SideSeparation, SocketsOwned,
     inMap, openOf
<1>3. ASSUME ~configurePanics(cfg), NEW taken \in TakenSets,
             Configure(cfg, force, taken)
      PROVE  NetInv'
  <2>1. MapsInv'
    BY <1>1, <1>3, ConfigureKeepsMaps
  <2>2. panicked' \in BOOLEAN
    BY <1>1, <1>3 DEF Configure
  <2> QED
    BY <1>1, <1>3, <2>1, <2>2, ConfigureKeepsListeners DEF NetInv
<1> QED
  BY <1>1, <1>2, <1>3 DEF cfgNet

(***************************************************************************)
(* The initial states satisfy SInv.                                        *)
(***************************************************************************)
LEMMA InitSInv == Init => SInv
<1> SUFFICES ASSUME Init PROVE SInv
  OBVIOUS
<1>1. MapsInv /\ HandlersTypeOK
  BY InitHInv DEF Init, HInit, MapsInv, HandlersTypeOK
<1>2. noListener \in Listener /\ noListener.state = "none"
  BY SrvAssumption DEF noListener, Listener, noCert
<1>3. srv \in Srv
  BY SrvAssumption DEF Init, Srv, noCert
<1>4. SrvTypeOK
  BY <1>1, <1>2, <1>3, SrvAssumption DEF Init, SrvTypeOK, found
<1>5. \A s \in Side : inMap(s) = {} /\ openOf(s) = {}
  BY <1>2 DEF Init, inMap, openOf
<1>6. SideSeparation /\ SocketsOwned
  BY <1>5 DEF Init, SideSeparation, SocketsOwned, Side
<1> QED
  BY <1>1, <1>4, <1>6 DEF SInv

(***************************************************************************)
(* A listener that is closed but stays in its map (HttpSrv.Shutdown, a     *)
(* Serve that fails) keeps sides and sockets in order.                     *)
(***************************************************************************)
LEMMA CloseKeeps ==
  ASSUME SInv, NEW D \in SUBSET Bind,
         sockets' = sockets \ D,
         listeners' \in [Side -> [Bind -> Listener]],
         \A s \in Side, b \in Bind :
           IF b \in openOf(s) /\ b \in D
             THEN listeners'[s][b].state = "closing"
             ELSE listeners'[s][b] = listeners[s][b]
  PROVE  SideSeparation' /\ SocketsOwned' /\ sockets' \in SUBSET Bind
<1>s. "private" \in Side /\ "public" \in Side
  BY DEF Side
<1>1. \A s \in Side : inMap(s)' = inMap(s) /\ openOf(s)' = openOf(s) \ D
  BY DEF inMap, openOf
<1>2. SideSeparation /\ SocketsOwned /\ sockets \in SUBSET Bind
  BY DEF SInv, SrvTypeOK
<1>3. SideSeparation'
  <2>1. inMap("private")' = inMap("private") /\ inMap("public")' = inMap("public")
    BY <1>s, <1>1
  <2> QED
    BY <1>2, <2>1 DEF SideSeparation
<1>4. SocketsOwned'
  <2>1. /\ openOf("private")' = openOf("private") \ D
        /\ openOf("public")' = openOf("public") \ D
    BY <1>s, <1>1
  <2> QED
    BY <1>2, <2>1 DEF SocketsOwned
<1> QED
  BY <1>2, <1>3, <1>4

(***************************************************************************)
(* Every step keeps SInv.                                                  *)
(***************************************************************************)
LEMMA NextSInv == SInv /\ [Next]_vars => SInv'
<1> SUFFICES ASSUME SInv, [Next]_vars PROVE SInv'
  OBVIOUS
<1>0. /\ SrvTypeOK /\ MapsInv /\ SideSeparation /\ SocketsOwned
      /\ initPos \in Nat /\ ops \in Nat
  BY DEF SInv, SrvTypeOK, HandlersTypeOK
<1>f. found \in SUBSET Addr
  BY DEF found
<1> DEFINE Rest ==
      /\ initPos \in Nat /\ ops \in Nat /\ localAddrs \in SUBSET Addr
      /\ ifaces \in [Addr -> 0..MaxDup] /\ cfg \in Configs
      /\ pending \in SUBSET {0, 1} /\ monitor \in {"wait", "changed", "exited"}
      /\ phase \in {"run", "httpDown", "signalled", "netDown", "down"}
      /\ env \in Nat
<1>a. Rest
  BY <1>0 DEF SrvTypeOK
<1>b. NetInv' /\ Rest' => SInv'
  BY DEF NetInv, SInv, SrvTypeOK, HandlersTypeOK, MapsInv
<1>c. (/\ UNCHANGED <<handlers, mux, srv, listeners, sockets, failed>>
       /\ (UNCHANGED panicked \/ panicked' = TRUE)) => NetInv'
  <2> SUFFICES ASSUME UNCHANGED <<handlers, mux, srv, listeners, sockets, failed>>,
                      UNCHANGED panicked \/ panicked' = TRUE
               PROVE  NetInv'
    OBVIOUS
  <2>1. panicked' \in BOOLEAN
    BY <1>0 DEF SrvTypeOK
  <2>2. MapsInv' /\ SideSeparation' /\ SocketsOwned'
    BY <1>0 DEF MapsInv, RegistryMatchesMux, RedirectHasTarget, redirectsHaveTargets,
       ExplicitServes, serves, SideSeparation, SocketsOwned, inMap, openOf
  <2> QED
    BY <1>0, <2>1, <2>2 DEF NetInv, SrvTypeOK
<1>1. CASE EditConfig
  BY <1>1, <1>a, <1>b, <1>c DEF EditConfig, rvars
<1>2. CASE IfaceChange
  <2>1. Rest'
    BY <1>2, <1>a DEF IfaceChange, rvars
  <2> QED
    BY <1>2, <1>b, <1>c, <2>1 DEF IfaceChange, rvars
<1>3. CASE ServeFails
  <2>0. PICK s \in Side : \E b \in openOf(s) :
          /\ listeners' = [listeners EXCEPT ![s][b].state = "closing"]
          /\ sockets' = sockets \ {b}
    BY <1>3 DEF ServeFails
  <2>1. PICK b \in openOf(s) :
          /\ listeners' = [listeners EXCEPT ![s][b].state = "closing"]
          /\ sockets' = sockets \ {b}
    BY <2>0
  <2>2. b \in Bind /\ {b} \in SUBSET Bind
    BY DEF openOf
  <2>3. listeners \in [Side -> [Bind -> Listener]]
    BY <1>0 DEF SrvTypeOK
  <2>4. listeners' \in [Side -> [Bind -> Listener]]
    BY <2>1, <2>2, <2>3 DEF Listener
  <2>5. \A t \in Side, d \in Bind : (t # s \/ d # b) => listeners'[t][d] = listeners[t][d]
    BY <2>1, <2>2, <2>3
  <2>6. listeners'[s][b].state = "closing"
    BY <2>1, <2>2, <2>3 DEF Listener
  <2>7. \A t \in Side : t # s => b \notin openOf(t)
    BY <1>0 DEF SocketsOwned, Side
  <2>8. SideSeparation' /\ SocketsOwned' /\ sockets' \in SUBSET Bind
    <3>1. \A t \in Side, d \in Bind :
            IF d \in openOf(t) /\ d \in {b}
              THEN listeners'[t][d].state = "closing"
              ELSE listeners'[t][d] = listeners[t][d]
      BY <2>5, <2>6, <2>7
    <3> QED
      BY <2>1, <2>2, <2>4, <3>1, CloseKeeps
  <2>9. MapsInv'
    BY <1>0, <1>3 DEF ServeFails, rvars, MapsInv, RegistryMatchesMux,
       RedirectHasTarget, redirectsHaveTargets, ExplicitServes, serves
  <2>10. NetInv'
    BY <1>0, <1>3, <2>4, <2>8, <2>9 DEF ServeFails, NetInv, SrvTypeOK
  <2> QED
    BY <1>3, <1>a, <1>b, <2>10 DEF ServeFails, rvars
<1>4. ASSUME NEW n \in {0, 1}, onCfgChange(n) PROVE SInv'
  <2>1. NetInv'
    BY <1>4, CfgNetKeeps DEF onCfgChange
  <2> QED
    BY <1>4, <1>a, <1>b, <2>1 DEF onCfgChange
<1>5. CASE MonitorTick \/ EnumFails
  BY <1>5, <1>a, <1>b, <1>c, <1>f DEF MonitorTick, EnumFails, rvars
<1>6. CASE MonitorCfg
  <2>1. NetInv'
    BY <1>6, CfgNetKeeps DEF MonitorCfg
  <2> QED
    BY <1>6, <1>a, <1>b, <2>1 DEF MonitorCfg
<1>7. CASE MonitorExit
  BY <1>7, <1>a, <1>b, <1>c DEF MonitorExit, rvars
<1>8. CASE Shutdown
  <2>1. listeners \in [Side -> [Bind -> Listener]]
    BY <1>0 DEF SrvTypeOK
  <2> DEFINE D == openOf("private") \cup openOf("public")
  <2>2. D \in SUBSET Bind
    BY DEF openOf
  <2>c. \A l \in Listener : /\ [l EXCEPT !.state = "closing"] \in Listener
                             /\ [l EXCEPT !.state = "closing"].state = "closing"
    BY DEF Listener
  <2>3. \A s \in Side, b \in Bind :
          IF b \in openOf(s)
            THEN listeners'[s][b] = [listeners[s][b] EXCEPT !.state = "closing"]
            ELSE listeners'[s][b] = listeners[s][b]
    BY <1>8 DEF Shutdown
  <2>4. listeners' \in [Side -> [Bind -> Listener]]
    <3>1. ASSUME NEW s \in Side, NEW b \in Bind PROVE listeners'[s][b] \in Listener
      BY <2>1, <2>3, <2>c
    <3> QED
      BY <1>8, <3>1 DEF Shutdown
  <2>5. SideSeparation' /\ SocketsOwned' /\ sockets' \in SUBSET Bind
    <3>1. ASSUME NEW s \in Side, NEW b \in Bind
          PROVE  IF b \in openOf(s) /\ b \in D
                   THEN listeners'[s][b].state = "closing"
                   ELSE listeners'[s][b] = listeners[s][b]
      <4>1. b \in openOf(s) => b \in D
        BY DEF Side
      <4>2. listeners[s][b] \in Listener
        BY <2>1
      <4> QED
        BY <2>3, <2>c, <4>1, <4>2
    <3>2. sockets' = sockets \ D
      BY <1>8 DEF Shutdown
    <3> QED
      BY <2>2, <2>4, <3>1, <3>2, CloseKeeps
  <2>6. MapsInv'
    BY <1>0, <1>8 DEF Shutdown, rvars, MapsInv, RegistryMatchesMux,
       RedirectHasTarget, redirectsHaveTargets, ExplicitServes, serves
  <2>7. NetInv'
    BY <1>0, <1>8, <2>4, <2>5, <2>6 DEF Shutdown, NetInv, SrvTypeOK
  <2> QED
    BY <1>8, <1>a, <1>b, <2>7 DEF Shutdown, rvars
<1>9. CASE SignalMonitor
  BY <1>9, <1>a, <1>b, <1>c DEF SignalMonitor, rvars
<1>10. CASE WaitMonitor
  BY <1>10, <1>a, <1>b, <1>c DEF WaitMonitor, rvars
<1>11. CASE IniShutdown
  BY <1>11, <1>a, <1>b, <1>c DEF IniShutdown, rvars
<1>d. (MapsInv' /\ initPos' \in Nat /\ ops' \in Nat /\ UNCHANGED svars) => SInv'
  <2> SUFFICES ASSUME MapsInv', initPos' \in Nat, ops' \in Nat, UNCHANGED svars
               PROVE  SInv'
    OBVIOUS
  <2>1. NetInv'
    BY <1>0 DEF svars, NetInv, SrvTypeOK, SideSeparation, SocketsOwned, inMap, openOf
  <2> QED
    BY <1>a, <1>b, <2>1 DEF svars
<1>12. CASE AppRegister
  <2>1. PICK r \in RegChoice : RegisterHandler(r)
    BY <1>12 DEF AppRegister
  <2>2. r.u \in UriHandler /\ r.type \in HandlerType
    BY RegAssumption DEF Reg
  <2>3. MapsInv'
    BY <1>0, <2>1, <2>2, RegisterKeepsMaps DEF RegisterHandler
  <2> QED
    BY <1>0, <1>12, <1>d, <2>1, <2>3 DEF AppRegister, RegisterHandler
<1>13. CASE AppRemove
  <2>1. PICK method \in Method, path \in Path : RemoveHandler(method, path)
    BY <1>13 DEF AppRemove
  <2>2. MapsInv'
    BY <1>0, <2>1, RemoveKeepsMaps DEF RemoveHandler
  <2> QED
    BY <1>0, <1>13, <1>d, <2>1, <2>2 DEF AppRemove, RemoveHandler
<1>14. CASE UNCHANGED vars
  BY <1>14, <1>a, <1>b, <1>c DEF vars, rvars, svars
<1> QED
  BY <1>1, <1>2, <1>3, <1>4, <1>5, <1>6, <1>7, <1>8, <1>9, <1>10, <1>11, <1>12,
     <1>13, <1>14 DEF Next

(***************************************************************************)
(* Every reachable state of the server satisfies SInv.                     *)
(***************************************************************************)
THEOREM SrvInvariant == Spec => []SInv
BY InitSInv, NextSInv, PTL DEF Spec

(***************************************************************************)
(* The type invariant of the server.                                       *)
(***************************************************************************)
THEOREM SrvTypeCorrect == Spec => []SrvTypeOK
BY SrvInvariant, PTL DEF SInv

(***************************************************************************)
(* The admin side is never bound to a public address, nor the public side  *)
(* to a private one.                                                       *)
(***************************************************************************)
THEOREM SidesSeparated == Spec => []SideSeparation
BY SrvInvariant, PTL DEF SInv

(***************************************************************************)
(* The process never loses track of a listening socket.                    *)
(***************************************************************************)
THEOREM SocketsNeverLost == Spec => []SocketsOwned
BY SrvInvariant, PTL DEF SInv

-----------------------------------------------------------------------------
(* No stale listener. *)

(***************************************************************************)
(* The strengthening of NothingStale: the addresses of the maps can only   *)
(* be stale while the monitor owes a restart, and the ports never are.     *)
(***************************************************************************)
FreshInv ==
  /\ ~InitSrv => \A s \in Side : inMap(s) = {}
  /\ (~panicked /\ monitor # "changed") =>
       \A s \in Side : \A b \in inMap(s) : b[1] \in localAddrs
  /\ \A s \in Side : \A b \in inMap(s) : b[2] \in {srv.port[s], srv.tlsPort[s]}

(***************************************************************************)
(* Wanted binds are on the given addresses and on the side's ports.        *)
(***************************************************************************)
LEMMA WantFresh ==
  ASSUME NEW sv, NEW addrs, NEW s \in Side, NEW b \in want(s, sv, addrs)
  PROVE  b[1] \in addrs /\ b[2] \in {sv.port[s], sv.tlsPort[s]}
<1>1. sideAddrs(s, sv, addrs) \subseteq addrs
  BY DEF sideAddrs
<1> QED
  BY <1>1 DEF want, httpList, TLSList

(***************************************************************************)
(* Where the entries of a side come from after Configure: the side was     *)
(* restarted and wants them, or it was not, had them already and kept its  *)
(* ports.                                                                  *)
(***************************************************************************)
LEMMA ConfigureSources ==
  ASSUME SrvTypeOK, NEW c \in Configs, NEW force, NEW taken,
         Configure(c, force, taken), NEW s \in Side, NEW b \in inMap(s)'
  PROVE  \/ b \in want(s, srv', localAddrs)
         \/ /\ ~force /\ b \in inMap(s)
            /\ srv'.port[s] = srv.port[s] /\ srv'.tlsPort[s] = srv.tlsPort[s]
<1> DEFINE sv == configured(c)
<1>1. sv \in Srv /\ srv' = sv
  BY ConfiguredType DEF Configure
<1>2. sv.port[s] = c.port[s] /\ sv.tlsPort[s] = c.tlsPort[s]
  BY DEF configured
<1>3. b \in Bind /\ listeners'[s][b].state # "none"
  BY DEF inMap
<1>4. CASE restarts(s, c, force)
  <2>1. \E held : listeners'[s] = restarted(s, sv, held)
    BY <1>4 DEF Configure
  <2> QED
    BY <1>1, <1>3, <2>1, RestartEffect
<1>5. CASE ~restarts(s, c, force)
  <2>1. listeners'[s] = listeners[s]
    BY <1>5 DEF Configure
  <2> QED
    BY <1>1, <1>2, <1>3, <1>5, <2>1 DEF restarts, inMap
<1> QED
  BY <1>4, <1>5

(***************************************************************************)
(* An enumeration that loses a known address counts a change.              *)
(***************************************************************************)
LEMMA RemovalNoticed ==
  ASSUME SrvTypeOK, NEW a \in localAddrs, a \notin found
  PROVE  changeCount > 0
<1> DEFINE S == {x \in Addr :
      (IF x \in localAddrs THEN ifaces[x] - 1 ELSE ifaces[x]) \in {-1, 1}}
<1>1. a \in S
  <2>1. a \in Addr /\ ifaces[a] \in 0..MaxDup /\ MaxDup \in Nat
    BY SrvAssumption DEF SrvTypeOK
  <2>2. ifaces[a] = 0
    BY <2>1 DEF found
  <2> QED
    BY <2>1, <2>2
<1>2. IsFiniteSet(S)
  BY SrvAssumption, FS_Subset
<1>3. Cardinality(S) \in Nat /\ Cardinality(S) # 0
  BY <1>1, <1>2, FS_CardinalityType, FS_EmptySet
<1> QED
  BY <1>3 DEF changeCount

(***************************************************************************)
(* cfgNet keeps the ports fresh, and a forced one the addresses as well.   *)
(***************************************************************************)
LEMMA CfgNetFresh ==
  ASSUME SInv, FreshInv, NEW force \in BOOLEAN, cfgNet(force), ~panicked
  PROVE  /\ ~InitSrv => \A s \in Side : inMap(s)' = {}
         /\ \A s \in Side : \A b \in inMap(s)' :
              b[2] \in {srv'.port[s], srv'.tlsPort[s]}
         /\ (~panicked' /\ (force \/ monitor # "changed")) =>
              \A s \in Side : \A b \in inMap(s)' : b[1] \in localAddrs
<1>0. SrvTypeOK /\ cfg \in Configs
  BY DEF SInv, SrvTypeOK
<1>1. CASE ~InitSrv
  <2>1. UNCHANGED <<srv, listeners, panicked>>
    BY <1>1 DEF cfgNet
  <2>2. \A s \in Side : inMap(s)' = {}
    BY <1>1, <2>1 DEF FreshInv, inMap
  <2> QED
    BY <2>2
<1>2. CASE InitSrv /\ configurePanics(cfg)
  <2>1. panicked' /\ UNCHANGED <<srv, listeners>>
    BY <1>2 DEF cfgNet
  <2> QED
    BY <1>2, <2>1 DEF FreshInv, inMap
<1>3. CASE InitSrv /\ ~configurePanics(cfg)
  <2>1. PICK taken \in TakenSets : Configure(cfg, force, taken)
    BY <1>3 DEF cfgNet
  <2>2. ASSUME NEW s \in Side, NEW b \in inMap(s)'
        PROVE  /\ b[2] \in {srv'.port[s], srv'.tlsPort[s]}
               /\ (force \/ monitor # "changed") => b[1] \in localAddrs
    <3>1. CASE b \in want(s, srv', localAddrs)
      BY <3>1, WantFresh
    <3>2. CASE /\ ~force /\ b \in inMap(s)
               /\ srv'.port[s] = srv.port[s] /\ srv'.tlsPort[s] = srv.tlsPort[s]
      BY <3>2 DEF FreshInv
    <3> QED
      BY <1>0, <2>1, <3>1, <3>2, ConfigureSources
  <2> QED
    BY <1>3, <2>2
<1> QED
  BY <1>1, <1>2, <1>3

(***************************************************************************)
(* Every step keeps FreshInv.                                              *)
(***************************************************************************)
LEMMA NextFresh == SInv /\ FreshInv /\ [Next]_vars => FreshInv'
<1> SUFFICES ASSUME SInv, FreshInv, [Next]_vars PROVE FreshInv'
  OBVIOUS
<1>0. SrvTypeOK
  BY DEF SInv
<1>a. ASSUME \A s \in Side : inMap(s)' = inMap(s),
             UNCHANGED <<srv, localAddrs, panicked>>,
             monitor' = monitor \/ (monitor = "wait" /\ monitor' = "exited")
      PROVE  FreshInv'
  BY <1>a DEF FreshInv
<1>b. (UNCHANGED listeners) => \A s \in Side : inMap(s)' = inMap(s)
  BY DEF inMap
<1>1. CASE EditConfig
  BY <1>1, <1>a, <1>b DEF EditConfig
<1>2. CASE IfaceChange
  BY <1>2, <1>a, <1>b DEF IfaceChange
<1>3. CASE ServeFails
  <2>0. PICK s \in Side : \E b \in openOf(s) :
          listeners' = [listeners EXCEPT ![s][b].state = "closing"]
    BY <1>3 DEF ServeFails
  <2>1. PICK b \in openOf(s) :
          listeners' = [listeners EXCEPT ![s][b].state = "closing"]
    BY <2>0
  <2>2. listeners \in [Side -> [Bind -> Listener]] /\ b \in Bind
    BY <1>0 DEF SrvTypeOK, openOf
  <2>3. listeners[s][b].state = "open" /\ listeners'[s][b].state = "closing"
    BY <2>1, <2>2 DEF openOf, Listener
  <2>4. \A t \in Side, d \in Bind :
          (t # s \/ d # b) => listeners'[t][d] = listeners[t][d]
    BY <2>1, <2>2
  <2>5. \A t \in Side : inMap(t)' = inMap(t)
    BY <2>3, <2>4 DEF inMap
  <2> QED
    BY <1>3, <1>a, <2>5 DEF ServeFails
<1>4. ASSUME NEW n \in {0, 1}, onCfgChange(n) PROVE FreshInv'
  <2>1. cfgNet(n = 0) /\ ~panicked /\ UNCHANGED <<monitor, localAddrs>>
    BY <1>4 DEF onCfgChange
  <2>2. (n = 0) \in BOOLEAN
    OBVIOUS
  <2> QED
    BY <2>1, <2>2, CfgNetFresh DEF FreshInv
<1>5. CASE MonitorTick \/ EnumFails
  <2>1. \A s \in Side : inMap(s)' = inMap(s)
    BY <1>5, <1>b DEF MonitorTick, EnumFails
  <2>2. CASE localAddrs \subseteq found
    BY <1>5, <2>1, <2>2 DEF MonitorTick, EnumFails, FreshInv
  <2>3. CASE ~(localAddrs \subseteq found)
    <3>1. changeCount > 0
      BY <1>0, <2>3, RemovalNoticed
    <3> QED
      BY <1>5, <2>1, <3>1 DEF MonitorTick, EnumFails, FreshInv
  <2> QED
    BY <2>2, <2>3
<1>6. CASE MonitorCfg
  <2>1. cfgNet(TRUE) /\ ~panicked /\ UNCHANGED localAddrs
    BY <1>6 DEF MonitorCfg
  <2> QED
    BY <2>1, CfgNetFresh DEF FreshInv
<1>7. CASE MonitorExit
  BY <1>7, <1>a, <1>b DEF MonitorExit
<1>8. CASE Shutdown
  <2>1. \A s \in Side : inMap(s)' = inMap(s)
    <3> SUFFICES ASSUME NEW s \in Side, NEW b \in Bind
                 PROVE  listeners'[s][b].state # "none"
                          <=> listeners[s][b].state # "none"
      BY DEF inMap
    <3>1. listeners[s][b] \in Listener
      BY <1>0 DEF SrvTypeOK
    <3>2. CASE b \in openOf(s)
      <4>1. listeners'[s][b] = [listeners[s][b] EXCEPT !.state = "closing"]
        BY <1>8, <3>2 DEF Shutdown
      <4> QED
        BY <3>1, <3>2, <4>1 DEF openOf, Listener
    <3>3. CASE b \notin openOf(s)
      BY <1>8, <3>3 DEF Shutdown
    <3> QED
      BY <3>2, <3>3
  <2> QED
    BY <1>8, <1>a, <2>1 DEF Shutdown
<1>9. CASE SignalMonitor \/ WaitMonitor \/ IniShutdown
  BY <1>9, <1>a, <1>b DEF SignalMonitor, WaitMonitor, IniShutdown
<1>10. CASE AppRegister \/ AppRemove
  BY <1>10, <1>a, <1>b DEF AppRegister, AppRemove, svars
<1>11. CASE UNCHANGED vars
  BY <1>11, <1>a, <1>b DEF vars, svars
<1> QED
  BY <1>1, <1>2, <1>3, <1>4, <1>5, <1>6, <1>7, <1>8, <1>9, <1>10, <1>11 DEF Next

(***************************************************************************)
(* When no reconfiguration is owed, no listener sits on an address the     *)
(* machine has lost or on a port its side no longer has.                   *)
(***************************************************************************)
THEOREM NoStaleListeners == Spec => []NothingStale
<1>1. Init => FreshInv
  BY DEF Init, FreshInv, inMap, noListener
<1>2. FreshInv => NothingStale
  BY DEF FreshInv, NothingStale, quiet
<1> QED
  BY <1>1, <1>2, NextFresh, SrvInvariant, PTL DEF Spec

(***************************************************************************)
(* A registered path is served by its own handler, while Configure adds    *)
(* static handlers to the application's.                                   *)
(***************************************************************************)
THEOREM RoutedUnderReconfiguration == Spec => []RegisteredIsRouted
<1>1. SInv => RegisteredIsRouted
  BY MapsRoute DEF SInv
<1> QED
  BY <1>1, SrvInvariant, PTL

-----------------------------------------------------------------------------
(***************************************************************************)
(* Covered.  It needs two conditions, without which it fails: the machine  *)
(* lists an address at most once (netEnumAddrs takes a new address that is *)
(* listed twice for an old one), and the ini files agree on the ignore     *)
(* list (Configure restarts nothing for it).  CoverInv says what holds as  *)
(* long as no forced restart is owed: by the first notification, or by a   *)
(* monitor that has seen a change.                                         *)
(***************************************************************************)
ListedOnce == MaxDup = 1
OneIgnoreList == \A c, d \in Configs : c.ignore = d.ignore

CoverInv ==
  (InitSrv /\ phase = "run" /\ ~panicked /\ 0 \notin pending) =>
    /\ srv.ignore = cfg.ignore
    /\ monitor # "changed" => \A s \in Side :
         want(s, srv, localAddrs) \subseteq inMap(s) \cup failed[s]

(***************************************************************************)
(* What a restart does with a bind it wants: it is in the map afterwards,  *)
(* or among those that were refused.                                       *)
(***************************************************************************)
LEMMA RestartCovers ==
  ASSUME SrvTypeOK, NEW s \in Side, NEW sv \in Srv, NEW held,
         NEW b \in want(s, sv, localAddrs)
  PROVE  \/ restarted(s, sv, held)[b].state # "none"
         \/ b \in restartFails(s, sv, held)
<1>0. localAddrs \in SUBSET Addr
  BY DEF SrvTypeOK
<1>1. b \in Bind
  BY <1>0, WantSides
<1>2. CASE b \in TLSUp(s, sv, held) \cup httpUp(s, sv, held)
  BY <1>1, <1>2 DEF restarted, opened
<1>3. CASE b \notin TLSUp(s, sv, held) \cup httpUp(s, sv, held)
  <2>1. CASE b \in inMap(s)
    <3>1. b \in kept(s, sv)
      BY <2>1 DEF kept
    <3>2. restarted(s, sv, held)[b] = listeners[s][b]
      BY <1>1, <1>3, <3>1 DEF restarted
    <3> QED
      BY <2>1, <3>2 DEF inMap
  <2>2. CASE b \notin inMap(s)
    <3>1. b \in httpNew(s, sv) \cup TLSNew(s, sv)
      BY <2>2 DEF want, httpNew, TLSNew
    <3> QED
      BY <1>3, <3>1 DEF restartFails
  <2> QED
    BY <2>1, <2>2
<1> QED
  BY <1>2, <1>3

(***************************************************************************)
(* After Configure a side covers what it wants, unless the side was not    *)
(* restarted and did not cover it before.                                  *)
(***************************************************************************)
LEMMA ConfigureCovers ==
  ASSUME SrvTypeOK, NEW c \in Configs, NEW force, NEW taken,
         Configure(c, force, taken), NEW s \in Side,
         force \/ (/\ srv.ignore = c.ignore
                   /\ want(s, srv, localAddrs) \subseteq inMap(s) \cup failed[s])
  PROVE  want(s, srv', localAddrs) \subseteq inMap(s)' \cup failed'[s]
<1> DEFINE sv == configured(c)
<1>0. localAddrs \in SUBSET Addr
  BY DEF SrvTypeOK
<1>1. sv \in Srv /\ srv' = sv
  BY ConfiguredType DEF Configure
<1>2. /\ sv.port[s] = c.port[s] /\ sv.tlsPort[s] = c.tlsPort[s]
      /\ sv.ignore = c.ignore
  BY DEF configured
<1>3. CASE restarts(s, c, force)
  <2>1. PICK held : /\ listeners'[s] = restarted(s, sv, held)
                    /\ failed'[s] = restartFails(s, sv, held)
    <3> DEFINE R == {x \in Side : restarts(x, c, force)}
               freed(x)  == IF x \in R THEN released(x, sv) ELSE {}
               held1     == taken \cup (sockets \ freed("private"))
               up(x, h) == IF x \in R THEN httpUp(x, sv, h) \cup TLSUp(x, sv, h) ELSE {}
               held2     == (held1 \ freed("public")) \cup up("private", held1)
               heldOf(x)   == IF x = "private" THEN held1 ELSE held2
    <3>1. /\ listeners' = [x \in Side |->
                IF x \in R THEN restarted(x, sv, heldOf(x)) ELSE listeners[x]]
          /\ failed' = [x \in Side |->
                IF x \in R THEN restartFails(x, sv, heldOf(x)) ELSE failed[x]]
      BY DEF Configure
    <3>2. s \in R
      BY <1>3
    <3> HIDE DEF R, heldOf
    <3> QED
      BY <3>1, <3>2
  <2>2. ASSUME NEW b \in want(s, sv, localAddrs) PROVE b \in inMap(s)' \cup failed'[s]
    <3>1. b \in Bind
      BY <1>0, <1>1, WantSides
    <3> QED
      BY <1>1, <2>1, <3>1, RestartCovers DEF inMap
  <2> QED
    BY <1>1, <2>2
<1>4. CASE ~restarts(s, c, force)
  <2>1. listeners'[s] = listeners[s] /\ failed'[s] = failed[s]
    BY <1>4 DEF Configure
  <2>2. /\ ~force /\ sv.port[s] = srv.port[s] /\ sv.tlsPort[s] = srv.tlsPort[s]
        /\ sv.ignore = srv.ignore
    BY <1>2, <1>4 DEF restarts
  <2>3. sideAddrs(s, sv, localAddrs) = sideAddrs(s, srv, localAddrs)
    BY <2>2 DEF sideAddrs, isPrivateNetwork
  <2>4. want(s, sv, localAddrs) = want(s, srv, localAddrs)
    BY <2>2, <2>3 DEF want, httpList, TLSList
  <2>5. inMap(s)' = inMap(s)
    BY <2>1 DEF inMap
  <2> QED
    BY <1>1, <2>1, <2>2, <2>4, <2>5
<1> QED
  BY <1>3, <1>4

(***************************************************************************)
(* When every address is listed at most once, an enumeration that differs  *)
(* from the last one counts a change.                                      *)
(***************************************************************************)
LEMMA ChangeNoticed ==
  ASSUME ListedOnce, SrvTypeOK, localAddrs # found
  PROVE  changeCount > 0
<1> DEFINE S == {x \in Addr :
      (IF x \in localAddrs THEN ifaces[x] - 1 ELSE ifaces[x]) \in {-1, 1}}
<1>0. \A x \in Addr : ifaces[x] \in {0, 1}
  BY DEF SrvTypeOK, ListedOnce
<1>1. PICK a \in Addr : (a \in localAddrs) # (a \in found)
  BY DEF SrvTypeOK, found
<1>2. a \in S
  <2>1. CASE a \in localAddrs
    <3>1. ifaces[a] = 0
      BY <1>0, <1>1, <2>1 DEF found
    <3> QED
      BY <2>1, <3>1
  <2>2. CASE a \notin localAddrs
    <3>1. ifaces[a] = 1
      BY <1>0, <1>1, <2>2 DEF found
    <3> QED
      BY <2>2, <3>1
  <2> QED
    BY <2>1, <2>2
<1>3. IsFiniteSet(S)
  BY SrvAssumption, FS_Subset
<1>4. Cardinality(S) \in Nat /\ Cardinality(S) # 0
  BY <1>2, <1>3, FS_CardinalityType, FS_EmptySet
<1> QED
  BY <1>4 DEF changeCount

(***************************************************************************)
(* cfgNet keeps the sides covered, and a forced one makes them so.         *)
(***************************************************************************)
LEMMA CfgNetCovers ==
  ASSUME SrvTypeOK, InitSrv, NEW force \in BOOLEAN, cfgNet(force), ~panicked'
  PROVE  /\ srv'.ignore = cfg.ignore
         /\ \A s \in Side :
              (force \/ (/\ srv.ignore = cfg.ignore
                         /\ want(s, srv, localAddrs) \subseteq inMap(s) \cup failed[s]))
                => want(s, srv', localAddrs) \subseteq inMap(s)' \cup failed'[s]
<1>0. cfg \in Configs
  BY DEF SrvTypeOK
<1>1. PICK taken \in TakenSets : Configure(cfg, force, taken)
  BY DEF cfgNet
<1>2. srv'.ignore = cfg.ignore
  BY <1>1 DEF Configure, configured
<1> QED
  BY <1>0, <1>1, <1>2, ConfigureCovers

(***************************************************************************)
(* Every step keeps CoverInv.                                              *)
(***************************************************************************)
LEMMA NextCovered ==
  ASSUME ListedOnce, OneIgnoreList
  PROVE  SrvTypeOK /\ CoverInv /\ [Next]_vars => CoverInv'
<1> SUFFICES ASSUME SrvTypeOK, CoverInv, [Next]_vars,
                    InitSrv, phase' = "run", ~panicked', 0 \notin pending'
             PROVE  /\ srv'.ignore = cfg'.ignore
                    /\ monitor' # "changed" => \A s \in Side :
                         want(s, srv', localAddrs') \subseteq inMap(s)' \cup failed'[s]
  BY DEF CoverInv, want, httpList, TLSList, sideAddrs, isPrivateNetwork, inMap
<1> DEFINE Goal == /\ srv'.ignore = cfg'.ignore
                   /\ monitor' # "changed" => \A s \in Side :
                        want(s, srv', localAddrs') \subseteq inMap(s)' \cup failed'[s]
<1>a. ASSUME \A s \in Side : inMap(s)' = inMap(s),
             UNCHANGED <<srv, localAddrs, failed, monitor>>,
             0 \notin pending, phase = "run", ~panicked, cfg'.ignore = cfg.ignore
      PROVE  Goal
  BY <1>a DEF CoverInv
<1>b. (UNCHANGED listeners) => \A s \in Side : inMap(s)' = inMap(s)
  BY DEF inMap
<1>1. CASE EditConfig
  <2>1. cfg' \in Configs /\ cfg \in Configs
    BY <1>1 DEF EditConfig, SrvTypeOK
  <2>2. cfg'.ignore = cfg.ignore
    BY <2>1 DEF OneIgnoreList
  <2> QED
    BY <1>1, <1>a, <1>b, <2>2 DEF EditConfig
<1>2. CASE IfaceChange
  BY <1>2, <1>a, <1>b DEF IfaceChange
<1>3. CASE ServeFails
  <2>0. PICK s \in Side : \E b \in openOf(s) :
          listeners' = [listeners EXCEPT ![s][b].state = "closing"]
    BY <1>3 DEF ServeFails
  <2>1. PICK b \in openOf(s) :
          listeners' = [listeners EXCEPT ![s][b].state = "closing"]
    BY <2>0
  <2>2. \A x \in Side : inMap(x)' = inMap(x)
    <3> SUFFICES ASSUME NEW x \in Side, NEW y \in Bind
                 PROVE  listeners'[x][y].state # "none"
                          <=> listeners[x][y].state # "none"
      BY DEF inMap
    <3>1. b \in Bind /\ listeners[s][b].state = "open"
      BY <2>1 DEF openOf
    <3> QED
      BY <2>1, <3>1 DEF SrvTypeOK, Listener
  <2> QED
    BY <1>3, <1>a, <2>2 DEF ServeFails
<1>4. ASSUME NEW n \in {0, 1}, onCfgChange(n) PROVE Goal
  <2>1. /\ cfgNet(n = 0) /\ ~panicked /\ phase = "run"
        /\ UNCHANGED <<monitor, localAddrs, cfg>>
        /\ n \in pending /\ (\A m \in pending : n <= m) /\ pending' = pending \ {n}
    BY <1>4 DEF onCfgChange
  <2>2. (n = 0) \in BOOLEAN
    OBVIOUS
  <2>3. n # 0 => 0 \notin pending
    BY <2>1
  <2> QED
    BY <2>1, <2>2, <2>3, CfgNetCovers DEF CoverInv
<1>5. CASE MonitorTick \/ EnumFails
  <2>1. \A s \in Side : inMap(s)' = inMap(s)
    BY <1>5, <1>b DEF MonitorTick, EnumFails
  <2>2. CASE localAddrs = found
    BY <1>5, <2>1, <2>2 DEF MonitorTick, EnumFails, CoverInv
  <2>3. CASE localAddrs # found
    <3>1. changeCount > 0
      BY <2>3, ChangeNoticed
    <3> QED
      BY <1>5, <3>1 DEF MonitorTick, EnumFails, CoverInv
  <2> QED
    BY <2>2, <2>3
<1>6. CASE MonitorCfg
  <2>1. cfgNet(TRUE) /\ UNCHANGED <<localAddrs, cfg>>
    BY <1>6 DEF MonitorCfg
  <2> QED
    BY <2>1, CfgNetCovers
<1>7. CASE MonitorExit
  BY <1>7 DEF MonitorExit
<1>8. CASE Shutdown \/ SignalMonitor \/ WaitMonitor \/ IniShutdown
  BY <1>8 DEF Shutdown, SignalMonitor, WaitMonitor, IniShutdown
<1>9. CASE AppRegister \/ AppRemove
  BY <1>9, <1>a, <1>b DEF AppRegister, AppRemove, svars
<1>10. CASE UNCHANGED vars
  BY <1>10, <1>a, <1>b DEF vars, svars
<1> QED
  BY <1>1, <1>2, <1>3, <1>4, <1>5, <1>6, <1>7, <1>8, <1>9, <1>10 DEF Next

(***************************************************************************)
(* When no reconfiguration is owed, every bind the settings ask for is in  *)
(* its map or was refused by the operating system (cfgNet, netEnumAddrs),  *)
(* if addresses are listed once and the ignore list stays the same.        *)
(***************************************************************************)
THEOREM WantedIsCovered ==
  ASSUME ListedOnce, OneIgnoreList
  PROVE  Spec => []Covered
<1>1. Init => CoverInv
  BY DEF Init, CoverInv
<1>2. SrvTypeOK /\ CoverInv /\ [Next]_vars => CoverInv'
  BY NextCovered
<1>3. CoverInv => Covered
  BY DEF CoverInv, Covered, quiet
<1> QED
  BY <1>1, <1>2, <1>3, SrvTypeCorrect, PTL DEF Spec

(***************************************************************************)
(* No step takes an open listener out of its map while it is wanted.       *)
(***************************************************************************)
THEOREM WantedListenersKept == Spec => KeepsWanted
<1> DEFINE Kept == \A s \in Side : \A b \in openOf(s) :
      listeners'[s][b].state = "none" => b \notin want(s, srv', localAddrs)
<1>1. SInv /\ [Next]_vars => [Kept]_vars
  <2> SUFFICES ASSUME SInv, Next, NEW s \in Side, NEW b \in openOf(s),
                      listeners'[s][b].state = "none"
               PROVE  b \notin want(s, srv', localAddrs)
    OBVIOUS
  <2>0. SrvTypeOK /\ cfg \in Configs /\ listeners[s][b] \in Listener /\ b \in Bind
        /\ listeners[s][b].state = "open"
    BY DEF SInv, SrvTypeOK, openOf
  <2>1. ASSUME NEW force, cfgNet(force)
        PROVE  b \notin want(s, srv', localAddrs)
    <3>1. PICK taken \in TakenSets : Configure(cfg, force, taken)
      BY <2>0, <2>1 DEF cfgNet
    <3> DEFINE sv == configured(cfg)
    <3>2. srv' = sv /\ sv \in Srv
      BY <2>0, <3>1, ConfiguredType DEF Configure
    <3>3. \E held : listeners'[s] = restarted(s, sv, held)
      BY <2>0, <3>1 DEF Configure
    <3>4. b \in released(s, sv)
      BY <2>0, <3>2, <3>3, RestartEffect
    <3> QED
      BY <3>2, <3>4 DEF released
  <2>2. CASE UNCHANGED listeners
    BY <2>0, <2>2
  <2>3. CASE ServeFails
    <3>1. \E t \in Side : \E d \in Bind :
            listeners' = [listeners EXCEPT ![t][d].state = "closing"]
      BY <2>3 DEF ServeFails, openOf
    <3>2. listeners \in [Side -> [Bind -> Listener]]
      BY <2>0 DEF SrvTypeOK
    <3>3. listeners'[s][b].state \in {"open", "closing"}
      BY <2>0, <3>1, <3>2 DEF Listener
    <3> QED
      BY <3>3
  <2>4. CASE Shutdown
    <3>1. listeners'[s][b] = [listeners[s][b] EXCEPT !.state = "closing"]
      BY <2>0, <2>4 DEF Shutdown
    <3> QED
      BY <2>0, <3>1 DEF Listener
  <2> QED
    BY <2>1, <2>2, <2>3, <2>4 DEF Next, EditConfig, IfaceChange, onCfgChange,
       MonitorTick, EnumFails, MonitorCfg, MonitorExit, SignalMonitor,
       WaitMonitor, IniShutdown, AppRegister, AppRemove, svars
<1> QED
  BY <1>1, SrvInvariant, PTL DEF Spec, KeepsWanted
=============================================================================
