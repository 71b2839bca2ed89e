------------------------------ MODULE Handlers ------------------------------
(***************************************************************************)
(* The handler registry of HttpSrv (net.go): the maps privateHandlers and  *)
(* publicHandlers and the multiplexers privateMux and publicMux, which     *)
(* netInit fills at start-up and which the application changes afterwards  *)
(* through RegisterHandler and RemoveHandler.                              *)
(*                                                                         *)
(* Both operations run under HttpSrv.configLock and nothing reads a        *)
(* registry map or more than one multiplexer without that lock, so each is *)
(* one step.  A request reads one multiplexer, in one step under its own   *)
(* lock.                                                                   *)
(***************************************************************************)
EXTENDS XMux

CONSTANTS InitRegs,  \* the registrations netInit makes, in order
          RegChoice, \* the registrations the application may ask for
          MaxOps     \* bound: operations of the application

VARIABLES handlers,  \* handlers[side]: the registry map, key -> UriHandler
          mux,       \* mux[side]: the multiplexer's map
          initPos,   \* registrations netInit has made so far
          ops        \* operations of the application so far

hvars == <<handlers, mux>>
rvars == <<handlers, mux, initPos, ops>>

Side == {"private", "public"}
HandlerType == {"PRIVATE_HANDLER", "PUBLIC_HANDLER", "ALL_HANDLER", "unknown"}
Reg == [u : UriHandler, type : HandlerType]

\* an absent key of a registry map
nilHandler ==
  [method |-> "nil", pattern |-> Root, access |-> ACCESS_LEVEL_NONE,
   f |-> "nil"]

ASSUME RegAssumption ==
  /\ InitRegs \in Seq(Reg)
  /\ RegChoice \subseteq Reg
  /\ MaxOps \in Nat

\* registerHandler panics unless the path starts with '/'
validPath(p) == p.slash \/ p.segs # <<>>

\* the switch on handlerType; an unknown type only logs an error
sidesOf(type) ==
  CASE type = "PRIVATE_HANDLER" -> {"private"}
    [] type = "PUBLIC_HANDLER"  -> {"public"}
    [] type = "ALL_HANDLER"     -> Side
    [] OTHER                    -> {}

(***************************************************************************)
(* The sides registerHandler gets to: the private side comes first, and a  *)
(* panic of its multiplexer leaves the public side alone.                  *)
(***************************************************************************)
reached(u, type) ==
  IF ~validPath(u.pattern) THEN {}
  ELSE IF "private" \in sidesOf(type) /\ HandlePanics(mux["private"], u)
    THEN {"private"}
    ELSE sidesOf(type)

(***************************************************************************)
(* On every side it reaches, registerHandler stores the handler in the     *)
(* registry map and then in the multiplexer, which may panic: the registry *)
(* map has been overwritten by then.                                       *)
(***************************************************************************)
\* Mutant: the multiplexer of the public side is forgotten.
registerPrivateMux(u, type) ==
  /\ handlers' = [s \in Side |->
       IF s \in reached(u, type)
         THEN [handlers[s] EXCEPT ![makeKey(u.method, u.pattern)] = u]
         ELSE handlers[s]]
  /\ mux' = [s \in Side |->
       IF s = "private" /\ s \in reached(u, type) /\ ~HandlePanics(mux[s], u)
         THEN Handle(mux[s], u)
         ELSE mux[s]]

\* Mutant: a second registration of a key replaces the first.
registerReplaces(u, type) ==
  /\ handlers' = [s \in Side |->
       IF s \in sidesOf(type)
         THEN [handlers[s] EXCEPT ![makeKey(u.method, u.pattern)] = u]
         ELSE handlers[s]]
  /\ mux' = [s \in Side |->
       IF s \in sidesOf(type) THEN Handle(mux[s], u) ELSE mux[s]]

registerHandler(u, type) ==
  /\ handlers' = [s \in Side |->
       IF s \in reached(u, type)
         THEN [handlers[s] EXCEPT ![makeKey(u.method, u.pattern)] = u]
         ELSE handlers[s]]
  /\ mux' = [s \in Side |->
       IF s \in reached(u, type) /\ ~HandlePanics(mux[s], u)
         THEN Handle(mux[s], u)
         ELSE mux[s]]

removeHandler(method, path) ==
  /\ handlers' = [s \in Side |->
       [handlers[s] EXCEPT ![makeKey(method, path)] = nilHandler]]
  /\ mux' = [s \in Side |-> RemoveHandleFunc(mux[s], method, path)]

-----------------------------------------------------------------------------
NewHttpSrv ==
  /\ handlers = [s \in Side |-> [k \in Key |-> nilHandler]]
  /\ mux = [s \in Side |-> NewXMux]

HInit ==
  /\ NewHttpSrv
  /\ initPos = 0
  /\ ops = 0

\* netInit and ipsInit register the built-in handlers, one call at a time.
NetInit ==
  /\ initPos < Len(InitRegs)
  /\ LET r == InitRegs[initPos + 1] IN registerHandler(r.u, r.type)
  /\ initPos' = initPos + 1
  /\ UNCHANGED ops

(***************************************************************************)
(* The application's calls.  InitCfg holds cfgLock until netInit is done,  *)
(* so Http() gives the server out only then.  The caller of a registration *)
(* that panics recovers: net/http does so for every request handler.       *)
(***************************************************************************)
RegisterHandler(r) ==
  /\ initPos = Len(InitRegs)
  /\ ops < MaxOps
  /\ ops' = ops + 1
  /\ registerHandler(r.u, r.type)
  /\ UNCHANGED initPos

RemoveHandler(method, path) ==
  /\ initPos = Len(InitRegs)
  /\ ops < MaxOps
  /\ ops' = ops + 1
  /\ removeHandler(method, path)
  /\ UNCHANGED initPos

HNext ==
  \/ NetInit
  \/ \E r \in RegChoice : RegisterHandler(r)
  \/ \E method \in Method, path \in Path : RemoveHandler(method, path)

HSpec == HInit /\ [][HNext]_rvars

-----------------------------------------------------------------------------
(***************************************************************************)
(* Type invariant of the registry and its multiplexers.                    *)
(***************************************************************************)
HandlersTypeOK ==
  /\ handlers \in [Side -> [Key -> UriHandler \cup {nilHandler}]]
  /\ mux \in [Side -> [Key -> muxEntry]]
  /\ initPos \in Nat
  /\ ops \in Nat

(***************************************************************************)
(* The registry lists exactly the keys the multiplexer serves: a key is in *)
(* privateHandlers (publicHandlers) if and only if the multiplexer of that *)
(* side holds an explicit entry for it.  getNetInfo reports the registry,  *)
(* requests are served from the multiplexer; registrations that panic half *)
(* way and removals of "/tree" and "/tree/" in any order must keep them    *)
(* together.                                                               *)
(***************************************************************************)
RegistryMatchesMux ==
  \A s \in Side, k \in Key :
    (handlers[s][k] # nilHandler) <=> mux[s][k].explicit

\* the entry with which a multiplexer serves a registered handler
entryOf(u) ==
  [explicit |-> TRUE, f |-> u.f, access |-> u.access, pattern |-> u.pattern]

agree(s, k) == handlers[s][k] # nilHandler => mux[s][k] = entryOf(handlers[s][k])

(***************************************************************************)
(* What the registry says of a key and what the multiplexer serves there,  *)
(* function and access level included, come apart in one way only: a       *)
(* registration that clashed with a handler in service, and changed        *)
(* nothing of the multiplexer.  No operation on another key, with the      *)
(* redirects it stores and deletes, and no removal parts them.             *)
(***************************************************************************)
OnlyClashDisagrees ==
  [][\A s \in Side, k \in Key :
       (agree(s, k) /\ ~agree(s, k)')
         => mux[s][k].explicit /\ UNCHANGED mux[s]]_hvars

redirectsHaveTargets(m) ==
  \A k \in Key :
    LET e == m[k]
        target == m[makeKey(k[1], e.pattern)]
    IN (e # nilEntry /\ ~e.explicit) =>
         /\ e.f = "redirect"
         /\ e.pattern.slash
         /\ k[2] = noSlash(e.pattern)
         /\ target.explicit
         /\ target.access = e.access

(***************************************************************************)
(* Every implicit entry is the redirect of a handler that is registered:   *)
(* it sits at "/tree", the handler at "/tree/" of the same method is still *)
(* explicit, and the redirect asks for the access level of that handler.   *)
(* No sequence of registrations and removals leaves an orphan redirect or  *)
(* one that is open to callers its target would refuse.                    *)
(***************************************************************************)
RedirectHasTarget == \A s \in Side : redirectsHaveTargets(mux[s])

(***************************************************************************)
(* A path that is registered is served by its own handler, in whatever     *)
(* order Go ranges over the map: no iteration of XMux.match ends on an     *)
(* implicit redirect, on the handler of a shorter pattern or on one of two *)
(* candidates, whatever registrations and removals came before.            *)
(***************************************************************************)
RegisteredIsRouted ==
  \A s \in Side, method \in Method, path \in Path :
    handlers[s][makeKey(method, path)] # nilHandler =>
      /\ ties(mux[s], method, path) = {makeKey(method, path)}
      /\ match(mux[s], method, path).f # "redirect"

(***************************************************************************)
(* A handler in service is never replaced by another one in one step: a    *)
(* second registration of its key panics (XMux.Handle), so it has to be    *)
(* removed first.                                                          *)
(***************************************************************************)
NeverReplaced ==
  [][\A s \in Side, k \in Key :
       (mux[s][k].explicit /\ mux'[s][k].explicit)
         => mux'[s][k] = mux[s][k]]_mux

-----------------------------------------------------------------------------
(***************************************************************************)
(* The handler "registered" (net.go:691) for a key is the one that serves  *)
(* it: not so after a clash, when the registry map has the new handler and *)
(* the multiplexer the old one (registerHandler).                          *)
(***************************************************************************)
RegistryIsServed == \A s \in Side, k \in Key : agree(s, k)
=============================================================================
