------------------------------ MODULE Dispatch ------------------------------
(***************************************************************************)
(* How one side of the server answers requests (XMux.ServeHTTP), composed  *)
(* with the multiplexer XMux, while handlers come and go and the settings  *)
(* change.                                                                 *)
(*                                                                         *)
(* A request is a goroutine: it looks its handler up under mux.mu, asks    *)
(* for the access level of its host under netCfgLock, asks the geo-IP      *)
(* check, and calls the handler, with other goroutines in between.  The    *)
(* access list is a function from hosts to levels that a reconfiguration   *)
(* replaces (AccessList details it); the geo-IP check may answer either    *)
(* way (GeoIPSec details it).                                              *)
(*                                                                         *)
(* A path is as in XMux, but a request's path may also have the segments   *)
(* "" (from "//"), "." and "..".  A client follows the redirects it gets.  *)
(***************************************************************************)
EXTENDS XMux, FiniteSets

CONSTANTS Client,     \* clients, one request at a time
          Host,       \* addresses
          RawPath,    \* the paths clients ask for first
          InitHandlers, \* the handlers netInit registers, in order
          HandlerSet, \* the handlers that may be registered
          LevelSet,   \* access lists: functions from Host to AccessLevel
          MaxChanges  \* bound: changes of handlers and settings

noHost == "unparsable"   \* a RemoteAddr that SplitHostPort refuses
star == [segs |-> <<"*">>, slash |-> FALSE]

ASSUME DispatchAssumption ==
  /\ HandlerSet \subseteq UriHandler /\ InitHandlers \in Seq(UriHandler)
  /\ RawPath \cup Path \subseteq [segs : Seq(STRING), slash : BOOLEAN]
  /\ LevelSet \subseteq [Host -> AccessLevel]
  /\ noHost \notin Host
  /\ MaxChanges \in Nat

VARIABLES
  m,            \* mux.m
  initPos,      \* registrations netInit has made so far
  TLSRedirect, HonorXForwardedFor,
  level,        \* the access list
  req,          \* the request of a client
  muxes,        \* the multiplexers in force since the request came (history)
  levels,       \* the access lists in force since then (history)
  cnt,          \* counters of the multiplexer
  logged,       \* calls of ipsLogStats (IPStats may drop the entry of one)
  plain,        \* answers before any counter: TLS redirects, "*" (history)
  changes

vars == <<m, initPos, TLSRedirect, HonorXForwardedFor, level, req, muxes, levels, cnt,
          logged, plain, changes>>
settings == <<m, initPos, TLSRedirect, HonorXForwardedFor, level, changes>>
history == <<muxes, levels>>
tally == <<cnt, logged, plain>>

Counter == {"ParseFailed", "NotFound", "GeoDeny", "IPDeny", "Success"}

noRequest == [pc |-> "idle", method |-> "GET", path |-> Root, TLS |-> FALSE,
              forwarded |-> noHost, remote |-> noHost, host |-> noHost,
              h |-> nilEntry, target |-> Root, hops |-> 0, answers |-> 0]

Init ==
  /\ m = NewXMux /\ initPos = 0
  /\ TLSRedirect \in BOOLEAN /\ HonorXForwardedFor \in BOOLEAN
  /\ level \in LevelSet
  /\ req = [c \in Client |-> noRequest]
  /\ muxes = [c \in Client |-> {}] /\ levels = [c \in Client |-> {}]
  /\ cnt = [k \in Counter |-> 0] /\ logged = 0 /\ plain = 0
  /\ changes = 0

-----------------------------------------------------------------------------
(***************************************************************************)
(* Handlers and settings change.                                           *)
(***************************************************************************)

NetInit ==
  /\ initPos < Len(InitHandlers)
  /\ LET u == InitHandlers[initPos + 1] IN ~HandlePanics(m, u) /\ m' = Handle(m, u)
  /\ initPos' = initPos + 1
  /\ UNCHANGED <<TLSRedirect, HonorXForwardedFor, level, changes, req, history, tally>>

\* InitCfg subscribes the configuration, which opens the listeners, after
\* netInit, and keeps cfgLock, which Http() needs, until then
started == initPos = Len(InitHandlers)

change ==
  /\ started /\ UNCHANGED initPos
  /\ changes < MaxChanges
  /\ changes' = changes + 1
  /\ muxes' = [c \in Client |-> IF req[c].pc = "idle" THEN {} ELSE muxes[c] \cup {m'}]
  /\ levels' = [c \in Client |-> IF req[c].pc = "idle" THEN {} ELSE levels[c] \cup {level'}]
  /\ UNCHANGED <<req, tally>>

HandleFunc(u) ==
  /\ ~HandlePanics(m, u)
  /\ m' = Handle(m, u)
  /\ UNCHANGED <<TLSRedirect, HonorXForwardedFor, level>>
  /\ change

RemoveHandler(u) ==
  /\ m[makeKey(u.method, u.pattern)] # nilEntry
  /\ m' = RemoveHandleFunc(m, u.method, u.pattern)
  /\ UNCHANGED <<TLSRedirect, HonorXForwardedFor, level>>
  /\ change

\* cfgNet and Configure
Reconfigure ==
  /\ TLSRedirect' \in BOOLEAN /\ HonorXForwardedFor' \in BOOLEAN
  /\ level' \in LevelSet
  /\ <<TLSRedirect, HonorXForwardedFor, level>>' # <<TLSRedirect, HonorXForwardedFor, level>>
  /\ UNCHANGED m
  /\ change

-----------------------------------------------------------------------------
(***************************************************************************)
(* Looking a handler up.                                                   *)
(***************************************************************************)

\* path.Clean of an absolute path, segment by segment
push(segs, s) ==
  IF s \in {"", "."} THEN segs
  ELSE IF s = ".." THEN (IF segs = <<>> THEN <<>> ELSE SubSeq(segs, 1, Len(segs) - 1))
  ELSE Append(segs, s)
Clean(segs) ==
  LET out[i \in 0..Len(segs)] == IF i = 0 THEN <<>> ELSE push(out[i - 1], segs[i])
  IN out[Len(segs)]

\* mutant: the trailing slash is not put back
cleanPathBare(p) ==
  IF Clean(p.segs) = <<>> THEN Root ELSE [segs |-> Clean(p.segs), slash |-> FALSE]

cleanPath(p) ==
  IF Clean(p.segs) = <<>> THEN Root ELSE [segs |-> Clean(p.segs), slash |-> p.slash]

redirect == [explicit |-> FALSE, f |-> "redirect", access |-> ACCESS_LEVEL_NONE,
             pattern |-> Root]

\* the handler for a request, and where it redirects to if it does
Handler(mux, method, path) ==
  IF method # "CONNECT" /\ cleanPath(path) # path
  THEN [h |-> redirect, target |-> cleanPath(path)]
  ELSE LET h == match(mux, method, path) IN [h |-> h, target |-> h.pattern]

-----------------------------------------------------------------------------
(***************************************************************************)
(* ServeHTTP.                                                              *)
(***************************************************************************)

at(c, pc) == req[c].pc = pc
others == <<settings, history>>

Arrive(c, method, path, TLS, forwarded, remote) ==
  /\ started /\ at(c, "idle")
  /\ req' = [req EXCEPT ![c] = [noRequest EXCEPT
       !.pc = "received", !.method = method, !.path = path, !.TLS = TLS,
       !.forwarded = forwarded, !.remote = remote]]
  /\ muxes' = [muxes EXCEPT ![c] = {m}]
  /\ levels' = [levels EXCEPT ![c] = {level}]
  /\ UNCHANGED <<settings, tally>>

\* the client follows a redirect: a new request of its own
follow(c, TLS, path) ==
  [req EXCEPT ![c].pc = "following", ![c].TLS = TLS, ![c].target = path,
              ![c].answers = @ + 1]
done(c) == [req EXCEPT ![c].pc = "done", ![c].answers = @ + 1]

\* The call of ipsLogStats and the counter that follow an answer, in one step with
\* it: the goroutine of the request runs them, and no other reads what they change.
counted(k) ==
  /\ cnt' = [cnt EXCEPT ![k] = @ + 1]
  /\ logged' = logged + (IF k = "ParseFailed" THEN 0 ELSE 1)
  /\ UNCHANGED plain

RedirectTLS(c) ==
  /\ at(c, "received")
  /\ TLSRedirect /\ ~req[c].TLS
  /\ req' = follow(c, TRUE, req[c].path)
  /\ plain' = plain + 1
  /\ UNCHANGED <<others, cnt, logged>>

BadRequest(c) ==
  /\ at(c, "received")
  /\ ~(TLSRedirect /\ ~req[c].TLS)
  /\ req[c].path = star
  /\ req' = done(c)
  /\ plain' = plain + 1
  /\ UNCHANGED <<others, cnt, logged>>

LookUp(c) ==
  /\ at(c, "received")
  /\ ~(TLSRedirect /\ ~req[c].TLS)
  /\ req[c].path # star
  /\ LET r == Handler(m, req[c].method, req[c].path)
     IN req' = [req EXCEPT ![c].pc = "host", ![c].h = r.h, ![c].target = r.target]
  /\ UNCHANGED <<others, tally>>

\* X-Forwarded-For when it counts, else the remote address
hostOf(c) ==
  IF HonorXForwardedFor /\ req[c].forwarded # noHost THEN req[c].forwarded
  ELSE req[c].remote

ParseFailed(c) ==
  /\ at(c, "host")
  /\ hostOf(c) = noHost
  /\ req' = done(c)
  /\ counted("ParseFailed")
  /\ UNCHANGED others

\* mutant: the answer to a missing handler does not end the request
NotFoundGoesOn(c) ==
  /\ at(c, "host")
  /\ hostOf(c) # noHost
  /\ IF req[c].h = nilEntry
     THEN req' = [req EXCEPT ![c].pc = "access", ![c].host = hostOf(c),
                             ![c].answers = @ + 1] /\ counted("NotFound")
     ELSE req' = [req EXCEPT ![c].pc = "access", ![c].host = hostOf(c)]
          /\ UNCHANGED tally
  /\ UNCHANGED others

\* the host is known; no handler is the end
HostKnown(c) ==
  /\ at(c, "host")
  /\ hostOf(c) # noHost
  /\ IF req[c].h = nilEntry
     THEN req' = done(c) /\ counted("NotFound")
     ELSE req' = [req EXCEPT ![c].pc = "access", ![c].host = hostOf(c)]
          /\ UNCHANGED tally
  /\ UNCHANGED others

\* mutant: a level one too low is enough
sufficientOff(lv, access) == lv + 1 >= access

sufficient(lv, access) == lv >= access

CheckAccess(c) ==
  /\ at(c, "access")
  /\ IF sufficient(level[req[c].host], req[c].h.access)
     THEN req' = [req EXCEPT ![c].pc = "geo"] /\ UNCHANGED tally
     ELSE req' = done(c) /\ counted("IPDeny")
  /\ UNCHANGED others

GeoDeny(c) ==
  /\ at(c, "geo")
  /\ req' = done(c)
  /\ counted("GeoDeny")
  /\ UNCHANGED others

\* mutant: what the client sees as an answer is not logged
ServeUnlogged(c) ==
  /\ at(c, "geo")
  /\ req' = IF req[c].h.f = "redirect" THEN follow(c, req[c].TLS, req[c].target)
            ELSE [req EXCEPT ![c].pc = "served", ![c].answers = @ + 1]
  /\ cnt' = [cnt EXCEPT !["Success"] = @ + 1]
  /\ UNCHANGED <<others, logged, plain>>

\* the handler runs and returns
Serve(c) ==
  /\ at(c, "geo")
  /\ req' = IF req[c].h.f = "redirect" THEN follow(c, req[c].TLS, req[c].target)
            ELSE [req EXCEPT ![c].pc = "served", ![c].answers = @ + 1]
  /\ counted("Success")
  /\ UNCHANGED others

\* The handler runs and panics: net/http recovers and closes the connection, and
\* what follows the call in ServeHTTP is skipped.  The redirects are the
\* multiplexer's own and do not panic.
HandlerAborts(c) ==
  /\ at(c, "geo")
  /\ req[c].h.f # "redirect"
  /\ req' = [req EXCEPT ![c].pc = "aborted"]
  /\ UNCHANGED <<others, tally>>

Follow(c) ==
  /\ at(c, "following")
  /\ req' = [req EXCEPT ![c] = [noRequest EXCEPT
       !.pc = "received", !.method = req[c].method, !.path = req[c].target,
       !.TLS = req[c].TLS, !.forwarded = req[c].forwarded,
       !.remote = req[c].remote, !.hops = req[c].hops + 1,
       !.answers = req[c].answers]]
  /\ muxes' = [muxes EXCEPT ![c] = {m}]
  /\ levels' = [levels EXCEPT ![c] = {level}]
  /\ UNCHANGED <<settings, tally>>

Next ==
  \/ NetInit
  \/ \E u \in HandlerSet : HandleFunc(u) \/ RemoveHandler(u)
  \/ Reconfigure
  \/ \E c \in Client :
       \/ \E p \in RawPath, me \in Method, t \in BOOLEAN,
             f \in Host \cup {noHost}, r \in Host \cup {noHost} :
               Arrive(c, me, p, t, f, r)
       \/ RedirectTLS(c) \/ BadRequest(c) \/ LookUp(c) \/ ParseFailed(c)
       \/ HostKnown(c) \/ CheckAccess(c) \/ GeoDeny(c) \/ Serve(c)
       \/ HandlerAborts(c) \/ Follow(c)

Spec == Init /\ [][Next]_vars

-----------------------------------------------------------------------------
DispatchTypeOK ==
  /\ m \in [Key -> muxEntry]
  /\ level \in LevelSet
  /\ \A c \in Client :
       /\ req[c].pc \in {"idle", "received", "host", "access", "geo", "following",
                         "served", "aborted", "done"}
       /\ req[c].h \in muxEntry /\ req[c].host \in Host \cup {noHost}
       /\ req[c].pc \in {"access", "geo"} => req[c].h # nilEntry
  /\ cnt \in [Counter -> Nat] /\ logged \in Nat /\ plain \in Nat

\* A handler runs, to its end or to a panic, only for a host that some access list
\* in force during the request gives the level the handler asks for, and only if
\* some multiplexer in force during the request routes the path to it: handlers and
\* access rights that change between the steps of ServeHTTP never combine into more
\* access than one of them gave.
ServedRightfully ==
  \A c \in Client : req[c].pc \in {"served", "aborted"} =>
    /\ \E lv \in levels[c] : lv[req[c].host] >= req[c].h.access
    /\ \E mux \in muxes[c] : req[c].h = match(mux, req[c].method, req[c].path)

\* Redirects end: a client that follows them makes at most three hops, one for
\* TLS, one to the canonical path and one from /tree to /tree/, whatever
\* handlers come and go meanwhile.
RedirectsEnd == \A c \in Client : req[c].hops <= 3

sum == cnt["ParseFailed"] + cnt["NotFound"] + cnt["GeoDeny"] + cnt["IPDeny"]
       + cnt["Success"]

answeredOnce ==
  \A c \in Client :
    req[c].answers = req[c].hops
      + (IF req[c].pc \in {"following", "served", "done"} THEN 1 ELSE 0)

\* the answers the clients have had, numbered for each client
given == UNION {{c} \X (1..req[c].answers) : c \in Client}

loggedAll == logged = sum - cnt["ParseFailed"]

\* Every request is answered exactly once, but one whose handler panics, which gets
\* no answer of ServeHTTP's; every answer but the TLS redirect and the refusal of
\* "*" is counted exactly once and nothing else is, and ipsLogStats is called for
\* every counted answer except the failures to parse an address.
CountedOnce ==
  /\ answeredOnce
  /\ Cardinality(given) = sum + plain
  /\ loggedAll

\* "It always returns a non-nil handler" (netXMux.go:117): XMux.Handler.
HandlerNonNil == \A c \in Client : req[c].pc = "host" => req[c].h # nilEntry
=============================================================================
