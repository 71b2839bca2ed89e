------------------------------ MODULE HttpSrv ------------------------------
(***************************************************************************)
(* The listeners of HttpSrv (net.go) under reconfiguration: cfgNet and     *)
(* HttpSrv.Configure, restartPrivateHttp and restartPublicHttp, the        *)
(* interface monitor of netInit, and netShutdown.                          *)
(*                                                                         *)
(* Who runs concurrently: the ini package's notifications (onCfgChange),   *)
(* the monitor goroutine, the application's handler registrations and the  *)
(* main goroutine in netShutdown.  cfgNet holds netCfgLock, Configure also *)
(* configLock and localAddrsLock, to the end, and reads localAddrs only    *)
(* under the latter, so each call of cfgNet is one step.  The monitor's    *)
(* netEnumAddrs and the cfgNet that follows it are two.                    *)
(***************************************************************************)
EXTENDS Handlers, Integers, FiniteSets

CONSTANTS Addr,       \* IPv4 addresses an interface may have
          PrivateNet, \* those inside one of privateNets
          Port,       \* port numbers in use
          Dir,        \* static directories
          MaxCert,    \* certificate maps are 1..MaxCert, the empty one is 0
          Configs,    \* the contents the ini file may have
          InitCfgs,   \* the contents it may have at start-up
          InitSrv,    \* runCfg.InitSrvCmd / InitSrvSvc for the run mode
          MaxDup,     \* how often net.InterfaceAddrs may list one address
          TakenSets,  \* the sets of binds that other processes may hold
          MaxEnv      \* bound: events of the environment

noDir == "none"   \* the empty string, the default of both directories
noCert == 0       \* a nil *tls.Config

Bind == Addr \X Port   \* net.JoinHostPort(addr, port)

Config ==
  [port : [Side -> {0} \cup Port], tlsPort : [Side -> {0} \cup Port],
   dir : [Side -> Dir \cup {noDir}], ignore : SUBSET Addr,
   redirect : BOOLEAN, cert : 0..MaxCert]

ASSUME SrvAssumption ==
  /\ IsFiniteSet(Addr)
  /\ PrivateNet \subseteq Addr
  /\ Port \subseteq Nat \ {0}
  /\ noDir \notin Dir
  /\ MaxCert \in Nat /\ MaxDup \in Nat \ {0} /\ MaxEnv \in Nat
  /\ Configs \subseteq Config
  /\ InitCfgs \subseteq Configs
  /\ InitSrv \in BOOLEAN
  /\ TakenSets \subseteq SUBSET Bind
  /\ "GET" \in Method
  /\ {"OnPrivStaticSrvUri", "OnPubStaticSrvUri"} \subseteq Func

VARIABLES
  srv,        \* the configured fields of HttpSrv
  listeners,  \* listeners[side]: the map privateListeners / publicListeners
  sockets,    \* binds on which this process holds a listening socket
  failed,     \* failed[side]: binds refused in the last restart (history)
  localAddrs, \* the addresses of the last netEnumAddrs, as a set
  ifaces,     \* ifaces[a]: how often net.InterfaceAddrs lists a now
  cfg,        \* contents of the ini file
  pending,    \* change counts of the notifications the ini package still owes
  monitor,    \* netInit's goroutine: waits, has seen a change, has returned
  phase,      \* how far netShutdown and ini.Shutdown have come
  panicked,   \* a panic has ended the process
  env         \* events of the environment so far

svars == <<srv, listeners, sockets, failed, localAddrs, ifaces, cfg, pending,
           monitor, phase, panicked, env>>
vars == <<rvars, svars>>

Listener == [state : {"none", "open", "closing"}, tls : 0..MaxCert]

noListener == [state |-> "none", tls |-> noCert]

opened(tlsCfg) == [state |-> "open", tls |-> tlsCfg]

Srv ==
  [port : [Side -> {0} \cup Port], tlsPort : [Side -> {0} \cup Port],
   dir : [Side -> Dir \cup {noDir}], ignore : SUBSET Addr,
   redirect : [Side -> BOOLEAN], tlsCfg : 0..MaxCert]

inMap(s) == {b \in Bind : listeners[s][b].state # "none"}

openOf(s) == {b \in Bind : listeners[s][b].state = "open"}

-----------------------------------------------------------------------------
(***************************************************************************)
(* Which binds a side wants.  isPrivateNetwork applies the ignore list,    *)
(* the loop of restartPublicHttp looks at privateNets alone.               *)
(***************************************************************************)
isPrivateNetwork(sv, a) == a \notin sv.ignore /\ a \in PrivateNet

\* Mutant: the public side takes every address that is not private now.
sideAddrsComplement(s, sv, addrs) ==
  IF s = "private" THEN {a \in addrs : isPrivateNetwork(sv, a)}
                   ELSE {a \in addrs : ~isPrivateNetwork(sv, a)}

sideAddrs(s, sv, addrs) ==
  IF s = "private" THEN {a \in addrs : isPrivateNetwork(sv, a)}
                   ELSE addrs \ PrivateNet

httpList(s, sv, addrs) ==
  IF sv.port[s] > 0 THEN sideAddrs(s, sv, addrs) \X {sv.port[s]} ELSE {}

TLSList(s, sv, addrs) ==
  IF sv.tlsPort[s] > 0 THEN sideAddrs(s, sv, addrs) \X {sv.tlsPort[s]} ELSE {}

want(s, sv, addrs) == httpList(s, sv, addrs) \cup TLSList(s, sv, addrs)

(***************************************************************************)
(* restartPrivateHttp and restartPublicHttp.  A key of the map that is     *)
(* still wanted stays as it is, plain or TLS; the others are closed and    *)
(* deleted.  The listen calls come after that: a bind that this process or *)
(* another one holds fails, and is only logged.  A key wanted both as a    *)
(* plain and as a TLS bind leaves the first list alone, so the TLS listen  *)
(* is tried even when the key is in the map.                               *)
(***************************************************************************)
kept(s, sv) == inMap(s) \cap want(s, sv, localAddrs)

\* Mutant: the old listener is dropped from the map but not closed.
releasedNever(s, sv) == {}

released(s, sv) == openOf(s) \ want(s, sv, localAddrs)

httpNew(s, sv) == httpList(s, sv, localAddrs) \ inMap(s)

TLSNew(s, sv) ==
  {b \in TLSList(s, sv, localAddrs) :
     b \notin inMap(s) \/ b \in httpList(s, sv, localAddrs)}

httpUp(s, sv, held) == httpNew(s, sv) \ held

TLSUp(s, sv, held) == TLSNew(s, sv) \ (held \cup httpUp(s, sv, held))

\* Mutant: a restart opens nothing but what it has just closed.
restartedClean(s, sv, held) ==
  [b \in Bind |->
     IF b \in TLSUp(s, sv, held) THEN opened(sv.tlsCfg)
     ELSE IF b \in httpUp(s, sv, held) THEN opened(noCert)
     ELSE noListener]

restarted(s, sv, held) ==
  [b \in Bind |->
     IF b \in TLSUp(s, sv, held) THEN opened(sv.tlsCfg)
     ELSE IF b \in httpUp(s, sv, held) THEN opened(noCert)
     ELSE IF b \in kept(s, sv) THEN listeners[s][b]
     ELSE noListener]

restartFails(s, sv, held) ==
  (httpNew(s, sv) \cup TLSNew(s, sv))
     \ (httpUp(s, sv, held) \cup TLSUp(s, sv, held))

(***************************************************************************)
(* HttpSrv.Configure.  The fields it stores (configureTLS included), the   *)
(* sides it restarts, and the static handler it registers at "GET /" when  *)
(* a side's directory changes to a non-empty one.                          *)
(***************************************************************************)
configured(c) ==
  [port |-> c.port, tlsPort |-> c.tlsPort, dir |-> c.dir, ignore |-> c.ignore,
   redirect |->
     [s \in Side |-> c.cert # noCert /\ c.tlsPort[s] > 0 /\ c.redirect],
   tlsCfg |-> c.cert]

\* Mutant: a change of the TLS port alone does not restart the side.
restartsPlainOnly(s, c, force) ==
  force \/ srv.port[s] # c.port[s] \/ srv.dir[s] # c.dir[s]

\* Mutant: new addresses alone do not restart a side.
restartsUnforced(s, c, force) ==
  \/ srv.port[s] # c.port[s]
  \/ srv.tlsPort[s] # c.tlsPort[s]
  \/ srv.dir[s] # c.dir[s]

restarts(s, c, force) ==
  \/ force
  \/ srv.port[s] # c.port[s]
  \/ srv.tlsPort[s] # c.tlsPort[s]
  \/ srv.dir[s] # c.dir[s]

staticHandler(s) ==
  [method |-> "GET", pattern |-> Root, access |-> ACCESS_LEVEL_ADMIN,
   f |-> IF s = "private" THEN "OnPrivStaticSrvUri" ELSE "OnPubStaticSrvUri"]

registersStatic(s, c) == c.dir[s] # srv.dir[s] /\ c.dir[s] # noDir

configurePanics(c) ==
  \E s \in Side :
    registersStatic(s, c) /\ HandlePanics(mux[s], staticHandler(s))

Configure(c, force, taken) ==
  LET sv == configured(c)
      R  == {s \in Side : restarts(s, c, force)}
      \* the private side releases and binds before the public one
      freed(s)  == IF s \in R THEN released(s, sv) ELSE {}
      held1     == taken \cup (sockets \ freed("private"))
      up(s, held) == IF s \in R
                       THEN httpUp(s, sv, held) \cup TLSUp(s, sv, held)
                       ELSE {}
      held2     == (held1 \ freed("public")) \cup up("private", held1)
      held(s)   == IF s = "private" THEN held1 ELSE held2
  IN
  /\ srv' = sv
  /\ handlers' = [s \in Side |->
       IF registersStatic(s, c)
         THEN [handlers[s] EXCEPT ![makeKey("GET", Root)] = staticHandler(s)]
         ELSE handlers[s]]
  /\ mux' = [s \in Side |->
       IF registersStatic(s, c) THEN Handle(mux[s], staticHandler(s))
                                ELSE mux[s]]
  /\ listeners' = [s \in Side |->
       IF s \in R THEN restarted(s, sv, held(s)) ELSE listeners[s]]
  /\ sockets' = (sockets \ (freed("private") \cup freed("public")))
                   \cup up("private", held1) \cup up("public", held2)
  /\ failed' = [s \in Side |->
       IF s \in R THEN restartFails(s, sv, held(s)) ELSE failed[s]]
  /\ UNCHANGED panicked

(***************************************************************************)
(* cfgNet returns at once when this run mode serves nothing.  A panic of   *)
(* registerHandler inside Configure ends the process: nothing on the way   *)
(* up recovers it and goes on.                                             *)
(***************************************************************************)
cfgNet(force) ==
  \/ /\ ~InitSrv
     /\ UNCHANGED <<handlers, mux, srv, listeners, sockets, failed, panicked>>
  \/ /\ InitSrv
     /\ configurePanics(cfg)
     /\ panicked' = TRUE
     /\ UNCHANGED <<handlers, mux, srv, listeners, sockets, failed>>
  \/ /\ InitSrv
     /\ ~configurePanics(cfg)
     /\ \E taken \in TakenSets : Configure(cfg, force, taken)

(***************************************************************************)
(* netEnumAddrs.  An address starts at -1 when it is known and at 0 when   *)
(* it is not, and every listing adds one; -1 counts as removed and 1 as    *)
(* added, every other number as unchanged.                                 *)
(***************************************************************************)
found == {a \in Addr : ifaces[a] > 0}

\* Mutant: addresses that have gone are not counted.
changeCountAdded ==
  Cardinality({a \in Addr :
    (IF a \in localAddrs THEN ifaces[a] - 1 ELSE ifaces[a]) = 1})

changeCount ==
  Cardinality({a \in Addr :
    (IF a \in localAddrs THEN ifaces[a] - 1 ELSE ifaces[a]) \in {-1, 1}})

-----------------------------------------------------------------------------
(***************************************************************************)
(* netInit has enumerated the addresses and started the monitor; the       *)
(* subscription of onCfgChange owes the first call, with change count 0.   *)
(***************************************************************************)
Init ==
  /\ HInit
  /\ srv = [port |-> [s \in Side |-> 0], tlsPort |-> [s \in Side |-> 0],
            dir |-> [s \in Side |-> noDir], ignore |-> {},
            redirect |-> [s \in Side |-> FALSE], tlsCfg |-> noCert]
  /\ listeners = [s \in Side |-> [b \in Bind |-> noListener]]
  /\ sockets = {}
  /\ failed = [s \in Side |-> {}]
  /\ ifaces \in [Addr -> 0..MaxDup]
  /\ localAddrs = found
  /\ cfg \in InitCfgs
  /\ pending = {0}
  /\ monitor = "wait"
  /\ phase = "run"
  /\ panicked = FALSE
  /\ env = 0

(***************************************************************************)
(* The ini package: the file changes and is parsed, and a notification is  *)
(* owed until it is delivered or ini.Shutdown stops the package.           *)
(***************************************************************************)
EditConfig ==
  /\ ~panicked /\ phase # "down" /\ env < MaxEnv
  /\ \E c \in Configs \ {cfg} : cfg' = c
  /\ pending' = pending \cup {1}
  /\ env' = env + 1
  /\ UNCHANGED <<rvars, srv, listeners, sockets, failed, localAddrs, ifaces,
                 monitor, phase, panicked>>

onCfgChange(n) ==
  /\ ~panicked /\ phase # "down"
  /\ n \in pending /\ \A m \in pending : n <= m
  /\ pending' = pending \ {n}
  /\ cfgNet(n = 0)
  /\ UNCHANGED <<initPos, ops, localAddrs, ifaces, cfg, monitor, phase, env>>

\* An interface comes up, goes down or changes its addresses.
IfaceChange ==
  /\ ~panicked /\ env < MaxEnv
  /\ \E a \in Addr, n \in 0..MaxDup :
       n # ifaces[a] /\ ifaces' = [ifaces EXCEPT ![a] = n]
  /\ env' = env + 1
  /\ UNCHANGED <<rvars, srv, listeners, sockets, failed, localAddrs, cfg,
                 pending, monitor, phase, panicked>>

(***************************************************************************)
(* A listener's Accept fails for good: http.Server.Serve returns and its   *)
(* deferred Close closes the listener, which stays in the map.             *)
(***************************************************************************)
ServeFails ==
  /\ ~panicked /\ env < MaxEnv
  /\ \E s \in Side : \E b \in openOf(s) :
       /\ listeners' = [listeners EXCEPT ![s][b].state = "closing"]
       /\ sockets' = sockets \ {b}
  /\ env' = env + 1
  /\ UNCHANGED <<rvars, srv, failed, localAddrs, ifaces, cfg, pending, monitor,
                 phase, panicked>>

-----------------------------------------------------------------------------
(***************************************************************************)
(* The monitor.  Its select may still take the timer when the shutdown     *)
(* signal is there as well.                                                *)
(***************************************************************************)
MonitorTick ==
  /\ ~panicked /\ monitor = "wait"
  /\ localAddrs' = found
  /\ monitor' = IF changeCount > 0 THEN "changed" ELSE "wait"
  /\ UNCHANGED <<rvars, srv, listeners, sockets, failed, ifaces, cfg, pending,
                 phase, panicked, env>>

\* netEnumAddrs panics when net.InterfaceAddrs fails, which ends the process
EnumFails ==
  /\ ~panicked /\ monitor = "wait"
  /\ panicked' = TRUE
  /\ UNCHANGED <<rvars, srv, listeners, sockets, failed, localAddrs, ifaces, cfg,
                 pending, monitor, phase, env>>

MonitorCfg ==
  /\ ~panicked /\ monitor = "changed"
  /\ cfgNet(TRUE)
  /\ monitor' = "wait"
  /\ UNCHANGED <<initPos, ops, localAddrs, ifaces, cfg, pending, phase, env>>

MonitorExit ==
  /\ ~panicked /\ monitor = "wait"
  /\ phase \notin {"run", "httpDown"}
  /\ monitor' = "exited"
  /\ UNCHANGED <<rvars, srv, listeners, sockets, failed, localAddrs, ifaces,
                 cfg, pending, phase, panicked, env>>

-----------------------------------------------------------------------------
(***************************************************************************)
(* netShutdown and the ini.Shutdown that follows it.                       *)
(***************************************************************************)
Shutdown ==
  /\ ~panicked /\ phase = "run"
  /\ phase' = "httpDown"
  /\ listeners' = [s \in Side |-> [b \in Bind |->
       IF b \in openOf(s) THEN [listeners[s][b] EXCEPT !.state = "closing"]
                          ELSE listeners[s][b]]]
  /\ sockets' = sockets \ (openOf("private") \cup openOf("public"))
  /\ UNCHANGED <<rvars, srv, failed, localAddrs, ifaces, cfg, pending, monitor,
                 panicked, env>>

\* netShutdownSync.Start()
SignalMonitor ==
  /\ ~panicked /\ phase = "httpDown"
  /\ phase' = "signalled"
  /\ UNCHANGED <<rvars, srv, listeners, sockets, failed, localAddrs, ifaces,
                 cfg, pending, monitor, panicked, env>>

\* netShutdownSync.WaitForTimeout(): the monitor is done or time is up
WaitMonitor ==
  /\ ~panicked /\ phase = "signalled"
  /\ phase' = "netDown"
  /\ UNCHANGED <<rvars, srv, listeners, sockets, failed, localAddrs, ifaces,
                 cfg, pending, monitor, panicked, env>>

IniShutdown ==
  /\ ~panicked /\ phase = "netDown"
  /\ phase' = "down"
  /\ pending' = {}
  /\ UNCHANGED <<rvars, srv, listeners, sockets, failed, localAddrs, ifaces,
                 cfg, monitor, panicked, env>>

\* The application's registrations, from Handlers.
AppRegister ==
  /\ ~panicked
  /\ \E r \in RegChoice : RegisterHandler(r)
  /\ UNCHANGED svars

AppRemove ==
  /\ ~panicked
  /\ \E method \in Method, path \in Path : RemoveHandler(method, path)
  /\ UNCHANGED svars

Next ==
  \/ EditConfig \/ IfaceChange \/ ServeFails
  \/ \E n \in {0, 1} : onCfgChange(n)
  \/ MonitorTick \/ EnumFails \/ MonitorCfg \/ MonitorExit
  \/ Shutdown \/ SignalMonitor \/ WaitMonitor \/ IniShutdown
  \/ AppRegister \/ AppRemove

Spec == Init /\ [][Next]_vars

(***************************************************************************)
(* Fairness: the ini package delivers what it owes, the monitor's timer    *)
(* fires every minute and the monitor goes on after it.                    *)
(***************************************************************************)
Fairness ==
  /\ \A n \in {0, 1} : WF_vars(onCfgChange(n))
  /\ WF_vars(MonitorTick)
  /\ WF_vars(MonitorCfg)

FairSpec == Spec /\ Fairness

-----------------------------------------------------------------------------
(***************************************************************************)
(* Type invariant of the server, its listeners and their environment.      *)
(***************************************************************************)
SrvTypeOK ==
  /\ HandlersTypeOK
  /\ srv \in Srv
  /\ listeners \in [Side -> [Bind -> Listener]]
  /\ sockets \in SUBSET Bind
  /\ failed \in [Side -> SUBSET Bind]
  /\ localAddrs \in SUBSET Addr
  /\ ifaces \in [Addr -> 0..MaxDup]
  /\ cfg \in Configs
  /\ pending \in SUBSET {0, 1}
  /\ monitor \in {"wait", "changed", "exited"}
  /\ phase \in {"run", "httpDown", "signalled", "netDown", "down"}
  /\ panicked \in BOOLEAN
  /\ env \in Nat

(***************************************************************************)
(* The private multiplexer, with its admin handlers, is never bound to an  *)
(* address outside the private networks, nor the public one to an address  *)
(* inside: whatever the ignore list says, and however it changes while     *)
(* listeners are open (restartPrivateHttp, restartPublicHttp).             *)
(***************************************************************************)
SideSeparation ==
  /\ \A b \in inMap("private") : b[1] \in PrivateNet
  /\ \A b \in inMap("public") : b[1] \notin PrivateNet

(***************************************************************************)
(* No listening socket is lost: the process holds exactly the sockets of   *)
(* the open listeners in its two maps, whatever restarts, failed binds,    *)
(* dying listeners and a shutdown in the middle of a reconfiguration do.   *)
(* A socket outside the maps could never be closed by Shutdown.            *)
(***************************************************************************)
SocketsOwned ==
  /\ sockets = openOf("private") \cup openOf("public")
  /\ openOf("private") \cap openOf("public") = {}

\* No reconfiguration is under way or owed.
quiet == phase = "run" /\ pending = {} /\ monitor = "wait" /\ ~panicked

(***************************************************************************)
(* When no reconfiguration is owed, every listener in the maps belongs to  *)
(* an address the machine had at the last enumeration and to a port its    *)
(* side has now: no listener survives the removal of its address or the    *)
(* change of its port, in whatever order the two are noticed.              *)
(***************************************************************************)
NothingStale ==
  quiet => \A s \in Side : \A b \in inMap(s) :
    b[1] \in localAddrs /\ b[2] \in {srv.port[s], srv.tlsPort[s]}

(***************************************************************************)
(* When no reconfiguration is owed, every bind the settings ask for on the *)
(* known addresses is in its side's map, or was refused by the operating   *)
(* system when the side was last restarted (netEnumAddrs, cfgNet).         *)
(***************************************************************************)
Covered ==
  (quiet /\ InitSrv) => \A s \in Side :
    want(s, srv, localAddrs) \subseteq inMap(s) \cup failed[s]

(***************************************************************************)
(* A reconfiguration never takes down what it means to keep: an open       *)
(* listener leaves its map only when the new settings do not want it.      *)
(***************************************************************************)
KeepsWanted ==
  [][\A s \in Side : \A b \in openOf(s) :
       listeners'[s][b].state = "none"
         => b \notin want(s, srv', localAddrs)]_vars

(***************************************************************************)
(* The server follows its environment: once the ini file and the           *)
(* interfaces stop changing, either the server stops or every bind that    *)
(* the file asks for on the addresses the machine really has is in the     *)
(* maps, or was refused, and nothing else is (the monitor's poll).         *)
(***************************************************************************)
Follows ==
  <>[](\/ phase # "run" \/ panicked
       \/ \A s \in Side :
            LET w == want(s, configured(cfg), found)
            IN w \subseteq inMap(s) \cup failed[s] /\ inMap(s) \subseteq w)

-----------------------------------------------------------------------------
(***************************************************************************)
(* "ignore addresses for listen binding" (config.go:216): an address of    *)
(* the ignore list in force has no listener.                               *)
(***************************************************************************)
IgnoredNotBound ==
  quiet => \A s \in Side : \A b \in openOf(s) : b[1] \notin srv.ignore

(***************************************************************************)
(* "start up TLS listeners" (net.go:495): when certificates are loaded,    *)
(* the open listeners of a side's TLS port use them.                       *)
(***************************************************************************)
TLSListenersUseCerts ==
  (quiet /\ srv.tlsCfg # noCert) =>
    \A s \in Side : \A b \in openOf(s) :
      b[2] = srv.tlsPort[s] => listeners[s][b].tls = srv.tlsCfg

(***************************************************************************)
(* onCfgChange "passes the config information on to other functions to     *)
(* handle configuration" (config.go:25): applying a config never ends the  *)
(* process.                                                                *)
(***************************************************************************)
ReconfigureSurvives == [][(\E n \in {0, 1} : onCfgChange(n)) => ~panicked']_vars

(***************************************************************************)
(* "shutdown handles shutting down the server process" (srvApp.go:383):    *)
(* when netShutdown and ini.Shutdown are over, nothing listens.            *)
(***************************************************************************)
ClosedWhenDown == phase = "down" => sockets = {}
=============================================================================
