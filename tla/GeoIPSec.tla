------------------------------ MODULE GeoIPSec ------------------------------
(***************************************************************************)
(* Geo-IP security (geoIPSec.go): the settings, the cache of the service's *)
(* answers, and the goroutines that use them.                              *)
(*                                                                         *)
(* A request calls geoAuthorizeHost; the recorder of ipStats.go only calls *)
(* geoResolveAddr.  A step is a critical section of geoCfgLock or of the   *)
(* web server's configLock, an access to the map geoLastUpdate where the   *)
(* code makes one without a lock, or a call of the service.  Such an       *)
(* access, and the section that stores an answer, have a begin and an end, *)
(* so that two of them may overlap: Go ends the process when it notices a  *)
(* map access during a write.                                              *)
(*                                                                         *)
(* The clock is one transition: 24 hours pass and an entry is old.  The    *)
(* service is external; it answers with a country or fails (no connection, *)
(* a body that cannot be read, or no JSON).                                *)
(***************************************************************************)
EXTENDS Naturals, FiniteSets

CONSTANTS Request,    \* goroutines that serve requests
          Recorder,   \* goroutines that record statistics
          Host,       \* addresses of clients
          Private,    \* the hosts inside privateNets
          Country,    \* countries the service answers
          File,       \* settings: whether enabled, the allowed countries,
                      \* and the ignored addresses
          MaxCalls,   \* bound: calls by requests and recorder
          MaxChanges, \* bound: changes of the ini file
          MaxDays     \* bound: entries that grow old

geoDataLocal == "RFC1918"
geoDataUnknown == "Unknown"
Data == Country \cup {geoDataLocal, geoDataUnknown}
nil == "nil"

Proc == Request \cup Recorder

ASSUME GeoAssumption ==
  /\ Request \cap Recorder = {}
  /\ Private \subseteq Host
  /\ nil \notin Data
  /\ {geoDataLocal, geoDataUnknown} \cap Country = {}
  /\ File \subseteq [enabled : BOOLEAN, perms : SUBSET Data, ignored : SUBSET Host]
  /\ MaxCalls \in Nat /\ MaxChanges \in Nat /\ MaxDays \in Nat

VARIABLES
  file,          \* geoSecEnabled, geoCountryPerms and ignoreAddrs
  geoDataMap,    \* cached country of a host, or nil
  geoLastUpdate, \* "fresh", "old" or "none"
  pc,            \* where a goroutine is
  call,          \* the host, data and verdict of its call
  fatal,         \* the runtime has ended the process
  told,          \* what the service has answered for a host (history)
  inForce,       \* the settings in force since a call began (history)
  thrown,        \* hosts whose old entry was thrown away since their last
                 \* refresh (history)
  calls, changes, days

vars == <<file, geoDataMap, geoLastUpdate, pc, call, fatal, told, inForce,
          thrown, calls, changes, days>>
cache == <<geoDataMap, geoLastUpdate>>
env == <<file, calls, changes, days, fatal>>
history == <<told, inForce, thrown>>

noCall == [host |-> nil, data |-> nil, allowed |-> FALSE, stale |-> FALSE]

Init ==
  /\ file \in File
  /\ geoDataMap = [h \in Host |-> nil]
  /\ geoLastUpdate = [h \in Host |-> "none"]
  /\ pc = [p \in Proc |-> "idle"]
  /\ call = [p \in Proc |-> noCall]
  /\ fatal = FALSE
  /\ told = [h \in Host |-> {}]
  /\ inForce = [p \in Proc |-> {}]
  /\ thrown = {}
  /\ calls = 0 /\ changes = 0 /\ days = 0

\* geoCfgLock is free, and the process still runs
unlocked == ~fatal /\ \A p \in Proc : pc[p] # "storing"

go(p, from, to) == pc[p] = from /\ pc' = [pc EXCEPT ![p] = to]

-----------------------------------------------------------------------------
(***************************************************************************)
(* The steps of a call.                                                    *)
(***************************************************************************)

\* a request asks geoGetEnabled first; the recorder does not
geoGetEnabled(p) == p \in Recorder \/ file.enabled

Begin(p, h) ==
  /\ unlocked
  /\ calls < MaxCalls
  /\ go(p, "idle", IF geoGetEnabled(p) THEN "resolve" ELSE "done")
  /\ call' = [call EXCEPT ![p] =
                [noCall EXCEPT !.host = h, !.allowed = ~geoGetEnabled(p)]]
  /\ inForce' = [inForce EXCEPT ![p] = {file}]
  /\ calls' = calls + 1
  /\ UNCHANGED <<file, cache, fatal, told, thrown, changes, days>>

\* isPrivateNetwork: an ignored address is in no private network
private(h, f) == h \in Private \ f.ignored

\* geoResolveAddr asks IsPrivateNetwork first, under configLock
IsPrivateNetwork(p) ==
  LET yes == private(call[p].host, file) IN
  /\ ~fatal
  /\ go(p, "resolve", IF yes THEN "check" ELSE "lookup")
  /\ call' = [call EXCEPT ![p].data = IF yes THEN geoDataLocal ELSE nil]
  /\ UNCHANGED <<env, cache, history>>

\* mutant: the second result of the map lookup is ignored
LookUpIgnoresOk(p) ==
  LET h == call[p].host IN
  /\ unlocked
  /\ go(p, "lookup", "reading")
  /\ call' = [call EXCEPT ![p].data = geoDataMap[h]]
  /\ UNCHANGED <<env, cache, history>>

\* the first look into the cache
LookUp(p) ==
  LET h == call[p].host
      ok == geoDataMap[h] # nil IN
  /\ unlocked
  /\ go(p, "lookup", IF ok THEN "reading" ELSE "ask")
  /\ call' = [call EXCEPT ![p].data = geoDataMap[h]]
  /\ UNCHANGED <<env, cache, history>>

\* geoLastUpdate[host], without the lock: an old entry is to be deleted, any
\* other cached entry is the answer
Aged(p) ==
  LET old == geoLastUpdate[call[p].host] = "old" IN
  /\ ~fatal /\ pc[p] = "reading"
  /\ go(p, "reading", IF old THEN "deleting" ELSE "check")
  /\ call' = [call EXCEPT ![p].stale = ~old /\ call[p].host \in thrown]
  /\ UNCHANGED <<env, cache, history>>

\* delete(geoLastUpdate, host), without the lock
ThrowAway(p) ==
  /\ ~fatal
  /\ go(p, "deleting", "ask")
  /\ geoLastUpdate' = [geoLastUpdate EXCEPT ![call[p].host] = "none"]
  /\ thrown' = thrown \cup {call[p].host}
  /\ UNCHANGED <<env, geoDataMap, call, told, inForce>>

\* the service answers with JSON; the code looks at no HTTP status, so an error
\* page that is JSON is an answer too
Answer(p, c) ==
  /\ ~fatal
  /\ go(p, "ask", "store")
  /\ call' = [call EXCEPT ![p].data = c]
  /\ told' = [told EXCEPT ![call[p].host] = @ \cup {c}]
  /\ UNCHANGED <<env, cache, inForce, thrown>>

\* mutant: a body that is no JSON is stored as well
FailStores(p) ==
  /\ ~fatal
  /\ go(p, "ask", "store")
  /\ call' = [call EXCEPT ![p].data = geoDataUnknown]
  /\ UNCHANGED <<env, cache, history>>

\* the service, the body or the JSON fails
Fail(p) ==
  /\ ~fatal
  /\ go(p, "ask", "check")
  /\ call' = [call EXCEPT ![p].data = geoDataUnknown]
  /\ UNCHANGED <<env, cache, history>>

StoreBegin(p) ==
  /\ unlocked
  /\ go(p, "store", "storing")
  /\ UNCHANGED <<env, cache, call, history>>

StoreEnd(p) ==
  LET h == call[p].host IN
  /\ ~fatal
  /\ go(p, "storing", "check")
  /\ geoDataMap' = [geoDataMap EXCEPT ![h] = call[p].data]
  /\ geoLastUpdate' = [geoLastUpdate EXCEPT ![h] = "fresh"]
  /\ thrown' = thrown \ {h}
  /\ UNCHANGED <<env, call, told, inForce>>

\* mutant: a country that the settings do not name is allowed
permittedByDefault(c) == c \in file.perms \/ c = geoDataUnknown

\* geoCountryPerms[country], FALSE when absent
permitted(c) == c \in file.perms

\* the end of geoAuthorizeHost; the recorder only takes the data
Check(p) ==
  /\ unlocked
  /\ go(p, "check", "done")
  /\ call' = [call EXCEPT ![p].allowed = p \in Request /\ permitted(call[p].data)]
  /\ UNCHANGED <<env, cache, history>>

Finish(p) ==
  /\ ~fatal
  /\ go(p, "done", "idle")
  /\ call' = [call EXCEPT ![p] = noCall]
  /\ UNCHANGED <<env, cache, history>>

-----------------------------------------------------------------------------
(***************************************************************************)
(* Everything else.                                                        *)
(***************************************************************************)

\* the settings become f, also for the calls that are under way
adopt(f) ==
  /\ changes < MaxChanges
  /\ f # file
  /\ file' = f
  /\ inForce' = [p \in Proc |-> IF pc[p] = "idle" THEN {} ELSE inForce[p] \cup {f}]
  /\ changes' = changes + 1
  /\ UNCHANGED <<cache, pc, call, fatal, told, thrown, calls, days>>

geoOnConfigChange(f) ==
  /\ unlocked
  /\ f.ignored = file.ignored
  /\ adopt(f)

\* the web server takes the ignore list under a lock of its own
Configure(f) ==
  /\ ~fatal
  /\ f.enabled = file.enabled /\ f.perms = file.perms
  /\ adopt(f)

\* more than 24 hours since the entry was stored
GrowOld(h) ==
  /\ geoLastUpdate[h] = "fresh"
  /\ days < MaxDays
  /\ geoLastUpdate' = [geoLastUpdate EXCEPT ![h] = "old"]
  /\ days' = days + 1
  /\ UNCHANGED <<file, geoDataMap, pc, call, fatal, history, calls, changes>>

writes(p) == pc[p] \in {"deleting", "storing"}
touches(p) == pc[p] \in {"reading", "deleting", "storing"}

racing == \E p, q \in Proc : p # q /\ writes(p) /\ touches(q)

\* the runtime may notice the overlap, or not
ConcurrentMapAccess ==
  /\ ~fatal
  /\ racing
  /\ fatal' = TRUE
  /\ UNCHANGED <<file, cache, pc, call, history, calls, changes, days>>

Next ==
  \/ \E p \in Proc :
       \/ \E h \in Host : Begin(p, h)
       \/ IsPrivateNetwork(p) \/ LookUp(p) \/ Aged(p) \/ ThrowAway(p)
       \/ \E c \in Country : Answer(p, c)
       \/ Fail(p) \/ StoreBegin(p) \/ StoreEnd(p) \/ Check(p) \/ Finish(p)
  \/ \E f \in File : geoOnConfigChange(f) \/ Configure(f)
  \/ \E h \in Host : GrowOld(h)
  \/ ConcurrentMapAccess

Spec == Init /\ [][Next]_vars

-----------------------------------------------------------------------------
\* The types, and that geoResolveAddr never returns a nil pointer, which
\* geoAuthorizeHost and the recorder would dereference.
GeoTypeOK ==
  /\ file \in File
  /\ geoDataMap \in [Host -> Data \cup {nil}]
  /\ geoLastUpdate \in [Host -> {"none", "fresh", "old"}]
  /\ pc \in [Proc -> {"idle", "resolve", "lookup", "reading", "deleting",
                      "ask", "store", "storing", "check", "done"}]
  /\ call \in [Proc -> [host : Host \cup {nil}, data : Data \cup {nil},
                        allowed : BOOLEAN, stale : BOOLEAN]]
  /\ fatal \in BOOLEAN
  /\ told \in [Host -> SUBSET Country]
  /\ inForce \in [Proc -> SUBSET File]
  /\ thrown \subseteq Host
  /\ \A p \in Proc : pc[p] \in {"store", "storing", "check"} => call[p].data # nil

\* Every grant is justified: while the request ran, settings were in force that
\* switch the check off, or that allow the country the request was taken to
\* come from; and that country is one the service told for this very host (in
\* this or in an earlier call, by any goroutine), unless the host was private
\* under an ignore list in force while the request ran, or the service failed.
\* Settings and ignore list may change between any two steps.
GrantJustified ==
  \A p \in Request : (pc[p] = "done" /\ call[p].allowed) =>
    LET h == call[p].host
        local == \E f \in inForce[p] : private(h, f)
        remote == \E f \in inForce[p] : ~private(h, f) IN
    \E f \in inForce[p] :
      \/ ~f.enabled
      \/ /\ call[p].data \in f.perms
         /\ \/ local /\ call[p].data = geoDataLocal
            \/ remote /\ call[p].data = geoDataUnknown
            \/ remote /\ call[p].data \in told[h]

\* A failure is never cached, nor one host's answer for another: the cache
\* holds what the service told for that host, and a refresh time only for hosts
\* that have an entry, though the two maps change under different protection.
CachedWasTold ==
  \A h \in Host :
    /\ geoDataMap[h] # nil => geoDataMap[h] \in told[h]
    /\ geoLastUpdate[h] # "none" => geoDataMap[h] # nil

\* "cached entry is more than 24 hrs old - throw it away" (geoIPSec.go:123): an
\* entry that was thrown away answers no call before the service has refreshed
\* it.  The code deletes the refresh time and keeps the entry.
ThrownAwayNotServed == \A p \in Proc : ~call[p].stale

\* "geo module config synchronization" (geoIPSec.go:46): geoCfgLock keeps the
\* maps from concurrent access, so the runtime has no reason to end the process.
MapsSynchronized == ~fatal
=============================================================================
