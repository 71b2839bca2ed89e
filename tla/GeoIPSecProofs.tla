--------------------------- MODULE GeoIPSecProofs ---------------------------
(***************************************************************************)
(* Proofs about geo-IP security, for every set of hosts, goroutines,       *)
(* countries and settings.                                                 *)
(*                                                                         *)
(* GInv follows the data of a call from the place where it was read to the *)
(* verdict: what the service told is only added to, so data that was told  *)
(* when a goroutine took it from the cache or from the service is still    *)
(* told when it is stored or judged, whatever the others do to the cache   *)
(* and to the settings in between.                                         *)
(***************************************************************************)
EXTENDS GeoIPSec, TLAPS

\* settings in force since the call began put its host inside, or outside, the
\* private networks
WasPrivate(p) == \E f \in inForce[p] : private(call[p].host, f)
WasRemote(p) == \E f \in inForce[p] : ~private(call[p].host, f)

\* the data a call has is of its host, or stands for a private host or for a
\* service that failed
Traced(p) ==
  \/ WasPrivate(p) /\ call[p].data = geoDataLocal
  \/ WasRemote(p) /\ call[p].data = geoDataUnknown
  \/ WasRemote(p) /\ call[p].data \in told[call[p].host]

\* a call that is under way has a host and the settings of its time
Under(p) ==
  pc[p] # "idle" => call[p].host \in Host /\ file \in inForce[p]

DataOf(p) ==
  /\ pc[p] \in {"lookup", "reading", "deleting", "ask", "store", "storing"} =>
       WasRemote(p)
  /\ pc[p] \in {"reading", "store", "storing"} => call[p].data \in told[call[p].host]
  /\ pc[p] = "check" => Traced(p)

Granted(p) ==
  (p \in Request /\ pc[p] = "done" /\ call[p].allowed) =>
    \E f \in inForce[p] : ~f.enabled \/ (call[p].data \in f.perms /\ Traced(p))

CallInv(p) == Under(p) /\ DataOf(p) /\ Granted(p)

GInv == GeoTypeOK /\ CachedWasTold /\ \A p \in Proc : CallInv(p)

PC == {"idle", "resolve", "lookup", "reading", "deleting", "ask", "store",
       "storing", "check", "done"}
CallType == [host : Host \cup {nil}, data : Data \cup {nil},
             allowed : BOOLEAN, stale : BOOLEAN]

-----------------------------------------------------------------------------
(***************************************************************************)
(* The initial states satisfy GInv.                                        *)
(***************************************************************************)
LEMMA InitGInv == Init => GInv
<1> SUFFICES ASSUME Init PROVE GInv
  OBVIOUS
<1>1. GeoTypeOK
  BY GeoAssumption DEF Init, GeoTypeOK, noCall
<1>2. CachedWasTold
  BY DEF Init, CachedWasTold
<1>3. \A p \in Proc : CallInv(p)
  BY DEF Init, CallInv, Under, DataOf, Granted
<1> QED
  BY <1>1, <1>2, <1>3 DEF GInv

(***************************************************************************)
(* What the service told stays told: a goroutine that a step leaves alone  *)
(* keeps its part of the invariant when told and the settings of its call  *)
(* only grow and the settings in force are among them.                     *)
(***************************************************************************)
LEMMA OthersKeep ==
  ASSUME NEW p \in Proc, CallInv(p), call'[p] = call[p], pc'[p] = pc[p],
         \A h \in Host : told[h] \subseteq told'[h],
         pc[p] # "idle" => inForce[p] \subseteq inForce'[p] /\ file' \in inForce'[p]
  PROVE  CallInv(p)'
<1>1. Under(p)'
  BY DEF CallInv, Under
<1>2. CASE pc[p] = "idle"
  BY <1>1, <1>2 DEF CallInv, DataOf, Granted
<1>3. CASE pc[p] # "idle"
  <2>1. told[call[p].host] \subseteq told'[call[p].host]
    BY <1>3 DEF CallInv, Under
  <2>0. (WasPrivate(p) => WasPrivate(p)') /\ (WasRemote(p) => WasRemote(p)')
    BY <1>3 DEF WasPrivate, WasRemote, private
  <2>2. Traced(p) => Traced(p)'
    BY <2>0, <2>1 DEF Traced
  <2>3. DataOf(p)'
    BY <2>0, <2>1, <2>2 DEF CallInv, DataOf
  <2>4. Granted(p)'
    BY <1>3, <2>2 DEF CallInv, Granted
  <2> QED
    BY <1>1, <2>3, <2>4 DEF CallInv
<1> QED
  BY <1>2, <1>3

(***************************************************************************)
(* The same for a step of one goroutine that leaves the settings and what  *)
(* was told alone.                                                         *)
(***************************************************************************)
LEMMA OthersUnchanged ==
  ASSUME GInv, NEW p \in Proc, NEW q \in Proc, p # q,
         call'[q] = call[q], pc'[q] = pc[q],
         UNCHANGED <<file, told, inForce>>
  PROVE  CallInv(q)'
BY OthersKeep DEF GInv, CallInv, Under

-----------------------------------------------------------------------------
(* One lemma for each action. *)

(***************************************************************************)
(* A call begins with the settings of that moment.                         *)
(***************************************************************************)
LEMMA BeginStep ==
  ASSUME GInv, NEW p \in Proc, NEW h \in Host, Begin(p, h)
  PROVE  GInv'
<1> USE DEF GInv
<1> DEFINE new == [noCall EXCEPT !.host = h, !.allowed = ~geoGetEnabled(p)]
<1>1. /\ pc' = [pc EXCEPT ![p] = IF geoGetEnabled(p) THEN "resolve" ELSE "done"]
      /\ call' = [call EXCEPT ![p] = new]
      /\ inForce' = [inForce EXCEPT ![p] = {file}]
      /\ UNCHANGED <<file, cache, fatal, told, thrown, changes, days>>
  BY DEF Begin, go
<1>2. /\ new \in CallType /\ new.host = h /\ new.data = nil
      /\ new.allowed = ~geoGetEnabled(p)
  BY DEF noCall, CallType, geoGetEnabled
<1>3. GeoTypeOK'
  BY <1>1, <1>2 DEF GeoTypeOK, CallType, cache
<1>4. CachedWasTold'
  BY <1>1 DEF CachedWasTold, cache
<1>5. CallInv(p)'
  <2>1. /\ call'[p] = new /\ inForce'[p] = {file} /\ file' = file
        /\ pc'[p] = IF geoGetEnabled(p) THEN "resolve" ELSE "done"
    BY <1>1 DEF GeoTypeOK
  <2>2. Under(p)'
    BY <1>2, <2>1 DEF Under
  <2>3. DataOf(p)'
    BY <2>1 DEF DataOf
  <2>4. Granted(p)'
    BY <1>2, <2>1, GeoAssumption DEF Granted, geoGetEnabled
  <2> QED
    BY <2>2, <2>3, <2>4 DEF CallInv
<1>6. ASSUME NEW q \in Proc, q # p PROVE CallInv(q)'
  <2>1. /\ call'[q] = call[q] /\ pc'[q] = pc[q] /\ inForce'[q] = inForce[q]
        /\ UNCHANGED <<file, told>>
    BY <1>1, <1>6 DEF GeoTypeOK
  <2> QED
    BY <2>1, OthersKeep DEF CallInv, Under
<1> QED
  BY <1>3, <1>4, <1>5, <1>6

(***************************************************************************)
(* A step of one goroutine that changes neither cache nor history: only    *)
(* its own part of the invariant has to be shown.                          *)
(***************************************************************************)
LEMMA PrivateStep ==
  ASSUME GInv, NEW p \in Proc, NEW to \in PC, NEW c \in CallType,
         pc' = [pc EXCEPT ![p] = to], call' = [call EXCEPT ![p] = c],
         UNCHANGED <<file, cache, fatal, told, inForce, thrown>>,
         to \in {"store", "storing", "check"} => c.data # nil,
         CallInv(p)'
  PROVE  GInv'
<1> USE DEF GInv
<1>1. GeoTypeOK'
  BY DEF GeoTypeOK, cache, PC, CallType
<1>2. CachedWasTold'
  BY DEF CachedWasTold, cache
<1>3. ASSUME NEW q \in Proc, q # p PROVE CallInv(q)'
  <2>1. call'[q] = call[q] /\ pc'[q] = pc[q]
    BY <1>3 DEF GeoTypeOK
  <2> QED
    BY <1>3, <2>1, OthersUnchanged
<1> QED
  BY <1>1, <1>2, <1>3

(***************************************************************************)
(* What a goroutine's call looks like while it is under way.               *)
(***************************************************************************)
LEMMA CallFacts ==
  ASSUME GInv, NEW p \in Proc, pc[p] # "idle"
  PROVE  /\ call[p] \in CallType /\ call[p].host \in Host
         /\ file \in inForce[p]
         /\ told[call[p].host] \subseteq Country
         /\ CallInv(p)
BY DEF GInv, GeoTypeOK, CallType, CallInv, Under

(***************************************************************************)
(* An answer of the service is data and not nil.                           *)
(***************************************************************************)
LEMMA CountryIsData ==
  /\ \A c \in Country : c \in Data /\ c # nil
  /\ geoDataLocal \in Data /\ geoDataLocal # nil
  /\ geoDataUnknown \in Data /\ geoDataUnknown # nil
BY GeoAssumption DEF Data

(***************************************************************************)
(* A step that keeps the settings and the host of a call keeps what is     *)
(* known of the host.                                                      *)
(***************************************************************************)
LEMMA SamePlace ==
  ASSUME NEW p \in Proc, inForce' = inForce, call'[p].host = call[p].host
  PROVE  (WasPrivate(p)' <=> WasPrivate(p)) /\ (WasRemote(p)' <=> WasRemote(p))
BY DEF WasPrivate, WasRemote, private

(***************************************************************************)
(* Whether the host is private is asked under the settings of that moment. *)
(***************************************************************************)
LEMMA IsPrivateStep ==
  ASSUME GInv, NEW p \in Proc, IsPrivateNetwork(p)
  PROVE  GInv'
<1> DEFINE yes == private(call[p].host, file)
           to == IF yes THEN "check" ELSE "lookup"
           d == IF yes THEN geoDataLocal ELSE nil
           c == [call[p] EXCEPT !.data = d]
<1>1. /\ pc[p] = "resolve" /\ UNCHANGED <<file, cache, fatal, told, inForce, thrown>>
      /\ pc' = [pc EXCEPT ![p] = to] /\ call' = [call EXCEPT ![p] = c]
  BY DEF IsPrivateNetwork, env, history, go
<1>2. /\ call[p] \in CallType /\ call[p].host \in Host /\ file \in inForce[p]
  BY <1>1, CallFacts
<1>3. d \in Data \cup {nil} /\ (yes => d = geoDataLocal /\ d # nil)
  BY CountryIsData
<1>4. c \in CallType /\ c.host = call[p].host /\ c.data = d
  BY <1>2, <1>3 DEF CallType
<1>5. pc'[p] = to /\ call'[p] = c
  BY <1>1 DEF GInv, GeoTypeOK
<1>6. IF yes THEN WasPrivate(p)' ELSE WasRemote(p)'
  <2>1. IF yes THEN WasPrivate(p) ELSE WasRemote(p)
    BY <1>2 DEF WasPrivate, WasRemote
  <2>2. inForce' = inForce /\ call'[p].host = call[p].host
    BY <1>1, <1>4, <1>5
  <2> QED
    BY <2>1, <2>2, SamePlace
<1>7. CallInv(p)'
  <2>1. Under(p)'
    BY <1>1, <1>2, <1>4, <1>5 DEF Under
  <2>2. DataOf(p)' /\ Granted(p)'
    BY <1>3, <1>4, <1>5, <1>6 DEF DataOf, Granted, Traced
  <2> QED
    BY <2>1, <2>2 DEF CallInv
<1>8. to \in PC /\ (to \in {"store", "storing", "check"} => c.data # nil)
  BY <1>3, <1>4 DEF PC
<1> HIDE DEF c, to
<1> QED
  BY <1>1, <1>4, <1>7, <1>8, PrivateStep

(***************************************************************************)
(* The cache has an entry for the host, or has none.                       *)
(***************************************************************************)
LEMMA LookUpStep ==
  ASSUME GInv, NEW p \in Proc, LookUp(p)
  PROVE  GInv'
<1> DEFINE h == call[p].host
           ok == geoDataMap[h] # nil
           to == IF ok THEN "reading" ELSE "ask"
           c == [call[p] EXCEPT !.data = geoDataMap[h]]
<1>1. /\ pc[p] = "lookup" /\ UNCHANGED <<file, cache, fatal, told, inForce, thrown>>
      /\ pc' = [pc EXCEPT ![p] = to] /\ call' = [call EXCEPT ![p] = c]
  BY DEF LookUp, env, history, go
<1>2. /\ call[p] \in CallType /\ h \in Host /\ file \in inForce[p]
      /\ WasRemote(p)
  BY <1>1, CallFacts DEF CallInv, DataOf
<1>3. /\ geoDataMap[h] \in Data \cup {nil}
      /\ ok => geoDataMap[h] \in told[h]
  BY <1>2 DEF GInv, GeoTypeOK, CachedWasTold
<1>4. c \in CallType /\ c.host = h /\ c.data = geoDataMap[h]
  BY <1>2, <1>3 DEF CallType
<1>5. pc'[p] = to /\ call'[p] = c
  BY <1>1 DEF GInv, GeoTypeOK
<1>6. WasRemote(p)'
  BY <1>1, <1>2, <1>4, <1>5, SamePlace
<1>9. Under(p)'
  BY <1>1, <1>2, <1>4, <1>5 DEF Under
<1>10. to = "reading" => call'[p].data \in told'[call'[p].host]
  BY <1>1, <1>3, <1>4, <1>5
<1>11. DataOf(p)' /\ Granted(p)'
  BY <1>5, <1>6, <1>10 DEF DataOf, Granted
<1>7. CallInv(p)'
  BY <1>9, <1>11 DEF CallInv
<1>8. to \in PC /\ to \notin {"store", "storing", "check"}
  BY DEF PC
<1> HIDE DEF c, to
<1> QED
  BY <1>1, <1>4, <1>7, <1>8, PrivateStep

(***************************************************************************)
(* The age of a cached entry decides between it and the service.           *)
(***************************************************************************)
LEMMA AgedStep ==
  ASSUME GInv, NEW p \in Proc, Aged(p)
  PROVE  GInv'
<1> DEFINE old == geoLastUpdate[call[p].host] = "old"
           to == IF old THEN "deleting" ELSE "check"
           st == ~old /\ call[p].host \in thrown
           c == [call[p] EXCEPT !.stale = st]
<1>1. /\ pc[p] = "reading" /\ UNCHANGED <<file, cache, fatal, told, inForce, thrown>>
      /\ pc' = [pc EXCEPT ![p] = to] /\ call' = [call EXCEPT ![p] = c]
  BY DEF Aged, env, history, go
<1>2. /\ call[p] \in CallType /\ call[p].host \in Host /\ file \in inForce[p]
      /\ WasRemote(p) /\ call[p].data \in told[call[p].host]
      /\ call[p].data # nil
  BY <1>1, CallFacts, CountryIsData DEF CallInv, DataOf
<1>3. st \in BOOLEAN
  OBVIOUS
<1>4. /\ c \in CallType /\ c.host = call[p].host /\ c.data = call[p].data
      /\ c.allowed = call[p].allowed
  BY <1>2, <1>3 DEF CallType
<1>5. pc'[p] = to /\ call'[p] = c
  BY <1>1 DEF GInv, GeoTypeOK
<1>8. WasRemote(p)'
  BY <1>1, <1>2, <1>4, <1>5, SamePlace
<1>6. CallInv(p)'
  BY <1>1, <1>2, <1>4, <1>5, <1>8 DEF CallInv, Under, DataOf, Granted, Traced
<1>7. to \in PC
  BY DEF PC
<1> HIDE DEF c, to
<1> QED
  BY <1>1, <1>2, <1>4, <1>6, <1>7, PrivateStep

(***************************************************************************)
(* An old entry loses its refresh time, not its data.                      *)
(***************************************************************************)
LEMMA ThrowAwayStep ==
  ASSUME GInv, NEW p \in Proc, ThrowAway(p)
  PROVE  GInv'
<1> USE DEF GInv
<1>1. /\ pc[p] = "deleting" /\ pc' = [pc EXCEPT ![p] = "ask"]
      /\ geoLastUpdate' = [geoLastUpdate EXCEPT ![call[p].host] = "none"]
      /\ thrown' = thrown \cup {call[p].host}
      /\ UNCHANGED <<file, geoDataMap, call, fatal, told, inForce>>
  BY DEF ThrowAway, go, env
<1>2. call[p].host \in Host /\ CallInv(p)
  BY <1>1, CallFacts
<1>3. GeoTypeOK'
  BY <1>1, <1>2 DEF GeoTypeOK
<1>4. CachedWasTold'
  BY <1>1, <1>2 DEF CachedWasTold, GeoTypeOK
<1>7. WasRemote(p)'
  BY <1>1, <1>2, SamePlace DEF CallInv, DataOf
<1>5. CallInv(p)'
  BY <1>1, <1>2, <1>7 DEF CallInv, Under, DataOf, Granted, GeoTypeOK
<1>6. ASSUME NEW q \in Proc, q # p PROVE CallInv(q)'
  <2>1. call'[q] = call[q] /\ pc'[q] = pc[q]
    BY <1>1, <1>6 DEF GeoTypeOK
  <2> QED
    BY <1>1, <1>6, <2>1, OthersUnchanged
<1> QED
  BY <1>3, <1>4, <1>5, <1>6

(***************************************************************************)
(* The service answers.                                                    *)
(***************************************************************************)
LEMMA AnswerStep ==
  ASSUME GInv, NEW p \in Proc, NEW a \in Country, Answer(p, a)
  PROVE  GInv'
<1> USE DEF GInv
<1> DEFINE h == call[p].host
           c == [call[p] EXCEPT !.data = a]
<1>1. /\ pc[p] = "ask" /\ pc' = [pc EXCEPT ![p] = "store"]
      /\ call' = [call EXCEPT ![p] = c]
      /\ told' = [told EXCEPT ![h] = @ \cup {a}]
      /\ UNCHANGED <<file, cache, fatal, inForce, thrown>>
  BY DEF Answer, go, env
<1>2. /\ call[p] \in CallType /\ h \in Host /\ WasRemote(p)
      /\ file \in inForce[p]
  BY <1>1, CallFacts DEF CallInv, DataOf
<1>3. c \in CallType /\ c.host = h /\ c.data = a
  BY <1>2, CountryIsData DEF CallType
<1>4. pc'[p] = "store" /\ call'[p] = c /\ a \in told'[h]
  BY <1>1, <1>2 DEF GeoTypeOK
<1>5. \A g \in Host : told[g] \subseteq told'[g]
  BY <1>1 DEF GeoTypeOK
<1>6. GeoTypeOK'
  BY <1>1, <1>2, <1>3, CountryIsData DEF GeoTypeOK, cache, CallType
<1>7. CachedWasTold'
  BY <1>1, <1>5 DEF CachedWasTold, cache
<1>10. WasRemote(p)'
  BY <1>1, <1>2, <1>3, <1>4, SamePlace
<1>8. CallInv(p)'
  BY <1>1, <1>2, <1>3, <1>4, <1>10 DEF CallInv, Under, DataOf, Granted
<1>9. ASSUME NEW q \in Proc, q # p PROVE CallInv(q)'
  <2>1. call'[q] = call[q] /\ pc'[q] = pc[q]
    BY <1>1, <1>9 DEF GeoTypeOK
  <2> QED
    BY <1>1, <1>5, <2>1, OthersKeep DEF CallInv, Under
<1> QED
  BY <1>6, <1>7, <1>8, <1>9

(***************************************************************************)
(* The service fails.                                                      *)
(***************************************************************************)
LEMMA FailStep ==
  ASSUME GInv, NEW p \in Proc, Fail(p)
  PROVE  GInv'
<1> DEFINE c == [call[p] EXCEPT !.data = geoDataUnknown]
<1>1. /\ pc[p] = "ask" /\ UNCHANGED <<file, cache, fatal, told, inForce, thrown>>
      /\ pc' = [pc EXCEPT ![p] = "check"] /\ call' = [call EXCEPT ![p] = c]
  BY DEF Fail, env, history, go
<1>2. /\ call[p] \in CallType /\ call[p].host \in Host
      /\ WasRemote(p) /\ file \in inForce[p]
  BY <1>1, CallFacts DEF CallInv, DataOf
<1>3. c \in CallType /\ c.host = call[p].host /\ c.data = geoDataUnknown
  BY <1>2, CountryIsData DEF CallType
<1>4. pc'[p] = "check" /\ call'[p] = c
  BY <1>1 DEF GInv, GeoTypeOK
<1>7. WasRemote(p)'
  BY <1>1, <1>2, <1>3, <1>4, SamePlace
<1>5. CallInv(p)'
  BY <1>1, <1>2, <1>3, <1>4, <1>7 DEF CallInv, Under, DataOf, Granted, Traced
<1>6. "check" \in PC
  BY DEF PC
<1> QED
  BY <1>1, <1>3, <1>5, <1>6, CountryIsData, PrivateStep

(***************************************************************************)
(* The answer is stored in two maps, under the lock.                       *)
(***************************************************************************)
LEMMA StoreBeginStep ==
  ASSUME GInv, NEW p \in Proc, StoreBegin(p)
  PROVE  GInv'
<1>1. /\ pc[p] = "store" /\ UNCHANGED <<file, cache, fatal, told, inForce, thrown>>
      /\ pc' = [pc EXCEPT ![p] = "storing"] /\ call' = call
  BY DEF StoreBegin, env, history, go
<1>2. /\ call[p] \in CallType /\ call[p].data # nil /\ CallInv(p)
      /\ call' = [call EXCEPT ![p] = call[p]]
  BY <1>1, CallFacts DEF GInv, GeoTypeOK
<1>3. pc'[p] = "storing"
  BY <1>1 DEF GInv, GeoTypeOK
<1>6. WasRemote(p)'
  BY <1>1, <1>2, SamePlace DEF CallInv, DataOf
<1>4. CallInv(p)'
  BY <1>1, <1>2, <1>3, <1>6 DEF CallInv, Under, DataOf, Granted
<1>5. "storing" \in PC
  BY DEF PC
<1> QED
  BY <1>1, <1>2, <1>4, <1>5, PrivateStep

(***************************************************************************)
(* Both maps get the answer, which was told for this host.                 *)
(***************************************************************************)
LEMMA StoreEndStep ==
  ASSUME GInv, NEW p \in Proc, StoreEnd(p)
  PROVE  GInv'
<1> USE DEF GInv
<1> DEFINE h == call[p].host
<1>1. /\ pc[p] = "storing" /\ pc' = [pc EXCEPT ![p] = "check"]
      /\ geoDataMap' = [geoDataMap EXCEPT ![h] = call[p].data]
      /\ geoLastUpdate' = [geoLastUpdate EXCEPT ![h] = "fresh"]
      /\ thrown' = thrown \ {h}
      /\ UNCHANGED <<file, call, fatal, told, inForce>>
  BY DEF StoreEnd, go, env
<1>2. /\ h \in Host /\ WasRemote(p) /\ call[p].data \in told[h]
      /\ call[p].data \in Data /\ call[p].data # nil /\ CallInv(p)
  BY <1>1, CallFacts, CountryIsData DEF CallInv, DataOf
<1>3. GeoTypeOK'
  BY <1>1, <1>2 DEF GeoTypeOK
<1>4. CachedWasTold'
  BY <1>1, <1>2 DEF CachedWasTold, GeoTypeOK
<1>7. WasRemote(p)'
  BY <1>1, <1>2, SamePlace
<1>5. CallInv(p)'
  BY <1>1, <1>2, <1>7 DEF CallInv, Under, DataOf, Granted, Traced, GeoTypeOK
<1>6. ASSUME NEW q \in Proc, q # p PROVE CallInv(q)'
  <2>1. call'[q] = call[q] /\ pc'[q] = pc[q]
    BY <1>1, <1>6 DEF GeoTypeOK
  <2> QED
    BY <1>1, <1>6, <2>1, OthersUnchanged
<1> QED
  BY <1>3, <1>4, <1>5, <1>6

(***************************************************************************)
(* The verdict: the settings it rests on are in force at this very step.   *)
(***************************************************************************)
LEMMA CheckStep ==
  ASSUME GInv, NEW p \in Proc, Check(p)
  PROVE  GInv'
<1> DEFINE v == p \in Request /\ permitted(call[p].data)
           c == [call[p] EXCEPT !.allowed = v]
<1>1. /\ pc[p] = "check" /\ UNCHANGED <<file, cache, fatal, told, inForce, thrown>>
      /\ pc' = [pc EXCEPT ![p] = "done"] /\ call' = [call EXCEPT ![p] = c]
  BY DEF Check, env, history, go
<1>2. /\ call[p] \in CallType /\ call[p].host \in Host
      /\ file \in inForce[p] /\ Traced(p)
  BY <1>1, CallFacts DEF CallInv, DataOf
<1>3. v \in BOOLEAN
  BY DEF permitted
<1>4. /\ c \in CallType /\ c.host = call[p].host /\ c.data = call[p].data
      /\ c.allowed = v
  BY <1>2, <1>3 DEF CallType
<1>5. pc'[p] = "done" /\ call'[p] = c
  BY <1>1 DEF GInv, GeoTypeOK
<1>6. CallInv(p)'
  <2>1. Traced(p)'
    BY <1>1, <1>2, <1>4, <1>5, SamePlace DEF Traced
  <2>2. Granted(p)'
    BY <1>1, <1>2, <1>4, <1>5, <2>1 DEF Granted, permitted
  <2> QED
    BY <1>1, <1>2, <1>4, <1>5, <2>2 DEF CallInv, Under, DataOf
<1>7. "done" \in PC
  BY DEF PC
<1> HIDE DEF c
<1> QED
  BY <1>1, <1>4, <1>6, <1>7, PrivateStep

(***************************************************************************)
(* The call returns.                                                       *)
(***************************************************************************)
LEMMA FinishStep ==
  ASSUME GInv, NEW p \in Proc, Finish(p)
  PROVE  GInv'
<1>1. /\ UNCHANGED <<file, cache, fatal, told, inForce, thrown>>
      /\ pc' = [pc EXCEPT ![p] = "idle"] /\ call' = [call EXCEPT ![p] = noCall]
  BY DEF Finish, env, history, go
<1>2. noCall \in CallType /\ "idle" \in PC
  BY DEF noCall, CallType, PC
<1>3. pc'[p] = "idle"
  BY <1>1 DEF GInv, GeoTypeOK
<1>4. CallInv(p)'
  BY <1>3 DEF CallInv, Under, DataOf, Granted
<1> QED
  BY <1>1, <1>2, <1>4, PrivateStep

(***************************************************************************)
(* New settings, or a new ignore list, reach the calls that are under way. *)
(***************************************************************************)
LEMMA ConfigStep ==
  ASSUME GInv, NEW f \in File, geoOnConfigChange(f) \/ Configure(f)
  PROVE  GInv'
<1> USE DEF GInv
<1>1. /\ file' = f
      /\ inForce' = [p \in Proc |-> IF pc[p] = "idle" THEN {} ELSE inForce[p] \cup {f}]
      /\ UNCHANGED <<cache, pc, call, fatal, told, thrown>>
  BY DEF geoOnConfigChange, Configure, adopt
<1>2. GeoTypeOK'
  BY <1>1 DEF GeoTypeOK, cache
<1>3. CachedWasTold'
  BY <1>1 DEF CachedWasTold, cache
<1>4. ASSUME NEW p \in Proc PROVE CallInv(p)'
  BY <1>1, OthersKeep
<1> QED
  BY <1>2, <1>3, <1>4

(***************************************************************************)
(* Every step keeps GInv.                                                  *)
(***************************************************************************)
LEMMA NextGInv == GInv /\ [Next]_vars => GInv'
<1> SUFFICES ASSUME GInv, [Next]_vars PROVE GInv'
  OBVIOUS
<1>1. ASSUME NEW h \in Host, GrowOld(h) PROVE GInv'
  <2>1. /\ geoLastUpdate[h] = "fresh"
        /\ geoLastUpdate' = [geoLastUpdate EXCEPT ![h] = "old"]
        /\ UNCHANGED <<file, geoDataMap, pc, call, fatal, told, inForce, thrown>>
    BY <1>1 DEF GrowOld, history
  <2>2. GeoTypeOK' /\ CachedWasTold'
    BY <2>1 DEF GInv, GeoTypeOK, CachedWasTold
  <2>3. ASSUME NEW p \in Proc PROVE CallInv(p)'
    BY <2>1, OthersKeep DEF GInv, CallInv, Under
  <2> QED
    BY <2>2, <2>3 DEF GInv
<1>2. CASE ConcurrentMapAccess
  <2>1. fatal' = TRUE /\ UNCHANGED <<file, cache, pc, call, told, inForce, thrown>>
    BY <1>2 DEF ConcurrentMapAccess, history
  <2>2. GeoTypeOK' /\ CachedWasTold'
    BY <2>1 DEF GInv, GeoTypeOK, CachedWasTold, cache
  <2>3. ASSUME NEW p \in Proc PROVE CallInv(p)'
    BY <2>1, OthersKeep DEF GInv, CallInv, Under
  <2> QED
    BY <2>2, <2>3 DEF GInv
<1>3. CASE UNCHANGED vars
  <2>1. UNCHANGED <<file, cache, pc, call, fatal, told, inForce, thrown>>
    BY <1>3 DEF vars, cache
  <2>2. GeoTypeOK' /\ CachedWasTold'
    BY <2>1 DEF GInv, GeoTypeOK, CachedWasTold, cache
  <2>3. ASSUME NEW p \in Proc PROVE CallInv(p)'
    BY <2>1, OthersKeep DEF GInv, CallInv, Under
  <2> QED
    BY <2>2, <2>3 DEF GInv
<1> QED
  BY <1>1, <1>2, <1>3, BeginStep, IsPrivateStep, LookUpStep, AgedStep,
     ThrowAwayStep, AnswerStep, FailStep, StoreBeginStep, StoreEndStep, CheckStep, FinishStep, ConfigStep
     DEF Next

-----------------------------------------------------------------------------
(***************************************************************************)
(* Every reachable state satisfies GInv.                                   *)
(***************************************************************************)
THEOREM GeoInvariant == Spec => []GInv
BY InitGInv, NextGInv, PTL DEF Spec

(***************************************************************************)
(* The types, and that geoResolveAddr returns no nil pointer.              *)
(***************************************************************************)
THEOREM GeoTypeCorrect == Spec => []GeoTypeOK
BY GeoInvariant, PTL DEF GInv

(***************************************************************************)
(* The cache holds what the service told for that host and nothing else,   *)
(* though one of its two maps is used without the lock.                    *)
(***************************************************************************)
THEOREM CacheIsTold == Spec => []CachedWasTold
BY GeoInvariant, PTL DEF GInv

(***************************************************************************)
(* A request is let in only by settings that were in force while it ran    *)
(* and for a country that belongs to its host (geoAuthorizeHost).          *)
(***************************************************************************)
THEOREM GrantsJustified == Spec => []GrantJustified
<1>1. GInv => GrantJustified
  <2> SUFFICES ASSUME GInv, NEW p \in Request, pc[p] = "done", call[p].allowed
               PROVE  \E f \in inForce[p] : ~f.enabled \/ (call[p].data \in f.perms /\ Traced(p))
    BY DEF GrantJustified, Traced, WasPrivate, WasRemote
  <2> QED
    BY DEF GInv, CallInv, Granted, Proc
<1> QED
  BY <1>1, GeoInvariant, PTL
=============================================================================
