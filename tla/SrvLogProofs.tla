---------------------------- MODULE SrvLogProofs ----------------------------
(***************************************************************************)
(* Proofs about the log service, for every set of goroutines and names and *)
(* any number of calls and rotations.                                      *)
(*                                                                         *)
(* LogInv has a part for the lock (a reader of the base logger keeps a     *)
(* rotation out), one for the time between rotations, and one for the      *)
(* middle of a rotation: every slot that was visited holds logBuffer or a  *)
(* log that this rotation opened, every other slot holds an older log, and *)
(* a log that was rotated away is only found in a slot that is still to be *)
(* visited and will be given its successor.                                *)
(*                                                                         *)
(* WaitInv is about who waits for the lock: a name in use on the base      *)
(* logger stays registered, so who holds the lock never asks for it again. *)
(***************************************************************************)
EXTENDS SrvLog, SequenceTheorems, TLAPS

val(n, i) == service[n].notifiers[i]
inSlots(n, i) == n \in subs["base"] /\ i \in DOMAIN service[n].notifiers

PC == {"idle", "entry", "lock", "added", "locked", "using", "nested", "unlock"}
CallType == [pc : PC, op : Op, logger : Logger, name : Name, i : Nat, len : Nat]
Service == [enabled : BOOLEAN, notifiers : Seq(Nat)]

\* where a call holds the lock it has taken for reading
held == {"locked", "using", "nested", "unlock"}

\* the call holds the read lock of the base logger
holdsRead(c) == call[c].logger = "base" /\ call[c].pc \in held

TypeInv ==
  /\ subs \in [Logger -> SUBSET Name] /\ Initial \subseteq subs["base"]
  /\ opened \in Nat
  /\ service \in [Name -> Service]
  /\ \A n \in Name : \A i \in DOMAIN service[n].notifiers : val(n, i) \in 0..opened
  /\ \A n \in Name \ subs["base"] : service[n].notifiers = <<>>
  /\ retired \subseteq 1..opened /\ closed \subseteq 1..opened
  /\ call \in [Client -> CallType]
  /\ rotator \in {"select", "lock", "rotating", "ended"}
  /\ gaveUp \in BOOLEAN
  /\ \A l \in DOMAIN rotated : rotated[l] \in 1..opened
  /\ \A s \in todo : s = <<s[1], s[2]>> /\ inSlots(s[1], s[2])

LockInv ==
  /\ readers \in [Client \cup {loop} -> 0..1]
  /\ waiting \subseteq Client \cup {loop}
  /\ writer \in Client \cup {loop, nobody}
  /\ \A c \in Client : readers[c] = IF holdsRead(c) THEN 1 ELSE 0
  /\ writer # nobody => \A c \in Client : readers[c] = 0
  /\ rotator = "rotating" => writer = loop
  /\ \A c \in Client : call[c].pc = "added" => writer = c
  /\ \A c \in Client : call[c].op = "AddLog" =>
       call[c].logger = "base" /\ call[c].pc \notin held

\* what a call through the base logger is about to use is a slot
UseInv ==
  \A c \in Client : (call[c].pc = "using" /\ call[c].logger = "base") =>
    /\ call[c].name \in subs["base"]
    /\ call[c].i > 0
    /\ call[c].len <= Len(service[call[c].name].notifiers)

\* the names NewSrvLog registered have a file log in their second slot
FileInv == \A n \in Initial : Len(service[n].notifiers) > 1 /\ val(n, 2) # logBuffer

QuietInv ==
  (rotator # "rotating" /\ ~gaveUp) =>
    /\ \A n \in Name, i \in Nat : inSlots(n, i) => val(n, i) \notin retired
    /\ \A n, k \in Initial : val(n, 2) = val(k, 2)

RotInv ==
  (rotator = "rotating" /\ ~gaveUp) =>
    /\ \A n \in Name, i \in Nat :
         (inSlots(n, i) /\ <<n, i>> \notin todo) =>
           val(n, i) = logBuffer \/ \E l \in DOMAIN rotated : val(n, i) = rotated[l]
    /\ \A n \in Name, i \in Nat : <<n, i>> \in todo =>
         /\ val(n, i) \in retired => val(n, i) \in DOMAIN rotated
         /\ \A l \in DOMAIN rotated : val(n, i) # rotated[l]
    /\ \A l \in DOMAIN rotated : rotated[l] \notin retired
    /\ \E v : \A n \in Initial :
         IF <<n, 2>> \in todo THEN val(n, 2) = v
         ELSE v \in DOMAIN rotated /\ val(n, 2) = rotated[v]

LogInv ==
  /\ TypeInv /\ LockInv /\ UseInv /\ FileInv /\ QuietInv /\ RotInv /\ BaseUsesLive

-----------------------------------------------------------------------------
(* Facts about the parts. *)

(***************************************************************************)
(* slots is the set of the pairs that name a slot of the base logger.      *)
(***************************************************************************)
LEMMA SlotsAre ==
  /\ \A n, i : <<n, i>> \in slots <=> inSlots(n, i)
  /\ \A s \in slots : s = <<s[1], s[2]>> /\ inSlots(s[1], s[2])
<1>1. ASSUME NEW n, NEW i, <<n, i>> \in slots PROVE inSlots(n, i)
  BY <1>1 DEF slots, inSlots
<1>2. ASSUME NEW n, NEW i, inSlots(n, i) PROVE <<n, i>> \in slots
  BY <1>2 DEF slots, inSlots
<1>3. ASSUME NEW s \in slots PROVE s = <<s[1], s[2]>> /\ inSlots(s[1], s[2])
  BY DEF slots, inSlots
<1> QED
  BY <1>1, <1>2, <1>3

(***************************************************************************)
(* A sequence of numbers up to a bound is a sequence over the interval.    *)
(***************************************************************************)
LEMMA BoundedSeq ==
  ASSUME NEW s \in Seq(Nat), NEW n \in Nat, \A i \in DOMAIN s : s[i] \in 0..n
  PROVE  s \in Seq(0..n)
<1>1. Len(s) \in Nat /\ s \in [1..Len(s) -> 0..n]
  BY LenProperties
<1> QED
  BY <1>1, SeqDef

(***************************************************************************)
(* A sequence with one element more.                                       *)
(***************************************************************************)
LEMMA OneMore ==
  ASSUME NEW s \in Seq(Nat), NEW k \in Nat
  PROVE  /\ Append(s, k) \in Seq(Nat) /\ Len(Append(s, k)) = Len(s) + 1
         /\ \A i \in 1..Len(s) : Append(s, k)[i] = s[i]
         /\ Append(s, k)[Len(s) + 1] = k
  BY AppendProperties

(***************************************************************************)
(* What a slot of a name is.                                               *)
(***************************************************************************)
LEMMA SlotFacts ==
  ASSUME TypeInv, NEW n \in Name
  PROVE  /\ service[n].notifiers \in Seq(Nat)
         /\ Len(service[n].notifiers) \in Nat
         /\ DOMAIN service[n].notifiers = 1..Len(service[n].notifiers)
         /\ service[n].enabled \in BOOLEAN
<1>1. service[n] \in Service
  BY DEF TypeInv
<1> QED
  BY <1>1, LenProperties DEF Service

(***************************************************************************)
(* A step that touches no slot of the base logger and no step of the       *)
(* rotation keeps what is said about them.                                 *)
(***************************************************************************)
LEMMA LogsFrame ==
  ASSUME LogInv, subs'["base"] = subs["base"],
         \A n \in Name : service'[n].notifiers = service[n].notifiers,
         UNCHANGED <<opened, retired, rotator, todo, rotated, gaveUp>>
  PROVE  FileInv' /\ QuietInv' /\ RotInv'
<1>0. Initial \subseteq Name
  BY DEF Name
<1>1. \A n \in Name : \A i :
        val(n, i)' = val(n, i) /\ (inSlots(n, i)' <=> inSlots(n, i))
  BY DEF val, inSlots
<1>2. FileInv'
  BY <1>0, <1>1 DEF LogInv, FileInv
<1>3. QuietInv'
  BY <1>0, <1>1 DEF LogInv, QuietInv
<1>4. RotInv'
  BY <1>0, <1>1 DEF LogInv, RotInv
<1> QED
  BY <1>2, <1>3, <1>4

(***************************************************************************)
(* A step of a call that leaves the slots of the base logger alone: it may *)
(* enable a service, derive a logger and use the lock.                     *)
(***************************************************************************)
LEMMA CallFrame ==
  ASSUME LogInv, NEW c \in Client, NEW r \in CallType,
         call' = [call EXCEPT ![c] = r],
         UNCHANGED <<opened, retired, closed, rotator, todo, rotated, gaveUp>>,
         subs' \in [Logger -> SUBSET Name], subs'["base"] = subs["base"],
         service' \in [Name -> Service],
         \A n \in Name : service'[n].notifiers = service[n].notifiers,
         "base" \in misused' => "base" \in misused \/ gaveUp,
         LockInv',
         (r.pc = "using" /\ r.logger = "base") =>
            /\ r.name \in subs["base"] /\ r.i > 0
            /\ r.len <= Len(service[r.name].notifiers)
  PROVE  LogInv'
<1>0. "base" \in Logger /\ subs["base"] \subseteq Name
  BY DEF Logger, LogInv, TypeInv
<1>1. TypeInv'
  <2>1. call' \in [Client -> CallType]
    BY DEF LogInv, TypeInv
  <2>2. \A n \in Name : \A i \in DOMAIN service'[n].notifiers : val(n, i)' \in 0..opened
    BY DEF LogInv, TypeInv, val
  <2>3. \A s \in todo : s = <<s[1], s[2]>> /\ inSlots(s[1], s[2])'
    BY <1>0 DEF LogInv, TypeInv, inSlots
  <2> QED
    BY <2>1, <2>2, <2>3 DEF LogInv, TypeInv
<1>2. UseInv'
  <2> SUFFICES ASSUME NEW d \in Client, call'[d].pc = "using", call'[d].logger = "base"
               PROVE  /\ call'[d].name \in subs'["base"] /\ call'[d].i > 0
                      /\ call'[d].len <= Len(service'[call'[d].name].notifiers)
    BY DEF UseInv
  <2>1. CASE d = c
    <3>1. call'[d] = r
      BY <2>1 DEF LogInv, TypeInv
    <3> QED
      BY <1>0, <3>1
  <2>2. CASE d # c
    <3>1. call'[d] = call[d]
      BY <2>2 DEF LogInv, TypeInv
    <3> QED
      BY <1>0, <3>1 DEF LogInv, UseInv
  <2> QED
    BY <2>1, <2>2
<1>3. FileInv' /\ QuietInv' /\ RotInv'
  BY LogsFrame
<1>4. BaseUsesLive'
  BY DEF LogInv, BaseUsesLive
<1> QED
  BY <1>1, <1>2, <1>3, <1>4 DEF LogInv

(***************************************************************************)
(* A step of a call that changes nothing but the call, and perhaps the     *)
(* lock.                                                                   *)
(***************************************************************************)
LEMMA CallStep ==
  ASSUME LogInv, NEW c \in Client, NEW r \in CallType,
         call' = [call EXCEPT ![c] = r],
         UNCHANGED <<subs, service, opened, retired, closed, rotator, todo, rotated,
                     gaveUp, misused>>,
         LockInv',
         (r.pc = "using" /\ r.logger = "base") =>
            /\ r.name \in subs["base"] /\ r.i > 0
            /\ r.len <= Len(service[r.name].notifiers)
  PROVE  LogInv'
<1>1. subs' \in [Logger -> SUBSET Name] /\ service' \in [Name -> Service]
  BY DEF LogInv, TypeInv
<1> QED
  BY <1>1, CallFrame

(***************************************************************************)
(* The lock is as it was and so is what the call holds of it.              *)
(***************************************************************************)
LEMMA LockFrame ==
  ASSUME LogInv, NEW c \in Client, NEW r \in CallType,
         call' = [call EXCEPT ![c] = r],
         UNCHANGED <<readers, waiting, writer, rotator>>,
         r.pc # "added",
         (r.logger = "base" /\ r.pc \in held) <=> holdsRead(c),
         r.op = "AddLog" => r.logger = "base" /\ r.pc \notin held
  PROVE  LockInv'
<1>1. call'[c] = r /\ \A d \in Client : d # c => call'[d] = call[d]
  BY DEF LogInv, TypeInv
<1>2. \A d \in Client : holdsRead(d)' <=> holdsRead(d)
  BY <1>1 DEF holdsRead
<1> QED
  BY <1>1, <1>2 DEF LogInv, LockInv

(***************************************************************************)
(* A record of the call's type that differs in its program counter.        *)
(***************************************************************************)
LEMMA GotoType ==
  ASSUME LogInv, NEW c \in Client, NEW to \in PC
  PROVE  LET r == [call[c] EXCEPT !.pc = to] IN
         /\ r \in CallType /\ r.pc = to /\ r.op = call[c].op
         /\ r.logger = call[c].logger /\ r.name = call[c].name
         /\ r.i = call[c].i /\ r.len = call[c].len
<1>1. call[c] \in CallType
  BY DEF LogInv, TypeInv
<1> QED
  BY <1>1 DEF CallType

-----------------------------------------------------------------------------
(* The initial states. *)

(***************************************************************************)
(* A new SrvLog satisfies LogInv.                                          *)
(***************************************************************************)
LEMMA InitLogInv == Init => LogInv
<1> SUFFICES ASSUME Init PROVE LogInv
  OBVIOUS
<1> DEFINE ns(n) == IF n \in Initial THEN <<logBuffer, 1>> ELSE <<>>
<1>0. Initial \subseteq Name /\ error \in Name
  BY SrvLogAssumption DEF Name
<1>1. \A n \in Name : service[n] = [enabled |-> TRUE, notifiers |-> ns(n)]
  BY DEF Init
<1>2. \A n : /\ ns(n) \in Seq(Nat)
             /\ \A i \in DOMAIN ns(n) : ns(n)[i] \in 0..1
             /\ n \in Initial => Len(ns(n)) = 2 /\ ns(n)[2] = 1
  BY DEF logBuffer
<1> HIDE DEF ns
<1>3. service \in [Name -> Service]
  BY <1>1, <1>2 DEF Init, Service
<1>4. call \in [Client -> CallType]
  BY <1>0 DEF Init, noCall, CallType, PC, Op, Logger
<1>5. TypeInv
  <2>1. subs \in [Logger -> SUBSET Name] /\ subs["base"] = Initial
    BY <1>0 DEF Init, Logger
  <2>2. \A n \in Name : \A i \in DOMAIN service[n].notifiers : val(n, i) \in 0..opened
    BY <1>1, <1>2 DEF Init, val
  <2>3. ASSUME NEW n \in Name, n \notin Initial PROVE service[n].notifiers = <<>>
    <3>1. service[n] = [enabled |-> TRUE, notifiers |-> ns(n)] /\ ns(n) = <<>>
      BY <1>1, <2>3 DEF ns
    <3> QED
      BY <3>1
  <2>4. DOMAIN rotated = {}
    BY DEF Init
  <2> QED
    BY <1>3, <1>4, <2>1, <2>2, <2>3, <2>4 DEF Init, TypeInv
<1>6. LockInv
  BY SrvLogAssumption DEF Init, LockInv, holdsRead, noCall, held
<1>7. UseInv
  BY DEF Init, UseInv, noCall
<1>8. FileInv
  <2>1. ASSUME NEW n \in Initial PROVE service[n].notifiers = ns(n)
    <3>1. n \in Name
      BY <1>0
    <3>2. service[n] = [enabled |-> TRUE, notifiers |-> ns(n)]
      BY <1>1, <3>1
    <3> QED
      BY <3>2
  <2> QED
    BY <1>2, <2>1 DEF FileInv, val, logBuffer
<1>9. QuietInv
  BY <1>0, <1>1, <1>2 DEF Init, QuietInv, val
<1>10. RotInv /\ BaseUsesLive
  BY DEF Init, RotInv, BaseUsesLive
<1> QED
  BY <1>5, <1>6, <1>7, <1>8, <1>9, <1>10 DEF LogInv

-----------------------------------------------------------------------------
(* Calls. *)

(***************************************************************************)
(* A goroutine calls.                                                      *)
(***************************************************************************)
LEMMA CallKeeps ==
  ASSUME LogInv, NEW c \in Client, NEW op \in Op, NEW l \in Logger, NEW n \in Name,
         Call(c, op, l, n)
  PROVE  LogInv'
<1> DEFINE r == [noCall EXCEPT !.pc = "entry", !.op = op, !.logger = l, !.name = n]
<1>1. /\ call[c].pc = "idle" /\ call' = [call EXCEPT ![c] = r]
      /\ UNCHANGED <<subs, service, opened, retired, closed, readers, waiting,
                     writer, rotator, todo, rotated, gaveUp, misused>>
  BY DEF Call, at, logVars, lockVars, loopVars
<1>2. /\ r \in CallType /\ r.pc = "entry"
      /\ r.op = "AddLog" => r.logger = "base"
  BY DEF Call, noCall, CallType, PC
<1> HIDE DEF r
<1>3. LockInv'
  BY <1>1, <1>2, LockFrame DEF holdsRead, held
<1> QED
  BY <1>1, <1>2, <1>3, CallStep

(***************************************************************************)
(* The lock of a call.                                                     *)
(***************************************************************************)
LEMMA EnterKeeps ==
  ASSUME LogInv, NEW c \in Client, Enter(c)
  PROVE  LogInv'
<1>0. /\ call[c].pc = "entry" /\ ~holdsRead(c)
      /\ UNCHANGED <<subs, service, opened, retired, closed, rotator, todo, rotated,
                     gaveUp, misused>>
  BY DEF Enter, at, holdsRead, held, logVars, loopVars
<1>1. CASE /\ call[c].op = "AddLog" /\ Announce(c) /\ goto(c, "lock")
  <2> DEFINE r == [call[c] EXCEPT !.pc = "lock"]
  <2>1. r \in CallType /\ r.pc = "lock" /\ r.op = call[c].op /\ r.logger = call[c].logger
    BY GotoType DEF PC
  <2>2. call' = [call EXCEPT ![c] = r]
    BY <1>1 DEF goto
  <2> HIDE DEF r
  <2>3. /\ call'[c] = r /\ \A d \in Client : d # c => call'[d] = call[d]
    BY <2>2 DEF LogInv, TypeInv
  <2>4. \A d \in Client : holdsRead(d)' <=> holdsRead(d)
    BY <1>0, <2>1, <2>3 DEF holdsRead, held
  <2>5. LockInv'
    BY <1>0, <1>1, <2>1, <2>3, <2>4 DEF LogInv, LockInv, Announce, held
  <2> QED
    BY <1>0, <2>1, <2>2, <2>5, CallStep
<1>2. CASE /\ call[c].op # "AddLog" /\ call[c].logger = "base"
           /\ RLock(c) /\ goto(c, "locked") /\ UNCHANGED <<waiting, writer>>
  <2> DEFINE r == [call[c] EXCEPT !.pc = "locked"]
  <2>1. r \in CallType /\ r.pc = "locked" /\ r.op = call[c].op /\ r.logger = call[c].logger
    BY GotoType DEF PC
  <2>2. call' = [call EXCEPT ![c] = r]
    BY <1>2 DEF goto
  <2> HIDE DEF r
  <2>3. /\ call'[c] = r /\ \A d \in Client : d # c => call'[d] = call[d]
    BY <2>2 DEF LogInv, TypeInv
  <2>4. holdsRead(c)' /\ \A d \in Client : d # c => (holdsRead(d)' <=> holdsRead(d))
    BY <1>2, <2>1, <2>3 DEF holdsRead, held
  <2>5. /\ readers \in [Client \cup {loop} -> 0..1] /\ readers[c] = 0
        /\ readers' = [readers EXCEPT ![c] = @ + 1]
        /\ writer = nobody
    BY <1>0, <1>2 DEF LogInv, LockInv, RLock, rLockFree
  <2>6. /\ readers' \in [Client \cup {loop} -> 0..1] /\ readers'[c] = 1
        /\ \A d \in Client : d # c => readers'[d] = readers[d]
    BY <2>5
  <2>7. LockInv'
    BY <1>0, <1>2, <2>1, <2>3, <2>4, <2>5, <2>6 DEF LogInv, LockInv
  <2> QED
    BY <1>0, <2>1, <2>2, <2>7, CallStep
<1>3. CASE /\ call[c].logger = "derived" /\ goto(c, "locked") /\ UNCHANGED lockVars
  <2> DEFINE r == [call[c] EXCEPT !.pc = "locked"]
  <2>0. call[c].logger = "derived" /\ call[c].op # "AddLog"
    <3>1. call[c].op = "AddLog" => call[c].logger = "base"
      BY DEF LogInv, LockInv
    <3> QED
      BY <1>3, <3>1
  <2>1. r \in CallType /\ r.pc = "locked" /\ r.logger = "derived" /\ r.op # "AddLog"
    <3>1. r \in CallType /\ r.pc = "locked" /\ r.op = call[c].op /\ r.logger = call[c].logger
      BY GotoType DEF PC
    <3> HIDE DEF r
    <3> QED
      BY <2>0, <3>1
  <2>2. call' = [call EXCEPT ![c] = r]
    BY <1>3 DEF goto
  <2> HIDE DEF r
  <2>3. LockInv'
    BY <1>0, <1>3, <2>1, <2>2, LockFrame DEF lockVars
  <2> QED
    BY <1>0, <2>1, <2>2, <2>3, CallStep
<1> QED
  BY <1>1, <1>2, <1>3 DEF Enter

(***************************************************************************)
(* A call that goes on while it holds the lock it has.                     *)
(***************************************************************************)
LEMMA GotoKeeps ==
  ASSUME LogInv, NEW c \in Client, NEW to \in held, to # "using",
         call[c].pc \in held, goto(c, to),
         UNCHANGED <<opened, retired, closed, readers, waiting, writer,
                     rotator, todo, rotated, gaveUp>>,
         subs' \in [Logger -> SUBSET Name], subs'["base"] = subs["base"],
         service' \in [Name -> Service],
         \A n \in Name : service'[n].notifiers = service[n].notifiers,
         "base" \in misused' => "base" \in misused \/ gaveUp
  PROVE  LogInv'
<1> DEFINE r == [call[c] EXCEPT !.pc = to]
<1>0. to \in PC
  BY DEF held, PC
<1>1. r \in CallType /\ r.pc = to /\ r.op = call[c].op /\ r.logger = call[c].logger
  BY <1>0, GotoType
<1>2. call' = [call EXCEPT ![c] = r]
  BY DEF goto
<1> HIDE DEF r
<1>3. LockInv'
  BY <1>1, <1>2, LockFrame DEF holdsRead, LogInv, LockInv, held
<1> QED
  BY <1>1, <1>2, <1>3, CallFrame

(***************************************************************************)
(* The deferred unlock.                                                    *)
(***************************************************************************)
LEMMA LeaveKeeps ==
  ASSUME LogInv, NEW c \in Client, Leave(c)
  PROVE  LogInv'
<1>0. /\ call[c].pc = "unlock" /\ call' = [call EXCEPT ![c] = noCall]
      /\ UNCHANGED <<subs, service, opened, retired, closed, waiting, writer, rotator,
                     todo, rotated, gaveUp, misused>>
  BY DEF Leave, at, logVars, loopVars
<1>1. noCall \in CallType /\ noCall.pc = "idle" /\ noCall.op = "LogTo"
  BY SrvLogAssumption DEF noCall, CallType, PC, Op, Logger, Name
<1>2. /\ call'[c] = noCall /\ \A d \in Client : d # c => call'[d] = call[d]
  BY <1>0 DEF LogInv, TypeInv
<1>3. ~holdsRead(c)' /\ \A d \in Client : d # c => (holdsRead(d)' <=> holdsRead(d))
  BY <1>1, <1>2 DEF holdsRead, held
<1>4. readers \in [Client \cup {loop} -> 0..1] /\ readers[c] = IF holdsRead(c) THEN 1 ELSE 0
  BY DEF LogInv, LockInv
<1>5. /\ readers' \in [Client \cup {loop} -> 0..1] /\ readers'[c] = 0
      /\ \A d \in Client : d # c => readers'[d] = readers[d]
  <2>1. CASE call[c].logger = "base"
    <3>1. holdsRead(c) /\ readers' = [readers EXCEPT ![c] = @ - 1]
      BY <1>0, <2>1 DEF Leave, RUnlock, holdsRead, held
    <3> QED
      BY <1>4, <3>1
  <2>2. CASE call[c].logger # "base"
    BY <1>4, <2>2 DEF Leave, holdsRead
  <2> QED
    BY <2>1, <2>2
<1>6. LockInv'
  BY <1>0, <1>1, <1>2, <1>3, <1>5 DEF LogInv, LockInv, held
<1> QED
  BY <1>0, <1>1, <1>6, CallStep

(***************************************************************************)
(* The steps that go on to the unlock, or to the nested call, and change   *)
(* no slot: a derived logger, a service enabled, the end of a loop over    *)
(* the notifiers and a name that is missing.                               *)
(***************************************************************************)
LEMMA WithFieldsKeeps ==
  ASSUME LogInv, NEW c \in Client, WithFields(c)
  PROVE  LogInv'
<1>1. /\ call[c].pc \in held /\ "unlock" \in held /\ goto(c, "unlock")
      /\ UNCHANGED <<service, opened, retired, closed, readers, waiting, writer,
                     rotator, todo, rotated, gaveUp, misused>>
  BY DEF WithFields, at, held, lockVars, loopVars
<1>2. /\ subs \in [Logger -> SUBSET Name] /\ service \in [Name -> Service]
      /\ subs' = [subs EXCEPT !["derived"] = subs["base"]]
  BY DEF WithFields, LogInv, TypeInv
<1>3. subs' \in [Logger -> SUBSET Name] /\ subs'["base"] = subs["base"]
  BY <1>2 DEF Logger
<1> QED
  BY <1>1, <1>2, <1>3, GotoKeeps

(***************************************************************************)
(* A service is enabled or disabled.                                       *)
(***************************************************************************)
LEMMA SetLogsEnabledKeeps ==
  ASSUME LogInv, NEW c \in Client, SetLogsEnabled(c)
  PROVE  LogInv'
<1>1. /\ call[c].pc \in held /\ "unlock" \in held /\ goto(c, "unlock")
      /\ UNCHANGED <<subs, opened, retired, closed, readers, waiting, writer,
                     rotator, todo, rotated, gaveUp, misused>>
  BY DEF SetLogsEnabled, at, held, lockVars, loopVars
<1>2. subs \in [Logger -> SUBSET Name] /\ service \in [Name -> Service]
  BY DEF LogInv, TypeInv
<1>3. PICK on \in BOOLEAN : service' = [service EXCEPT ![call[c].name].enabled = on]
  BY DEF SetLogsEnabled
<1>4. service' \in [Name -> Service]
  BY <1>2, <1>3 DEF Service
<1>5. \A n \in Name : service'[n].notifiers = service[n].notifiers
  BY <1>2, <1>3 DEF Service
<1> QED
  BY <1>1, <1>2, <1>4, <1>5, GotoKeeps

(***************************************************************************)
(* The loop over the notifiers has ended.                                  *)
(***************************************************************************)
LEMMA UsedKeeps ==
  ASSUME LogInv, NEW c \in Client, Used(c)
  PROVE  LogInv'
<1>1. /\ call[c].pc \in held /\ "unlock" \in held /\ goto(c, "unlock")
      /\ UNCHANGED <<subs, service, opened, retired, closed, readers, waiting, writer,
                     rotator, todo, rotated, gaveUp, misused>>
  BY DEF Used, at, held, logVars, lockVars, loopVars
<1>2. subs \in [Logger -> SUBSET Name] /\ service \in [Name -> Service]
  BY DEF LogInv, TypeInv
<1> QED
  BY <1>1, <1>2, GotoKeeps

(***************************************************************************)
(* The name is missing.                                                    *)
(***************************************************************************)
LEMMA MissingKeeps ==
  ASSUME LogInv, NEW c \in Client, Missing(c)
  PROVE  LogInv'
<1>1. /\ call[c].pc \in held /\ "nested" \in held /\ goto(c, "nested")
      /\ UNCHANGED <<subs, service, opened, retired, closed, readers, waiting, writer,
                     rotator, todo, rotated, gaveUp, misused>>
  BY DEF Missing, at, held, logVars, lockVars, loopVars
<1>2. subs \in [Logger -> SUBSET Name] /\ service \in [Name -> Service]
  BY DEF LogInv, TypeInv
<1> QED
  BY <1>1, <1>2, GotoKeeps

(***************************************************************************)
(* The nested LogTo("error") finds no rotation under way, and error is     *)
(* registered: what it uses is not retired.                                *)
(***************************************************************************)
LEMMA NestedLogToKeeps ==
  ASSUME LogInv, NEW c \in Client, NestedLogTo(c)
  PROVE  LogInv'
<1>1. /\ call[c].pc \in held /\ "unlock" \in held /\ goto(c, "unlock")
      /\ UNCHANGED <<subs, service, opened, retired, closed, readers, waiting, writer,
                     rotator, todo, rotated, gaveUp>>
  BY DEF NestedLogTo, at, held, logVars, lockVars, loopVars
<1>2. subs \in [Logger -> SUBSET Name] /\ service \in [Name -> Service]
  BY DEF LogInv, TypeInv
<1>3. rotator # "rotating"
  BY DEF NestedLogTo, rLockFree, LogInv, LockInv, loop, nobody
<1>4. error \in Name /\ error \in subs["base"]
  BY SrvLogAssumption DEF Name, LogInv, TypeInv
<1>5. ASSUME ~gaveUp, NEW i \in DOMAIN service[error].notifiers
      PROVE  service[error].notifiers[i] \notin retired
  <2>1. inSlots(error, i) /\ i \in Nat
    BY <1>4, <1>5, SlotFacts DEF inSlots, LogInv
  <2> QED
    BY <1>3, <1>4, <1>5, <2>1 DEF LogInv, QuietInv, val
<1>6. "base" \in misused' => "base" \in misused \/ gaveUp
  BY <1>5 DEF NestedLogTo, LogInv, TypeInv
<1> QED
  BY <1>1, <1>2, <1>6, GotoKeeps

(***************************************************************************)
(* The call starts to go through the notifiers, or leaves a service that   *)
(* is disabled.                                                            *)
(***************************************************************************)
LEMMA BeginKeeps ==
  ASSUME LogInv, NEW c \in Client, Begin(c)
  PROVE  LogInv'
<1> DEFINE s == service[call[c].name]
           r == [call[c] EXCEPT !.pc = "using", !.i = 1, !.len = Len(s.notifiers)]
<1>0. /\ call[c].pc = "locked" /\ call[c].op # "AddLog" /\ known(c)
      /\ UNCHANGED <<subs, service, opened, retired, closed, readers, waiting, writer,
                     rotator, todo, rotated, gaveUp, misused>>
  BY DEF Begin, at, logVars, lockVars, loopVars
<1>1. subs \in [Logger -> SUBSET Name] /\ service \in [Name -> Service]
  BY DEF LogInv, TypeInv
<1>2. call \in [Client -> CallType] /\ call[c].name \in Name
  BY DEF LogInv, TypeInv, CallType
<1>3. CASE call[c].op = "LogTo" /\ ~s.enabled
  <2>1. call[c].pc \in held /\ "unlock" \in held /\ goto(c, "unlock")
    BY <1>0, <1>3 DEF Begin, goto, held
  <2> QED
    BY <1>0, <1>1, <2>1, GotoKeeps
<1>4. CASE ~(call[c].op = "LogTo" /\ ~s.enabled)
  <2>1. Len(s.notifiers) \in Nat
    BY <1>2, SlotFacts DEF LogInv
  <2>2. /\ r \in CallType /\ r.pc = "using" /\ r.op = call[c].op
        /\ r.logger = call[c].logger /\ r.name = call[c].name
        /\ r.i = 1 /\ r.len = Len(service[call[c].name].notifiers)
    BY <1>2, <2>1 DEF CallType, PC
  <2>3. call' = [call EXCEPT ![c] = r]
    <3>1. call' = [call EXCEPT ![c].pc = "using", ![c].i = 1, ![c].len = Len(s.notifiers)]
      BY <1>4 DEF Begin
    <3> QED
      BY <1>2, <3>1 DEF CallType
  <2> HIDE DEF r
  <2>4. LockInv'
    BY <1>0, <2>2, <2>3, LockFrame DEF holdsRead, held
  <2>5. r.logger = "base" => r.name \in subs["base"]
    BY <1>0, <2>2 DEF known
  <2>6. r.i > 0 /\ r.len <= Len(service[r.name].notifiers)
    <3>1. r.i > 0
      BY <2>2
    <3>2. service[r.name].notifiers = s.notifiers
      BY <2>2
    <3>3. r.len = Len(service[r.name].notifiers) /\ r.len \in Nat
      BY <2>1, <2>2, <3>2
    <3> QED
      BY <3>1, <3>3
  <2> QED
    BY <1>0, <2>2, <2>3, <2>4, <2>5, <2>6, CallStep
<1> QED
  BY <1>3, <1>4

(***************************************************************************)
(* One notifier is used.  A call through the base logger holds its read    *)
(* lock, so no rotation is under way and the slot is not retired.          *)
(***************************************************************************)
LEMMA UseKeeps ==
  ASSUME LogInv, NEW c \in Client, Use(c)
  PROVE  LogInv'
<1> DEFINE r == [call[c] EXCEPT !.i = @ + 1]
           n == call[c].name
           i == call[c].i
<1>0. /\ call[c].pc = "using" /\ i <= call[c].len
      /\ call' = [call EXCEPT ![c].i = @ + 1]
      /\ misused' = misused \cup (IF service[n].notifiers[i] \in retired
                                  THEN {call[c].logger} ELSE {})
      /\ UNCHANGED <<subs, service, opened, retired, closed, readers, waiting, writer,
                     rotator, todo, rotated, gaveUp>>
  BY DEF Use, at, logVars, lockVars, loopVars
<1>1. subs \in [Logger -> SUBSET Name] /\ service \in [Name -> Service]
  BY DEF LogInv, TypeInv
<1>2. /\ call \in [Client -> CallType] /\ n \in Name /\ i \in Nat
      /\ call[c].len \in Nat
  BY DEF LogInv, TypeInv, CallType
<1>3. /\ r \in CallType /\ r.pc = "using" /\ r.op = call[c].op
      /\ r.logger = call[c].logger /\ r.name = n /\ r.i = i + 1
      /\ r.len = call[c].len
  BY <1>0, <1>2 DEF CallType
<1>4. call' = [call EXCEPT ![c] = r]
  BY <1>0, <1>2 DEF CallType
<1> HIDE DEF r
<1>5. LockInv'
  BY <1>0, <1>3, <1>4, LockFrame DEF holdsRead, held, LogInv, LockInv
<1>6. ASSUME call[c].logger = "base", ~gaveUp
      PROVE  service[n].notifiers[i] \notin retired
  <2>1. holdsRead(c)
    BY <1>0, <1>6 DEF holdsRead, held
  <2>2. rotator # "rotating"
    BY <2>1 DEF LogInv, LockInv, loop, nobody
  <2>3. /\ n \in subs["base"] /\ i > 0
        /\ call[c].len <= Len(service[n].notifiers)
    BY <1>0, <1>6 DEF LogInv, UseInv
  <2>4. inSlots(n, i)
    BY <1>0, <1>2, <2>3, SlotFacts DEF inSlots, LogInv
  <2> QED
    BY <1>2, <1>6, <2>2, <2>4 DEF LogInv, QuietInv, val
<1>7. "base" \in misused' => "base" \in misused \/ gaveUp
  BY <1>0, <1>6 DEF LogInv, TypeInv
<1>8. (r.pc = "using" /\ r.logger = "base") =>
         /\ r.name \in subs["base"] /\ r.i > 0
         /\ r.len <= Len(service[r.name].notifiers)
  <2>1. ASSUME call[c].logger = "base"
        PROVE  /\ n \in subs["base"]
               /\ call[c].len <= Len(service[n].notifiers)
    BY <1>0, <2>1 DEF LogInv, UseInv
  <2>2. r.i > 0
    BY <1>2, <1>3
  <2>3. service[r.name].notifiers = service[n].notifiers
    BY <1>3
  <2> QED
    BY <1>3, <2>1, <2>2, <2>3
<1> QED
  BY <1>0, <1>1, <1>3, <1>4, <1>5, <1>7, <1>8, CallFrame

(***************************************************************************)
(* AddLog appends a new log to a name: nobody reads and no rotation is     *)
(* under way, and the log is younger than every retired one.               *)
(***************************************************************************)
LEMMA AddLogKeeps ==
  ASSUME LogInv, NEW c \in Client, AddLog(c)
  PROVE  LogInv'
<1> DEFINE m == call[c].name
           old == service[m].notifiers
           new == Append(old, opened + 1)
           r == [call[c] EXCEPT !.pc = "added"]
<1>0. /\ call[c].pc = "lock" /\ writer = nobody
      /\ \A q \in DOMAIN readers : readers[q] = 0
      /\ writer' = c /\ waiting' = waiting \ {c} /\ readers' = readers
      /\ call' = [call EXCEPT ![c] = r]
      /\ opened' = opened + 1
      /\ subs' = [subs EXCEPT !["base"] = @ \cup {m}]
      /\ service' = [service EXCEPT ![m].notifiers = new]
      /\ UNCHANGED <<retired, closed, rotator, todo, rotated, gaveUp, misused>>
  BY DEF AddLog, Lock, at, goto, loopVars
<1>1. /\ r \in CallType /\ r.pc = "added" /\ r.op = call[c].op
      /\ r.logger = call[c].logger
  BY GotoType DEF PC
<1> HIDE DEF r
<1>2. /\ call'[c] = r /\ \A d \in Client : d # c => call'[d] = call[d]
      /\ call' \in [Client -> CallType]
  BY <1>0, <1>1 DEF LogInv, TypeInv
<1>3. m \in Name /\ opened \in Nat /\ Initial \subseteq Name
  BY DEF LogInv, TypeInv, CallType, Name
<1>4. /\ old \in Seq(Nat) /\ Len(old) \in Nat /\ DOMAIN old = 1..Len(old)
  BY <1>3, SlotFacts DEF LogInv
<1>5. /\ new \in Seq(Nat) /\ Len(new) = Len(old) + 1
      /\ \A i \in 1..Len(old) : new[i] = old[i]
      /\ new[Len(old) + 1] = opened + 1
      /\ DOMAIN new = 1..(Len(old) + 1)
  <2>1. old \in Seq(Nat) /\ opened + 1 \in Nat
    BY <1>3, <1>4
  <2> HIDE DEF old
  <2>2. /\ new \in Seq(Nat) /\ Len(new) = Len(old) + 1
        /\ \A i \in 1..Len(old) : new[i] = old[i]
        /\ new[Len(old) + 1] = opened + 1
    BY <2>1, OneMore
  <2> HIDE DEF new
  <2>3. DOMAIN new = 1..Len(new)
    BY <2>2, LenProperties
  <2> QED
    BY <2>2, <2>3
<1> HIDE DEF new
<1>5a. ASSUME NEW i \in 1..Len(old)
       PROVE  i \in DOMAIN old /\ i \in DOMAIN new /\ new[i] = old[i]
  <2>0. Len(old) \in Nat /\ DOMAIN old = 1..Len(old) /\ DOMAIN new = 1..(Len(old) + 1)
    BY <1>4, <1>5
  <2>1. new[i] = old[i]
    BY <1>5
  <2> HIDE DEF old
  <2>2. i \in 1..(Len(old) + 1)
    BY <2>0
  <2> QED
    BY <2>0, <2>1, <2>2
<1>6. /\ service' \in [Name -> Service] /\ service'[m].notifiers = new
      /\ \A n \in Name : n # m => service'[n] = service[n]
  BY <1>0, <1>3, <1>5 DEF LogInv, TypeInv, Service
<1>7. /\ subs' \in [Logger -> SUBSET Name]
      /\ subs'["base"] = subs["base"] \cup {m}
  BY <1>0, <1>3 DEF LogInv, TypeInv, Logger
<1>8. ASSUME NEW n \in Name, NEW i \in DOMAIN service'[n].notifiers
      PROVE  \/ i \in DOMAIN service[n].notifiers /\ val(n, i)' = val(n, i)
             \/ n = m /\ val(n, i)' = opened + 1
  <2>1. CASE n # m
    BY <1>6, <1>8, <2>1 DEF val
  <2>2. CASE n = m
    <3>1. i \in 1..(Len(old) + 1) /\ val(n, i)' = new[i]
      BY <1>5, <1>6, <1>8, <2>2 DEF val
    <3>2. CASE i = Len(old) + 1
      BY <1>5, <2>2, <3>1, <3>2
    <3>3. CASE i # Len(old) + 1
      <4>1. i \in 1..Len(old)
        BY <1>4, <3>1, <3>3
      <4>2. new[i] = old[i] /\ i \in DOMAIN old
        BY <1>5a, <4>1
      <4> QED
        BY <2>2, <3>1, <4>2 DEF val
    <3> QED
      BY <3>2, <3>3
  <2> QED
    BY <2>1, <2>2
<1>9. ASSUME NEW n \in Name, NEW i \in DOMAIN service[n].notifiers
      PROVE  i \in DOMAIN service'[n].notifiers /\ val(n, i)' = val(n, i)
  <2>1. CASE n # m
    BY <1>6, <1>9, <2>1 DEF val
  <2>2. CASE n = m
    <3>1. i \in 1..Len(old)
      BY <1>4, <1>9, <2>2
    <3>2. i \in DOMAIN new /\ new[i] = old[i]
      BY <1>5a, <3>1
    <3> QED
      BY <1>6, <2>2, <3>2 DEF val
  <2> QED
    BY <2>1, <2>2
<1>10. TypeInv'
  <2>1. ASSUME NEW n \in Name, NEW i \in DOMAIN service'[n].notifiers
        PROVE  val(n, i)' \in 0..opened'
    <3>1. CASE val(n, i)' = opened + 1
      BY <1>0, <1>3, <3>1
    <3>2. CASE i \in DOMAIN service[n].notifiers /\ val(n, i)' = val(n, i)
      <4>1. val(n, i) \in 0..opened
        BY <3>2 DEF LogInv, TypeInv
      <4> QED
        BY <1>0, <1>3, <3>2, <4>1
    <3> QED
      BY <1>8, <2>1, <3>1, <3>2
  <2>2. \A n \in Name \ subs'["base"] : service'[n].notifiers = <<>>
    BY <1>6, <1>7 DEF LogInv, TypeInv
  <2>3. /\ retired' \subseteq 1..opened' /\ closed' \subseteq 1..opened'
        /\ \A l \in DOMAIN rotated' : rotated'[l] \in 1..opened'
    BY <1>0, <1>3 DEF LogInv, TypeInv
  <2>4. ASSUME NEW s \in todo
        PROVE  s = <<s[1], s[2]>> /\ inSlots(s[1], s[2])'
    <3>1. s = <<s[1], s[2]>> /\ s[1] \in Name /\ s[1] \in subs["base"]
          /\ s[2] \in DOMAIN service[s[1]].notifiers
      BY DEF LogInv, TypeInv, inSlots, Logger
    <3> QED
      BY <1>7, <1>9, <3>1 DEF inSlots
  <2>5. Initial \subseteq subs'["base"]
    BY <1>7 DEF LogInv, TypeInv
  <2> QED
    BY <1>0, <1>2, <1>3, <1>6, <1>7, <2>1, <2>2, <2>3, <2>4, <2>5 DEF LogInv, TypeInv
<1>11. ASSUME NEW d \in Client
       PROVE  ~holdsRead(d) /\ ~holdsRead(d)' /\ readers[d] = 0
  BY <1>0, <1>1, <1>2 DEF holdsRead, held, LogInv, LockInv
<1>12. rotator # "rotating"
  BY <1>0 DEF LogInv, LockInv, loop, nobody
<1>13. LockInv'
  <2>1. \A d \in Client : call'[d].pc = "added" => d = c
    BY <1>0, <1>2, SrvLogAssumption DEF LogInv, LockInv
  <2>2. \A d \in Client : call'[d].op = "AddLog" =>
          call'[d].logger = "base" /\ call'[d].pc \notin held
    BY <1>0, <1>1, <1>2 DEF LogInv, LockInv, held
  <2> QED
    BY <1>0, <1>11, <1>12, <2>1, <2>2 DEF LogInv, LockInv
<1>14. UseInv'
  BY <1>11 DEF UseInv, holdsRead, held
<1>15. FileInv'
  <2>1. ASSUME NEW n \in Initial
        PROVE  Len(service'[n].notifiers) > 1 /\ val(n, 2)' # logBuffer /\ val(n, 2)' = val(n, 2)
    <3>1. n \in Name /\ Len(service[n].notifiers) > 1 /\ val(n, 2) # logBuffer
      BY <1>3, <2>1 DEF LogInv, FileInv
    <3>2. 2 \in DOMAIN service[n].notifiers
      BY <3>1, SlotFacts DEF LogInv
    <3>3. val(n, 2)' = val(n, 2)
      BY <1>9, <3>1, <3>2
    <3>4. Len(service'[n].notifiers) > 1
      <4>1. CASE n = m
        <5>1. service'[n].notifiers = new /\ Len(old) > 1
          BY <1>6, <3>1, <4>1
        <5> QED
          BY <1>4, <1>5, <5>1
      <4>2. CASE n # m
        BY <1>6, <3>1, <4>2
      <4> QED
        BY <4>1, <4>2
    <3> QED
      BY <3>1, <3>3, <3>4
  <2> QED
    BY <2>1 DEF FileInv
<1>16. QuietInv'
  <2> SUFFICES ASSUME ~gaveUp
               PROVE  /\ \A n \in Name, i \in Nat : inSlots(n, i)' => val(n, i)' \notin retired
                      /\ \A n, k \in Initial : val(n, 2)' = val(k, 2)'
    BY <1>0 DEF QuietInv
  <2>1. ASSUME NEW n \in Name, NEW i \in Nat, inSlots(n, i)'
        PROVE  val(n, i)' \notin retired
    <3>1. i \in DOMAIN service'[n].notifiers /\ n \in subs["base"] \cup {m}
      BY <1>7, <2>1 DEF inSlots
    <3>2. CASE val(n, i)' = opened + 1
      BY <1>3, <3>2 DEF LogInv, TypeInv
    <3>3. CASE i \in DOMAIN service[n].notifiers /\ val(n, i)' = val(n, i)
      <4>1. n \in subs["base"]
        BY <3>3 DEF LogInv, TypeInv
      <4> QED
        BY <1>12, <3>3, <4>1 DEF LogInv, QuietInv, inSlots
    <3> QED
      BY <1>8, <3>1, <3>2, <3>3
  <2>2. ASSUME NEW n \in Initial PROVE val(n, 2)' = val(n, 2)
    <3>1. n \in Name /\ Len(service[n].notifiers) > 1
      BY <1>3, <2>2 DEF LogInv, FileInv
    <3>2. 2 \in DOMAIN service[n].notifiers
      BY <3>1, SlotFacts DEF LogInv
    <3> QED
      BY <1>9, <3>1, <3>2
  <2> QED
    BY <1>12, <2>1, <2>2 DEF LogInv, QuietInv
<1>17. RotInv' /\ BaseUsesLive'
  BY <1>0, <1>12 DEF RotInv, BaseUsesLive, LogInv
<1> QED
  BY <1>10, <1>13, <1>14, <1>15, <1>16, <1>17 DEF LogInv

(***************************************************************************)
(* AddLog gives up the write lock.                                         *)
(***************************************************************************)
LEMMA AddLogUnlockKeeps ==
  ASSUME LogInv, NEW c \in Client, AddLogUnlock(c)
  PROVE  LogInv'
<1> DEFINE r == [call[c] EXCEPT !.pc = "idle"]
<1>0. /\ call[c].pc = "added" /\ writer' = nobody
      /\ call' = [call EXCEPT ![c] = r]
      /\ UNCHANGED <<subs, service, opened, retired, closed, readers, waiting, rotator,
                     todo, rotated, gaveUp, misused>>
  BY DEF AddLogUnlock, at, goto, Unlock, logVars, loopVars
<1>1. /\ r \in CallType /\ r.pc = "idle" /\ r.op = call[c].op
      /\ r.logger = call[c].logger
  BY GotoType DEF PC
<1> HIDE DEF r
<1>2. call'[c] = r /\ \A d \in Client : d # c => call'[d] = call[d]
  BY <1>0 DEF LogInv, TypeInv
<1>3. \A d \in Client : holdsRead(d)' <=> holdsRead(d)
  BY <1>0, <1>1, <1>2 DEF holdsRead, held
<1>4. writer = c /\ c # loop
  BY <1>0, SrvLogAssumption DEF LogInv, LockInv
<1>5. \A d \in Client : call'[d].pc # "added"
  BY <1>1, <1>2, <1>4 DEF LogInv, LockInv
<1>6. \A d \in Client : call'[d].op = "AddLog" =>
        call'[d].logger = "base" /\ call'[d].pc \notin held
  BY <1>1, <1>2 DEF LogInv, LockInv, held
<1>7. LockInv'
  BY <1>0, <1>3, <1>4, <1>5, <1>6 DEF LogInv, LockInv
<1> QED
  BY <1>0, <1>1, <1>7, CallStep

-----------------------------------------------------------------------------
(* The log loop. *)

(***************************************************************************)
(* A step of the loop outside a rotation changes no slot.                  *)
(***************************************************************************)
LEMMA LoopFrame ==
  ASSUME LogInv, rotator # "rotating", rotator' \in {"select", "lock", "ended"},
         UNCHANGED <<subs, service, opened, retired, readers, writer, call, todo,
                     rotated, gaveUp, misused>>,
         closed' \subseteq 1..opened, waiting' \subseteq Client \cup {loop}
  PROVE  LogInv'
<1>1. TypeInv'
  BY DEF LogInv, TypeInv, val, inSlots
<1>2. LockInv'
  BY DEF LogInv, LockInv, holdsRead
<1>3. UseInv' /\ BaseUsesLive'
  BY DEF LogInv, UseInv, BaseUsesLive
<1>4. FileInv' /\ QuietInv'
  BY DEF LogInv, FileInv, QuietInv, val, inSlots
<1>5. RotInv'
  BY DEF RotInv
<1> QED
  BY <1>1, <1>2, <1>3, <1>4, <1>5 DEF LogInv

(***************************************************************************)
(* The loop announces a rotation.                                          *)
(***************************************************************************)
LEMMA RotateBeginKeeps ==
  ASSUME LogInv, RotateBegin
  PROVE  LogInv'
<1>1. closed' \subseteq 1..opened
  BY DEF RotateBegin, logVars, LogInv, TypeInv
<1> QED
  BY <1>1, LoopFrame DEF RotateBegin, Announce, logVars

(***************************************************************************)
(* The loop closes the logs.                                               *)
(***************************************************************************)
LEMMA CloseKeeps ==
  ASSUME LogInv, Close
  PROVE  LogInv'
<1>1. closed' \subseteq 1..opened /\ waiting' \subseteq Client \cup {loop}
  BY DEF Close, lockVars, LogInv, TypeInv, LockInv
<1> QED
  BY <1>1, LoopFrame DEF Close, lockVars

(***************************************************************************)
(* The rotation starts: every slot is to be visited, and none holds a      *)
(* retired log.                                                            *)
(***************************************************************************)
LEMMA RotateLockKeeps ==
  ASSUME LogInv, RotateLock
  PROVE  LogInv'
<1>0. /\ rotator = "lock" /\ writer = nobody /\ writer' = loop
      /\ \A q \in DOMAIN readers : readers[q] = 0
      /\ waiting' = waiting \ {loop} /\ rotator' = "rotating"
      /\ todo' = slots /\ rotated' = <<>>
      /\ UNCHANGED <<subs, service, opened, retired, closed, readers, call, gaveUp,
                     misused>>
  BY DEF RotateLock, Lock, logVars
<1>1. DOMAIN rotated' = {}
  BY <1>0
<1>2. TypeInv'
  BY <1>0, <1>1, SlotsAre DEF LogInv, TypeInv, val, inSlots
<1>3. LockInv'
  BY <1>0, SrvLogAssumption DEF LogInv, LockInv, holdsRead
<1>4. UseInv' /\ BaseUsesLive' /\ FileInv'
  BY <1>0 DEF LogInv, UseInv, BaseUsesLive, FileInv, val
<1>5. QuietInv'
  BY <1>0 DEF QuietInv
<1>6. RotInv'
  <2> SUFFICES ASSUME ~gaveUp
               PROVE  /\ \A n \in Name, i \in Nat : inSlots(n, i) => <<n, i>> \in slots
                      /\ \A n \in Name, i \in Nat : <<n, i>> \in slots =>
                           val(n, i) \notin retired
                      /\ \E v : \A n \in Initial : <<n, 2>> \in slots /\ val(n, 2) = v
    BY <1>0, <1>1 DEF RotInv, val, inSlots
  <2>1. ASSUME NEW n \in Initial PROVE <<n, 2>> \in slots /\ val(n, 2) = val(error, 2)
    <3>1. n \in Name /\ n \in subs["base"] /\ Len(service[n].notifiers) > 1
      BY <2>1 DEF Name, LogInv, TypeInv, FileInv
    <3>2. inSlots(n, 2)
      BY <3>1, SlotFacts DEF inSlots, LogInv
    <3> QED
      BY <1>0, <2>1, <3>2, SlotsAre, SrvLogAssumption DEF LogInv, QuietInv
  <2>2. \A n \in Name, i \in Nat : <<n, i>> \in slots => val(n, i) \notin retired
    BY <1>0, SlotsAre DEF LogInv, QuietInv
  <2> QED
    BY <2>1, <2>2, SlotsAre
<1> QED
  BY <1>2, <1>3, <1>4, <1>5, <1>6 DEF LogInv

(***************************************************************************)
(* A step of the rotation: it visits slots, and no call through the base   *)
(* logger is among the notifiers meanwhile.                                *)
(***************************************************************************)
LEMMA RotateFrame ==
  ASSUME LogInv, rotator = "rotating", todo' \subseteq todo,
         UNCHANGED <<subs, closed, readers, waiting, writer, call, rotator, misused>>,
         gaveUp' \in BOOLEAN, gaveUp => gaveUp',
         opened' \in Nat, opened <= opened', retired' \subseteq 1..opened',
         \A l \in DOMAIN rotated' : rotated'[l] \in 1..opened',
         service' \in [Name -> Service],
         \A k \in Name : Len(service'[k].notifiers) = Len(service[k].notifiers),
         \A k \in Name : \A j \in DOMAIN service[k].notifiers :
           /\ val(k, j)' \in 0..opened'
           /\ val(k, j) # logBuffer => val(k, j)' # logBuffer,
         RotInv'
  PROVE  LogInv'
<1>1. ASSUME NEW k \in Name
      PROVE  /\ DOMAIN service'[k].notifiers = DOMAIN service[k].notifiers
             /\ k \notin subs["base"] => service'[k].notifiers = <<>>
  <2>1. service[k].notifiers \in Seq(Nat) /\ service'[k].notifiers \in Seq(Nat)
    BY DEF LogInv, TypeInv, Service
  <2>2. /\ DOMAIN service[k].notifiers = 1..Len(service[k].notifiers)
        /\ DOMAIN service'[k].notifiers = 1..Len(service'[k].notifiers)
    BY <2>1, LenProperties
  <2>3. Len(service'[k].notifiers) = Len(service[k].notifiers)
    OBVIOUS
  <2>4. ASSUME k \notin subs["base"] PROVE service'[k].notifiers = <<>>
    <3>1. service[k].notifiers = <<>>
      BY <2>4 DEF LogInv, TypeInv
    <3>2. Len(service'[k].notifiers) = 0
      BY <2>3, <3>1
    <3> QED
      BY <2>1, <3>2, EmptySeq
  <2> QED
    BY <2>2, <2>3, <2>4
<1>2. TypeInv'
  <2>1. ASSUME NEW s \in todo'
        PROVE  s = <<s[1], s[2]>> /\ inSlots(s[1], s[2])'
    <3>1. s = <<s[1], s[2]>> /\ inSlots(s[1], s[2]) /\ s[1] \in Name
      BY DEF LogInv, TypeInv, inSlots, Logger
    <3> QED
      BY <1>1, <3>1 DEF inSlots
  <2>2. closed' \subseteq 1..opened'
    BY DEF LogInv, TypeInv
  <2>3. \A k \in Name : \A j \in DOMAIN service'[k].notifiers : val(k, j)' \in 0..opened'
    BY <1>1
  <2> QED
    BY <1>1, <2>1, <2>2, <2>3 DEF LogInv, TypeInv
<1>3. LockInv'
  BY DEF LogInv, LockInv, holdsRead
<1>4. UseInv'
  <2>1. ASSUME NEW c \in Client PROVE ~holdsRead(c)
    BY DEF LogInv, LockInv, loop, nobody
  <2> QED
    BY <2>1 DEF UseInv, holdsRead, held
<1>5. FileInv'
  <2> SUFFICES ASSUME NEW n \in Initial
               PROVE  Len(service'[n].notifiers) > 1 /\ val(n, 2)' # logBuffer
    BY DEF FileInv
  <2>1. n \in Name /\ Len(service[n].notifiers) > 1 /\ val(n, 2) # logBuffer
    BY DEF Name, LogInv, FileInv
  <2>2. 2 \in DOMAIN service[n].notifiers
    BY <2>1, SlotFacts DEF LogInv
  <2> QED
    BY <2>1, <2>2
<1>6. QuietInv' /\ BaseUsesLive'
  BY DEF LogInv, QuietInv, BaseUsesLive
<1> QED
  BY <1>2, <1>3, <1>4, <1>5, <1>6 DEF LogInv

(***************************************************************************)
(* One slot is visited.  A log that was met before is replaced by its      *)
(* successor; one that was not is retired, and its successor is younger    *)
(* than whatever is in a slot.                                             *)
(***************************************************************************)
LEMMA RotateSlotKeeps ==
  ASSUME LogInv, NEW n \in Name, NEW i \in DOMAIN service[n].notifiers, RotateSlot(n, i)
  PROVE  LogInv'
<1> DEFINE old == val(n, i)
<1>0. /\ rotator = "rotating" /\ <<n, i>> \in todo /\ todo' = todo \ {<<n, i>>}
      /\ UNCHANGED <<subs, closed, readers, waiting, writer, call, rotator, gaveUp,
                     misused>>
  BY DEF RotateSlot, lockVars
<1>1. /\ opened \in Nat /\ gaveUp \in BOOLEAN /\ retired \subseteq 1..opened
      /\ service \in [Name -> Service]
      /\ \A l \in DOMAIN rotated : rotated[l] \in 1..opened
      /\ \A k \in Name : \A j \in DOMAIN service[k].notifiers : val(k, j) \in 0..opened
      /\ old \in 0..opened
  BY DEF LogInv, TypeInv
<1>2. Initial \subseteq Name /\ i \in Nat
  BY SlotFacts DEF Name, LogInv
<1>3. ASSUME NEW k \in Name, NEW j, <<k, j>> \in todo
      PROVE  inSlots(k, j) /\ j \in DOMAIN service[k].notifiers /\ j \in Nat
  <2>1. <<k, j>>[1] = k /\ <<k, j>>[2] = j
    OBVIOUS
  <2>2. inSlots(k, j)
    BY <1>3, <2>1 DEF LogInv, TypeInv
  <2> QED
    BY <2>2, SlotFacts DEF inSlots, LogInv
<1>4. ASSUME NEW k \in Initial
      PROVE  k \in Name /\ 2 \in DOMAIN service[k].notifiers /\ val(k, 2) # logBuffer
  BY <1>2, SlotFacts DEF LogInv, FileInv
<1>5. CASE old = logBuffer /\ UNCHANGED <<service, opened, retired, rotated>>
  <2>1. RotInv'
    <3> SUFFICES ASSUME ~gaveUp
                 PROVE  RotInv'
      BY <1>0 DEF RotInv
    <3>1. \A k \in Name, j \in Nat : (inSlots(k, j) /\ <<k, j>> \notin todo') =>
             val(k, j) = logBuffer \/ \E l \in DOMAIN rotated : val(k, j) = rotated[l]
      BY <1>0, <1>5 DEF LogInv, RotInv
    <3>2. \A k \in Initial : <<k, 2>> \in todo' <=> <<k, 2>> \in todo
      BY <1>0, <1>4, <1>5
    <3>3. PICK v : \A k \in Initial :
            IF <<k, 2>> \in todo THEN val(k, 2) = v
            ELSE v \in DOMAIN rotated /\ val(k, 2) = rotated[v]
      BY <1>0 DEF LogInv, RotInv
    <3>4. \E w : \A k \in Initial :
            IF <<k, 2>> \in todo' THEN val(k, 2) = w
            ELSE w \in DOMAIN rotated /\ val(k, 2) = rotated[w]
      BY <3>2, <3>3
    <3>5. /\ \A k \in Name, j \in Nat : <<k, j>> \in todo' =>
               /\ val(k, j) \in retired => val(k, j) \in DOMAIN rotated
               /\ \A l \in DOMAIN rotated : val(k, j) # rotated[l]
          /\ \A l \in DOMAIN rotated : rotated[l] \notin retired
      BY <1>0 DEF LogInv, RotInv
    <3> QED
      BY <1>0, <1>5, <3>1, <3>4, <3>5 DEF RotInv, val, inSlots
  <2>2. \A k \in Name : \A j \in DOMAIN service[k].notifiers : val(k, j)' = val(k, j)
    BY <1>5 DEF val
  <2> QED
    BY <1>0, <1>1, <1>5, <2>1, <2>2, RotateFrame
<1>6. ASSUME NEW x \in 1..opened', opened' \in {opened, opened + 1},
             service' = [service EXCEPT ![n].notifiers[i] = x],
             retired' \subseteq 1..opened',
             DOMAIN rotated' = DOMAIN rotated \cup {old}, rotated'[old] = x,
             \A l \in DOMAIN rotated : rotated'[l] = rotated[l],
             retired' \subseteq retired \cup {old}, ~gaveUp => x \notin retired',
             ~gaveUp => \A l \in DOMAIN rotated : rotated[l] # old,
             \A k \in Name : \A j \in Nat : (~gaveUp /\ <<k, j>> \in todo) => val(k, j) # x
      PROVE  LogInv'
  <2>0. x \in Nat /\ x # logBuffer /\ opened' \in Nat /\ opened <= opened'
    BY <1>1, <1>6 DEF logBuffer
  <2>1. /\ service' \in [Name -> Service]
        /\ \A k \in Name : Len(service'[k].notifiers) = Len(service[k].notifiers)
        /\ \A k \in Name : \A j \in DOMAIN service[k].notifiers :
             val(k, j)' = IF k = n /\ j = i THEN x ELSE val(k, j)
    <3> DEFINE seq == service[n].notifiers
               new == [seq EXCEPT ![i] = x]
    <3>1. seq \in Seq(Nat) /\ i \in 1..Len(seq) /\ service[n] \in Service
      BY <1>1, SlotFacts DEF LogInv
    <3>2. /\ new \in Seq(Nat) /\ Len(new) = Len(seq)
          /\ \A j \in 1..Len(seq) : new[j] = IF j = i THEN x ELSE seq[j]
      BY <2>0, <3>1, ExceptSeq
    <3>3. service' = [service EXCEPT ![n] = [@ EXCEPT !.notifiers = new]]
      BY <1>6
    <3> HIDE DEF new
    <3>4. /\ service' \in [Name -> Service] /\ service'[n].notifiers = new
          /\ \A k \in Name : k # n => service'[k] = service[k]
      BY <1>1, <3>1, <3>2, <3>3 DEF Service
    <3>5. DOMAIN seq = 1..Len(seq)
      BY <3>1, LenProperties
    <3>6. \A k \in Name : Len(service'[k].notifiers) = Len(service[k].notifiers)
      BY <3>2, <3>4
    <3>7. ASSUME NEW k \in Name, NEW j \in DOMAIN service[k].notifiers
          PROVE  val(k, j)' = IF k = n /\ j = i THEN x ELSE val(k, j)
      <4>1. CASE k = n
        BY <3>2, <3>4, <3>5, <3>7, <4>1 DEF val
      <4>2. CASE k # n
        BY <3>4, <4>2 DEF val
      <4> QED
        BY <4>1, <4>2
    <3> QED
      BY <3>4, <3>6, <3>7
  <2>2. \A k \in Name : DOMAIN service'[k].notifiers = DOMAIN service[k].notifiers
    <3>1. ASSUME NEW k \in Name
          PROVE  DOMAIN service'[k].notifiers = DOMAIN service[k].notifiers
      <4>1. service[k].notifiers \in Seq(Nat) /\ service'[k].notifiers \in Seq(Nat)
        BY <1>1, <2>1 DEF Service
      <4> QED
        BY <2>1, <4>1, LenProperties
    <3> QED
      BY <3>1
  <2>3. RotInv'
    <3> SUFFICES ASSUME ~gaveUp PROVE RotInv'
      BY <1>0 DEF RotInv
    <3>0. /\ \A k \in Name, j \in Nat : (inSlots(k, j) /\ <<k, j>> \notin todo) =>
               val(k, j) = logBuffer \/ \E l \in DOMAIN rotated : val(k, j) = rotated[l]
          /\ \A k \in Name, j \in Nat : <<k, j>> \in todo =>
               /\ val(k, j) \in retired => val(k, j) \in DOMAIN rotated
               /\ \A l \in DOMAIN rotated : val(k, j) # rotated[l]
          /\ \A l \in DOMAIN rotated : rotated[l] \notin retired
      BY <1>0 DEF LogInv, RotInv
    <3>1. ASSUME NEW k \in Name, NEW j \in Nat, inSlots(k, j)', <<k, j>> \notin todo'
          PROVE  \/ val(k, j)' = logBuffer
                 \/ \E l \in DOMAIN rotated' : val(k, j)' = rotated'[l]
      <4>1. inSlots(k, j) /\ j \in DOMAIN service[k].notifiers
        BY <1>0, <2>2, <3>1 DEF inSlots
      <4>2. CASE k = n /\ j = i
        BY <1>6, <2>1, <4>1, <4>2
      <4>3. CASE ~(k = n /\ j = i)
        <5>1. val(k, j)' = val(k, j) /\ <<k, j>> \notin todo
          BY <1>0, <2>1, <3>1, <4>1, <4>3
        <5>2. val(k, j) = logBuffer \/ \E l \in DOMAIN rotated : val(k, j) = rotated[l]
          BY <3>0, <4>1, <5>1
        <5> QED
          BY <1>6, <5>1, <5>2
      <4> QED
        BY <4>2, <4>3
    <3>2. ASSUME NEW k \in Name, NEW j \in Nat, <<k, j>> \in todo'
          PROVE  /\ val(k, j)' \in retired' => val(k, j)' \in DOMAIN rotated'
                 /\ \A l \in DOMAIN rotated' : val(k, j)' # rotated'[l]
      <4>1. <<k, j>> \in todo /\ ~(k = n /\ j = i)
        BY <1>0, <3>2
      <4>2. val(k, j)' = val(k, j)
        BY <1>3, <2>1, <4>1
      <4>3. /\ val(k, j) \in retired => val(k, j) \in DOMAIN rotated
            /\ \A l \in DOMAIN rotated : val(k, j) # rotated[l]
            /\ val(k, j) # x
        BY <1>6, <3>0, <4>1
      <4> QED
        BY <1>6, <4>2, <4>3
    <3>3. \A l \in DOMAIN rotated' : rotated'[l] \notin retired'
      BY <1>6, <3>0
    <3>4. \E v : \A k \in Initial :
            IF <<k, 2>> \in todo' THEN val(k, 2)' = v
            ELSE v \in DOMAIN rotated' /\ val(k, 2)' = rotated'[v]
      <4>1. PICK v : \A k \in Initial :
              IF <<k, 2>> \in todo THEN val(k, 2) = v
              ELSE v \in DOMAIN rotated /\ val(k, 2) = rotated[v]
        BY <1>0 DEF LogInv, RotInv
      <4>2. ASSUME NEW k \in Initial
            PROVE  IF <<k, 2>> \in todo' THEN val(k, 2)' = v
                   ELSE v \in DOMAIN rotated' /\ val(k, 2)' = rotated'[v]
        <5>1. val(k, 2)' = IF k = n /\ 2 = i THEN x ELSE val(k, 2)
          BY <1>4, <2>1
        <5>2. CASE k = n /\ i = 2
          <6>1. <<k, 2>> \in todo /\ <<k, 2>> \notin todo' /\ val(k, 2)' = x
            BY <1>0, <5>1, <5>2
          <6>2. v = old
            BY <4>1, <5>2, <6>1
          <6> QED
            BY <1>6, <6>1, <6>2
        <5>3. CASE ~(k = n /\ i = 2)
          <6>1. val(k, 2)' = val(k, 2) /\ (<<k, 2>> \in todo' <=> <<k, 2>> \in todo)
            BY <1>0, <5>1, <5>3
          <6> QED
            BY <1>6, <4>1, <6>1
        <5> QED
          BY <5>2, <5>3
      <4> QED
        BY <4>2
    <3> QED
      BY <3>1, <3>2, <3>3, <3>4 DEF RotInv
  <2>4. \A k \in Name : \A j \in DOMAIN service[k].notifiers :
          /\ val(k, j)' \in 0..opened'
          /\ val(k, j) # logBuffer => val(k, j)' # logBuffer
    BY <1>1, <1>6, <2>0, <2>1
  <2>5. \A l \in DOMAIN rotated' : rotated'[l] \in 1..opened'
    BY <1>1, <1>6, <2>0
  <2> QED
    BY <1>0, <1>1, <1>6, <2>0, <2>1, <2>3, <2>4, <2>5, RotateFrame
<1>7. ASSUME ~gaveUp
      PROVE  /\ \A l \in DOMAIN rotated : rotated[l] # old /\ rotated[l] \notin retired
             /\ \A k \in Name, j \in Nat : <<k, j>> \in todo =>
                  \A l \in DOMAIN rotated : val(k, j) # rotated[l]
  BY <1>0, <1>2, <1>7 DEF LogInv, RotInv
<1>8. CASE /\ old # logBuffer /\ alreadyRotated(old)
           /\ service' = [service EXCEPT ![n].notifiers[i] = rotated[old]]
           /\ UNCHANGED <<opened, retired, rotated>>
  <2>1. old \in DOMAIN rotated /\ rotated[old] \in 1..opened
    BY <1>1, <1>8 DEF alreadyRotated
  <2>2. ~gaveUp => rotated[old] \notin retired
    BY <1>7, <2>1
  <2>3. \A k \in Name : \A j \in Nat :
          (~gaveUp /\ <<k, j>> \in todo) => val(k, j) # rotated[old]
    BY <1>7, <2>1
  <2>4. /\ rotated[old] \in 1..opened' /\ opened' \in {opened, opened + 1}
        /\ service' = [service EXCEPT ![n].notifiers[i] = rotated[old]]
        /\ retired' \subseteq 1..opened'
        /\ DOMAIN rotated' = DOMAIN rotated \cup {old} /\ rotated'[old] = rotated[old]
        /\ \A l \in DOMAIN rotated : rotated'[l] = rotated[l]
        /\ retired' \subseteq retired \cup {old}
        /\ ~gaveUp => rotated[old] \notin retired'
        /\ ~gaveUp => \A l \in DOMAIN rotated : rotated[l] # old
    BY <1>1, <1>7, <1>8, <2>1, <2>2
  <2> QED
    BY <1>6, <2>3, <2>4
<1>9. CASE /\ old # logBuffer /\ ~alreadyRotated(old)
           /\ opened' = opened + 1
           /\ retired' = retired \cup {old}
           /\ service' = [service EXCEPT ![n].notifiers[i] = opened + 1]
           /\ rotated' = [l \in DOMAIN rotated \cup {old} |->
                            IF l = old THEN opened + 1 ELSE rotated[l]]
  <2> DEFINE x == opened + 1
  <2>1. old \in 1..opened /\ old \notin DOMAIN rotated
    BY <1>1, <1>9 DEF alreadyRotated, logBuffer
  <2>2. \A k \in Name : \A j \in Nat : (~gaveUp /\ <<k, j>> \in todo) => val(k, j) # x
    BY <1>1, <1>3
  <2>3. x \in 1..opened' /\ opened' \in {opened, opened + 1} /\ retired' \subseteq 1..opened'
    BY <1>1, <1>9, <2>1
  <2>4. /\ DOMAIN rotated' = DOMAIN rotated \cup {old} /\ rotated'[old] = x
        /\ \A l \in DOMAIN rotated : rotated'[l] = rotated[l]
    BY <1>9, <2>1
  <2>5. /\ retired' \subseteq retired \cup {old} /\ x \notin retired'
        /\ ~gaveUp => \A l \in DOMAIN rotated : rotated[l] # old
    BY <1>1, <1>7, <1>9, <2>1
  <2>6. service' = [service EXCEPT ![n].notifiers[i] = x]
    BY <1>9
  <2> HIDE DEF x
  <2> QED
    BY <1>6, <2>2, <2>3, <2>4, <2>5, <2>6
<1> QED
  BY <1>0, <1>5, <1>8, <1>9 DEF RotateSlot, val

(***************************************************************************)
(* Rotate gives up.                                                        *)
(***************************************************************************)
LEMMA RotateFailsKeeps ==
  ASSUME LogInv, NEW n \in Name, NEW i \in DOMAIN service[n].notifiers, RotateFails(n, i)
  PROVE  LogInv'
<1>0. /\ rotator = "rotating" /\ val(n, i) # logBuffer
      /\ retired' = retired \cup {val(n, i)} /\ todo' = {} /\ gaveUp' = TRUE
      /\ UNCHANGED <<subs, service, opened, closed, readers, waiting, writer, call,
                     rotator, rotated, misused>>
  BY DEF RotateFails, lockVars, val
<1>1. /\ opened \in Nat /\ service \in [Name -> Service]
      /\ \A l \in DOMAIN rotated : rotated[l] \in 1..opened
      /\ \A k \in Name : \A j \in DOMAIN service[k].notifiers : val(k, j) \in 0..opened
      /\ retired \subseteq 1..opened
  BY DEF LogInv, TypeInv
<1>2. retired' \subseteq 1..opened
  <2>1. val(n, i) \in 1..opened
    BY <1>0, <1>1 DEF logBuffer
  <2> QED
    BY <1>0, <1>1, <2>1
<1>3. \A k \in Name : \A j \in DOMAIN service[k].notifiers : val(k, j)' = val(k, j)
  BY <1>0 DEF val
<1>4. RotInv'
  BY <1>0 DEF RotInv
<1> QED
  BY <1>0, <1>1, <1>2, <1>3, <1>4, RotateFrame

(***************************************************************************)
(* The rotation ends: every slot was visited.                              *)
(***************************************************************************)
LEMMA RotateUnlockKeeps ==
  ASSUME LogInv, RotateUnlock
  PROVE  LogInv'
<1>0. /\ rotator = "rotating" /\ todo = {} /\ writer' = nobody /\ rotator' = "select"
      /\ UNCHANGED <<subs, service, opened, retired, closed, readers, waiting, call, todo,
                     rotated, gaveUp, misused>>
  BY DEF RotateUnlock, Unlock, logVars
<1>1. TypeInv' /\ UseInv' /\ FileInv' /\ BaseUsesLive'
  BY <1>0 DEF LogInv, TypeInv, UseInv, FileInv, BaseUsesLive, val, inSlots
<1>2. LockInv'
  <2>1. writer = loop /\ \A c \in Client : c # loop
    BY <1>0, SrvLogAssumption DEF LogInv, LockInv
  <2>2. \A c \in Client : call[c].pc # "added"
    BY <2>1 DEF LogInv, LockInv
  <2> QED
    BY <1>0, <2>2 DEF LogInv, LockInv, holdsRead
<1>3. QuietInv'
  <2> SUFFICES ASSUME ~gaveUp
               PROVE  /\ \A n \in Name, i \in Nat : inSlots(n, i) => val(n, i) \notin retired
                      /\ \A n, k \in Initial : val(n, 2) = val(k, 2)
    BY <1>0 DEF QuietInv, val, inSlots
  <2>1. logBuffer \notin retired
    BY DEF LogInv, TypeInv, logBuffer
  <2>2. \A n \in Name, i \in Nat : inSlots(n, i) => val(n, i) \notin retired
    BY <1>0, <2>1 DEF LogInv, RotInv
  <2>3. \A n, k \in Initial : val(n, 2) = val(k, 2)
    BY <1>0 DEF LogInv, RotInv
  <2> QED
    BY <2>2, <2>3
<1>4. RotInv'
  BY <1>0 DEF RotInv
<1> QED
  BY <1>1, <1>2, <1>3, <1>4 DEF LogInv

-----------------------------------------------------------------------------
(***************************************************************************)
(* Nobody waits for ever in a circle: while a call or a rotation is under  *)
(* way, one of them is not kept by the lock of the base logger.  Only a    *)
(* goroutine that uses a missing name on the base logger waits for itself, *)
(* at "Loggers missing", once a writer has come in between.                *)
(***************************************************************************)
active(p) == IF p = loop THEN rotator \in {"lock", "rotating"} ELSE call[p].pc # "idle"

lockTaken == writer # nobody \/ \E q \in Client \cup {loop} : readers[q] # 0

\* p is at a lock it does not get: Lock for the loop and AddLog, else RLock
blocked(p) ==
  IF p = loop THEN rotator = "lock" /\ (loop \notin waiting \/ lockTaken)
  ELSE \/ call[p].pc = "entry" /\ call[p].logger = "base" /\ ~rLockFree
       \/ call[p].pc = "nested" /\ ~rLockFree
       \/ call[p].pc = "lock" /\ (p \notin waiting \/ lockTaken)

NoDeadlock ==
  (\E p \in Client \cup {loop} : active(p)) =>
    \E p \in Client \cup {loop} : active(p) /\ ~blocked(p)

\* who holds the lock and who waits for it, and that whoever holds it for reading
\* does not ask for it again
WaitInv ==
  /\ readers[loop] = 0
  /\ \A c \in Client : c \in waiting <=> call[c].pc = "lock"
  /\ loop \in waiting <=> rotator = "lock"
  /\ writer = loop => rotator = "rotating"
  /\ \A c \in Client : writer = c => call[c].pc = "added"
  /\ \A c \in Client :
       (call[c].logger = "base" /\ call[c].op \notin {"AddLog", "WithFields"}) =>
          call[c].name \in subs["base"]
  /\ \A c \in Client : call[c].pc = "nested" => call[c].logger # "base"

(***************************************************************************)
(* A step of one call that keeps the lock as it is.                        *)
(***************************************************************************)
LEMMA WaitFrame ==
  ASSUME LogInv, WaitInv, NEW c \in Client, NEW r \in CallType,
         call' = [call EXCEPT ![c] = r],
         UNCHANGED <<waiting, writer, rotator>>,
         readers'[loop] = readers[loop], subs["base"] \subseteq subs'["base"],
         r.pc \notin {"lock", "added"}, call[c].pc \notin {"lock", "added"},
         (r.logger = "base" /\ r.op \notin {"AddLog", "WithFields"}) =>
            r.name \in subs["base"],
         r.pc = "nested" => r.logger # "base"
  PROVE  WaitInv'
<1>1. call'[c] = r /\ \A d \in Client : d # c => call'[d] = call[d]
  BY DEF LogInv, TypeInv
<1> QED
  BY <1>1 DEF WaitInv

(***************************************************************************)
(* Where a client stays what it is but for its program counter.            *)
(***************************************************************************)
LEMMA WaitGoto ==
  ASSUME LogInv, WaitInv, NEW c \in Client, NEW to \in PC,
         call' = [call EXCEPT ![c].pc = to],
         UNCHANGED <<waiting, writer, rotator>>,
         readers'[loop] = readers[loop], subs["base"] \subseteq subs'["base"],
         to \notin {"lock", "added"}, call[c].pc \notin {"lock", "added"},
         to = "nested" => call[c].logger # "base"
  PROVE  WaitInv'
<1> DEFINE r == [call[c] EXCEPT !.pc = to]
<1>1. /\ r \in CallType /\ r.pc = to /\ r.op = call[c].op
      /\ r.logger = call[c].logger /\ r.name = call[c].name
  BY GotoType
<1>2. call' = [call EXCEPT ![c] = r]
  BY DEF LogInv, TypeInv
<1> HIDE DEF r
<1>3. (r.logger = "base" /\ r.op \notin {"AddLog", "WithFields"}) => r.name \in subs["base"]
  BY <1>1 DEF WaitInv
<1> QED
  BY <1>1, <1>2, <1>3, WaitFrame

(***************************************************************************)
(* A new SrvLog has nobody at its lock.                                    *)
(***************************************************************************)
LEMMA InitWaitInv == Init => WaitInv
<1> SUFFICES ASSUME Init PROVE WaitInv
  OBVIOUS
<1>1. loop \notin Client /\ nobody \notin Client /\ loop # nobody /\ error \in Initial
  BY SrvLogAssumption DEF loop, nobody
<1>2. \A c \in Client : call[c].pc = "idle" /\ call[c].name = error
  BY DEF Init, noCall
<1>3. subs["base"] = Initial /\ readers[loop] = 0
  BY DEF Init, Logger
<1> QED
  BY <1>1, <1>2, <1>3 DEF Init, WaitInv

(***************************************************************************)
(* WaitInv is inductive: a name a client uses on the base logger stays     *)
(* registered, so "Loggers missing" is not met under its read lock.        *)
(***************************************************************************)
LEMMA NextWaitInv ==
  ASSUME "base" \notin Missed, LogInv, WaitInv, [Next]_vars
  PROVE  WaitInv'
<1> USE DEF logVars, lockVars, loopVars, at, goto
<1>0. /\ call \in [Client -> CallType] /\ subs \in [Logger -> SUBSET Name]
      /\ readers \in [Client \cup {loop} -> 0..1] /\ loop \notin Client
      /\ nobody \notin Client /\ loop # nobody /\ Initial \subseteq subs["base"]
      /\ error \in Initial
  BY SrvLogAssumption DEF LogInv, TypeInv, LockInv, loop, nobody
<1>1. ASSUME NEW c \in Client, NEW op \in Op, NEW l \in Logger, NEW n \in Name,
             Call(c, op, l, n)
      PROVE  WaitInv'
  <2> DEFINE r == [noCall EXCEPT !.pc = "entry", !.op = op, !.logger = l, !.name = n]
  <2>1. r \in CallType /\ r.pc = "entry" /\ r.op = op /\ r.logger = l /\ r.name = n
    BY DEF noCall, CallType, PC
  <2>2. call' = [call EXCEPT ![c] = r] /\ call[c].pc = "idle"
        /\ UNCHANGED <<subs, readers, waiting, writer, rotator>>
    BY <1>1 DEF Call
  <2>3. (l = "base" /\ op \notin {"AddLog", "WithFields"}) => n \in subs["base"]
    BY <1>1 DEF Call
  <2> HIDE DEF r
  <2> QED
    BY <2>1, <2>2, <2>3, WaitFrame
<1>2. ASSUME NEW c \in Client, Enter(c) PROVE WaitInv'
  <2>1. CASE call[c].op = "AddLog" /\ Announce(c) /\ goto(c, "lock")
    <3>1. /\ \A d \in Client : d # c => call'[d] = call[d]
          /\ call'[c].pc = "lock" /\ call'[c].op = "AddLog"
      BY <1>0, <2>1 DEF CallType
    <3>2. waiting = {} /\ waiting' = {c} /\ UNCHANGED <<readers, writer, rotator, subs>>
          /\ call[c].pc = "entry"
      BY <1>2, <2>1 DEF Enter, Announce
    <3>3. writer = nobody
      BY <2>1 DEF Announce
    <3> QED
      BY <1>0, <3>1, <3>2, <3>3 DEF WaitInv
  <2>2. CASE RLock(c) /\ goto(c, "locked") /\ UNCHANGED <<waiting, writer>>
    <3>1. readers'[loop] = readers[loop] /\ "locked" \in PC
      BY <1>0, <2>2 DEF RLock, PC
    <3> QED
      BY <1>0, <1>2, <2>2, <3>1, WaitGoto DEF Enter
  <2>3. CASE goto(c, "locked") /\ UNCHANGED lockVars
    BY <1>2, <2>3, WaitGoto DEF Enter, PC
  <2> QED
    BY <1>2, <2>1, <2>2, <2>3 DEF Enter
<1>3. ASSUME NEW c \in Client, AddLog(c) PROVE WaitInv'
  <2>1. /\ \A d \in Client : d # c => call'[d] = call[d]
        /\ call'[c].pc = "added" /\ call'[c].op = call[c].op
        /\ call'[c].logger = call[c].logger /\ call'[c].name = call[c].name
    BY <1>0, <1>3 DEF AddLog, CallType
  <2>2. /\ writer' = c /\ waiting' = waiting \ {c} /\ UNCHANGED <<readers, rotator>>
        /\ subs["base"] \subseteq subs'["base"] /\ writer = nobody
    BY <1>0, <1>3 DEF AddLog, Lock, Logger
  <2> QED
    BY <1>0, <2>1, <2>2 DEF WaitInv
<1>4. ASSUME NEW c \in Client, AddLogUnlock(c) PROVE WaitInv'
  <2>1. /\ \A d \in Client : d # c => call'[d] = call[d]
        /\ call'[c].pc = "idle" /\ call'[c].op = call[c].op
        /\ call'[c].logger = call[c].logger /\ call'[c].name = call[c].name
    BY <1>0, <1>4 DEF AddLogUnlock, CallType
  <2>2. writer' = nobody /\ UNCHANGED <<readers, waiting, rotator, subs>>
        /\ call[c].pc = "added"
    BY <1>4 DEF AddLogUnlock, Unlock
  <2> QED
    BY <1>0, <2>1, <2>2 DEF WaitInv
<1>5. ASSUME NEW c \in Client, WithFields(c) \/ SetLogsEnabled(c) \/ Used(c) \/ NestedLogTo(c)
      PROVE  WaitInv'
  <2>1. subs["base"] \subseteq subs'["base"]
    BY <1>0, <1>5 DEF WithFields, SetLogsEnabled, Used, NestedLogTo, Logger
  <2>2. "unlock" \in PC
    BY DEF PC
  <2> QED
    BY <1>5, <2>1, <2>2, WaitGoto DEF WithFields, SetLogsEnabled, Used, NestedLogTo
<1>6. ASSUME NEW c \in Client, Begin(c) PROVE WaitInv'
  <2>0. "unlock" \in PC /\ "using" \in PC
    BY DEF PC
  <2>1. CASE call' = [call EXCEPT ![c].pc = "unlock"]
    BY <1>6, <2>0, <2>1, WaitGoto DEF Begin
  <2>2. CASE call' = [call EXCEPT ![c].pc = "using", ![c].i = 1,
                                  ![c].len = Len(service[call[c].name].notifiers)]
    <3>1. /\ \A d \in Client : d # c => call'[d] = call[d]
          /\ call'[c].pc = "using" /\ call'[c].op = call[c].op
          /\ call'[c].logger = call[c].logger /\ call'[c].name = call[c].name
      BY <1>0, <2>2 DEF CallType
    <3>2. UNCHANGED <<subs, readers, waiting, writer, rotator>> /\ call[c].pc = "locked"
      BY <1>6 DEF Begin
    <3> QED
      BY <1>0, <3>1, <3>2 DEF WaitInv
  <2> QED
    BY <1>6, <2>1, <2>2 DEF Begin
<1>7. ASSUME NEW c \in Client, Use(c) PROVE WaitInv'
  <2>1. /\ \A d \in Client : d # c => call'[d] = call[d]
        /\ call'[c].pc = call[c].pc /\ call'[c].op = call[c].op
        /\ call'[c].logger = call[c].logger /\ call'[c].name = call[c].name
    BY <1>0, <1>7 DEF Use, CallType
  <2>2. UNCHANGED <<subs, readers, waiting, writer, rotator>>
    BY <1>7 DEF Use
  <2> QED
    BY <2>1, <2>2 DEF WaitInv
<1>8. ASSUME NEW c \in Client, Missing(c) PROVE WaitInv'
  <2>1. call[c].op # "AddLog"
    BY <1>8 DEF Missing, LogInv, LockInv, held
  <2>2. call[c].logger # "base"
    BY <1>8, <2>1 DEF Missing, known, WaitInv
  <2>3. "nested" \in PC
    BY DEF PC
  <2> QED
    BY <1>8, <2>2, <2>3, WaitGoto DEF Missing
<1>9. ASSUME NEW c \in Client, Leave(c) PROVE WaitInv'
  <2>1. noCall \in CallType /\ noCall.pc = "idle" /\ noCall.name \in subs["base"]
    BY <1>0 DEF noCall, CallType, PC, Op, Logger, Name
  <2>2. readers'[loop] = readers[loop]
    BY <1>0, <1>9 DEF Leave, RUnlock
  <2> QED
    BY <1>9, <2>1, <2>2, WaitFrame DEF Leave
<1>10. CASE RotateBegin
  BY <1>0, <1>10 DEF RotateBegin, Announce, WaitInv
<1>11. CASE RotateLock
  BY <1>0, <1>11 DEF RotateLock, Lock, WaitInv
<1>12. ASSUME NEW n \in Name, NEW i \in DOMAIN service[n].notifiers,
              RotateSlot(n, i) \/ RotateFails(n, i)
       PROVE  WaitInv'
  BY <1>12 DEF RotateSlot, RotateFails, WaitInv
<1>13. CASE RotateUnlock
  <2>1. writer = loop
    BY <1>13 DEF RotateUnlock, LogInv, LockInv
  <2> QED
    BY <1>0, <1>13, <2>1 DEF RotateUnlock, Unlock, WaitInv
<1>14. CASE Close
  BY <1>0, <1>14 DEF Close, rLockFree, WaitInv
<1>15. CASE UNCHANGED vars
  BY <1>15 DEF vars, WaitInv
<1> QED
  BY <1>1, <1>2, <1>3, <1>4, <1>5, <1>6, <1>7, <1>8, <1>9, <1>10, <1>11, <1>12, <1>13,
     <1>14, <1>15 DEF Next, ClientStep, LoopStep

(***************************************************************************)
(* Who is waited for is not waiting: the writer never is, and a reader is  *)
(* not; without both, the waiting writer gets the lock.                    *)
(***************************************************************************)
LEMMA SomebodyGoes ==
  ASSUME LogInv, WaitInv
  PROVE  NoDeadlock
<1> SUFFICES ASSUME NEW p \in Client \cup {loop}, active(p)
             PROVE  \E q \in Client \cup {loop} : active(q) /\ ~blocked(q)
  BY DEF NoDeadlock
<1>0. loop \notin Client /\ nobody \notin Client /\ loop # nobody
  BY SrvLogAssumption DEF loop, nobody
<1>1. CASE writer # nobody
  <2>1. PICK q \in Client \cup {loop} : q = writer
    BY <1>1 DEF LogInv, LockInv
  <2>2. active(q) /\ ~blocked(q)
    BY <1>0, <2>1 DEF WaitInv, active, blocked
  <2> QED
    BY <2>2
<1>2. CASE writer = nobody /\ \E q \in Client \cup {loop} : readers[q] # 0
  <2>1. PICK q \in Client : readers[q] # 0
    BY <1>2 DEF WaitInv
  <2>2. call[q].logger = "base" /\ call[q].pc \in held
    BY <2>1 DEF LogInv, LockInv, holdsRead
  <2>3. active(q) /\ ~blocked(q)
    BY <1>0, <2>2 DEF WaitInv, active, blocked, held
  <2> QED
    BY <2>3
<1>3. CASE ~lockTaken /\ waiting # {}
  <2>1. PICK q \in Client \cup {loop} : q \in waiting
    BY <1>3 DEF LogInv, LockInv
  <2>2. active(q) /\ ~blocked(q)
    BY <1>0, <1>3, <2>1 DEF WaitInv, active, blocked
  <2> QED
    BY <2>2
<1>4. CASE ~lockTaken /\ waiting = {}
  <2>1. ~blocked(p)
    BY <1>0, <1>4 DEF WaitInv, blocked, lockTaken, rLockFree
  <2> QED
    BY <2>1
<1> QED
  BY <1>1, <1>2, <1>3, <1>4 DEF lockTaken

-----------------------------------------------------------------------------
(* The theorems. *)

(***************************************************************************)
(* LogInv is inductive.                                                    *)
(***************************************************************************)
LEMMA NextLogInv == LogInv /\ [Next]_vars => LogInv'
<1> SUFFICES ASSUME LogInv, [Next]_vars PROVE LogInv'
  OBVIOUS
<1>1. ASSUME NEW c \in Client, NEW op \in Op, NEW l \in Logger, NEW n \in Name,
             Call(c, op, l, n)
      PROVE  LogInv'
  BY <1>1, CallKeeps
<1>2. ASSUME NEW c \in Client, ClientStep(c) PROVE LogInv'
  BY <1>2, EnterKeeps, AddLogKeeps, AddLogUnlockKeeps, WithFieldsKeeps,
     SetLogsEnabledKeeps, BeginKeeps, UseKeeps, UsedKeeps, MissingKeeps,
     NestedLogToKeeps, LeaveKeeps DEF ClientStep
<1>3. CASE RotateBegin
  BY <1>3, RotateBeginKeeps
<1>4. CASE LoopStep
  <2>1. ASSUME NEW n \in Name, NEW i \in DOMAIN service[n].notifiers,
               RotateSlot(n, i) \/ RotateFails(n, i)
        PROVE  LogInv'
    BY <2>1, RotateSlotKeeps, RotateFailsKeeps
  <2> QED
    BY <1>4, <2>1, RotateLockKeeps, RotateUnlockKeeps DEF LoopStep
<1>5. CASE Close
  BY <1>5, CloseKeeps
<1>6. CASE UNCHANGED vars
  <2> USE <1>6 DEF vars, logVars, lockVars, loopVars
  <2>1. TypeInv' /\ LockInv' /\ UseInv'
    BY DEF LogInv, TypeInv, LockInv, UseInv, holdsRead, val, inSlots
  <2>2. FileInv' /\ QuietInv' /\ RotInv'
    BY LogsFrame
  <2>3. BaseUsesLive'
    BY DEF LogInv, BaseUsesLive
  <2> QED
    BY <2>1, <2>2, <2>3 DEF LogInv
<1> QED
  BY <1>1, <1>2, <1>3, <1>4, <1>5, <1>6 DEF Next

(***************************************************************************)
(* LogInv holds in every state of the log service.                         *)
(***************************************************************************)
THEOREM SrvLogInvariant == Spec => []LogInv
BY InitLogInv, NextLogInv, PTL DEF Spec

(***************************************************************************)
(* The types: a goroutine holds the read lock of srvLog at most once, none *)
(* does while a rotation or an AddLog holds the lock for writing, and the  *)
(* rotation only has slots of registered names before it.                  *)
(***************************************************************************)
THEOREM SrvLogTypeCorrect == Spec => []SrvLogTypeOK
<1>1. LogInv => SrvLogTypeOK
  <2> SUFFICES ASSUME LogInv PROVE SrvLogTypeOK
    OBVIOUS
  <2>1. ASSUME NEW n \in Name
        PROVE  service[n] \in [enabled : BOOLEAN, notifiers : Seq(0..opened)]
    <3>1. service[n] \in Service /\ service[n].notifiers \in Seq(Nat) /\ opened \in Nat
      BY DEF LogInv, TypeInv, Service
    <3>2. service[n].notifiers \in Seq(0..opened)
      BY <3>1, BoundedSeq DEF LogInv, TypeInv, val
    <3> QED
      BY <3>1, <3>2 DEF Service
  <2>2. todo \subseteq slots
    BY SlotsAre DEF LogInv, TypeInv
  <2> QED
    BY <2>1, <2>2 DEF LogInv, TypeInv, LockInv, SrvLogTypeOK
<1> QED
  BY <1>1, SrvLogInvariant, PTL

(***************************************************************************)
(* Rotate: outside a rotation, and until one fails half way, no slot holds *)
(* a log that was rotated away, and names that started with one file share *)
(* one file.                                                               *)
(***************************************************************************)
THEOREM LogsRotateTogether == Spec => []RotatedTogether
<1>1. LogInv => RotatedTogether
  <2> SUFFICES ASSUME LogInv, rotator # "rotating", ~gaveUp
               PROVE  /\ \A s \in slots : service[s[1]].notifiers[s[2]] \notin retired
                      /\ \A n, m \in Initial :
                           service[n].notifiers[2] = service[m].notifiers[2]
    BY DEF RotatedTogether
  <2>1. ASSUME NEW s \in slots PROVE service[s[1]].notifiers[s[2]] \notin retired
    <3>1. inSlots(s[1], s[2]) /\ s[1] \in Name
      BY SlotsAre DEF inSlots, LogInv, TypeInv, Logger
    <3>2. s[2] \in Nat
      BY <3>1, SlotFacts DEF inSlots, LogInv
    <3> QED
      BY <3>1, <3>2 DEF LogInv, QuietInv, val
  <2> QED
    BY <2>1 DEF LogInv, QuietInv, val
<1> QED
  BY <1>1, SrvLogInvariant, PTL

(***************************************************************************)
(* LogTo and SetFlushIntervalSec of the base logger, and the error log of  *)
(* a missing name, use no log that was rotated away, until a rotation      *)
(* fails half way.                                                         *)
(***************************************************************************)
THEOREM BaseNeverStale == Spec => []BaseUsesLive
BY SrvLogInvariant, PTL DEF LogInv

(***************************************************************************)
(* No deadlock on the lock of the base logger, for any number of           *)
(* goroutines, unless one of them uses a missing name on that logger:      *)
(* LogTo, SetLogsEnabled, WithFields, AddLog and Rotate never wait for     *)
(* each other in a circle, the error log of a derived logger included.     *)
(***************************************************************************)
THEOREM LogNeverDeadlocks ==
  ASSUME "base" \notin Missed
  PROVE  Spec => []NoDeadlock
<1>1. LogInv /\ WaitInv /\ [Next]_vars => WaitInv'
  BY NextWaitInv
<1>2. LogInv /\ WaitInv => NoDeadlock
  BY SomebodyGoes
<1> QED
  BY <1>1, <1>2, InitWaitInv, SrvLogInvariant, PTL DEF Spec
=============================================================================
