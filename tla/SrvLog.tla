------------------------------- MODULE SrvLog -------------------------------
(***************************************************************************)
(* The log service (log.go): the base logger srvLog, a logger derived from *)
(* it by WithFields, the goroutines that log, and the loop that rotates    *)
(* and closes the logs.                                                    *)
(*                                                                         *)
(* A LogService is a pointer that the base and the derived logger share:   *)
(* WithFields copies the map from names to services, not the services.  So *)
(* services are indexed by name here, and each logger has the set of names *)
(* in its map.  A log object is a number: 0 is logBuffer, kept in memory;  *)
(* the others are BufferedLogs, numbered as they are opened.               *)
(*                                                                         *)
(* The lock of the base logger is a Go RWMutex: a waiting writer keeps new *)
(* readers out.  The lock of the derived logger is only taken for reading, *)
(* so it never blocks and is left out.  What a message says, its fields    *)
(* and the flush interval are left out too.                                *)
(***************************************************************************)
EXTENDS Naturals, Sequences, FiniteSets

CONSTANTS Client,       \* goroutines that log
          Initial,      \* the names NewSrvLog registers
          Added,        \* names the application may add
          Missed,       \* loggers on which a client may use any name, also one
                        \* that is not registered
          MaxCalls,     \* bound: calls of the clients
          MaxRotations  \* bound: rotations

Name == Initial \cup Added
error == "error"
loop == "loop"
nobody == "nobody"
logBuffer == 0

ASSUME SrvLogAssumption ==
  /\ error \in Initial /\ Initial \cap Added = {}
  /\ {loop, nobody} \cap Client = {}
  /\ IsFiniteSet(Client)
  /\ Missed \subseteq {"base", "derived"}
  /\ MaxCalls \in Nat /\ MaxRotations \in Nat

Op == {"LogTo", "SetLogsEnabled", "SetFlushIntervalSec", "WithFields", "AddLog"}
Logger == {"base", "derived"}

VARIABLES
  subs,       \* the names a logger knows
  service,    \* LogService of a name: enabled, notifiers
  opened,     \* BufferedLogs opened so far
  retired,    \* those that were rotated away
  closed,     \* those that were closed
  readers,    \* read locks a goroutine holds on the base logger
  waiting,    \* the writer that waits for the readers, if any
  writer,     \* the goroutine that holds it
  call,       \* the call a client is in
  rotator,    \* where the loop is
  todo,       \* slots the rotation has not visited
  rotated,    \* the map of Rotate: the new log for an old one
  gaveUp,     \* a rotation has failed half way (history)
  misused,    \* loggers that have used a retired log (history)
  calls, rotations

lockVars == <<readers, waiting, writer>>
logVars == <<subs, service, opened, retired, closed>>
loopVars == <<rotator, todo, rotated, rotations, gaveUp>>
vars == <<logVars, lockVars, call, loopVars, misused, calls>>

noCall == [pc |-> "idle", op |-> "LogTo", logger |-> "base", name |-> error,
           i |-> 0, len |-> 0]

Init ==
  /\ subs = [l \in Logger |-> IF l = "base" THEN Initial ELSE {}]
  /\ service = [n \in Name |->
       [enabled |-> TRUE,
        notifiers |-> IF n \in Initial THEN <<logBuffer, 1>> ELSE <<>>]]
  /\ opened = 1
  /\ retired = {} /\ closed = {}
  /\ readers = [c \in Client \cup {loop} |-> 0]
  /\ waiting = {} /\ writer = nobody
  /\ call = [c \in Client |-> noCall]
  /\ rotator = "select" /\ todo = {} /\ rotated = <<>>
  /\ gaveUp = FALSE /\ misused = {}
  /\ calls = 0 /\ rotations = 0

-----------------------------------------------------------------------------
(***************************************************************************)
(* The RWMutex of the base logger.                                         *)
(***************************************************************************)

\* mutant: a rotation does not keep readers out
rLockAnyway == TRUE

rLockFree == writer = nobody /\ waiting = {}

RLock(p) == rLockFree /\ readers' = [readers EXCEPT ![p] = @ + 1]
RUnlock(p) == readers' = [readers EXCEPT ![p] = @ - 1]

\* One writer at a time announces itself; it gets the lock when the readers are
\* gone.  The next one does so after the readers it has kept out were let in.
Announce(p) ==
  /\ writer = nobody /\ waiting = {}
  /\ waiting' = {p}
  /\ UNCHANGED <<readers, writer>>
Lock(p) ==
  /\ p \in waiting
  /\ writer = nobody
  /\ \A q \in DOMAIN readers : readers[q] = 0
  /\ writer' = p
  /\ waiting' = waiting \ {p}
  /\ UNCHANGED readers
Unlock == writer' = nobody /\ UNCHANGED <<readers, waiting>>

-----------------------------------------------------------------------------
(***************************************************************************)
(* Calls.                                                                  *)
(***************************************************************************)

at(c, pc) == call[c].pc = pc
goto(c, pc) == call' = [call EXCEPT ![c].pc = pc]

Call(c, op, l, n) ==
  /\ at(c, "idle")
  /\ calls < MaxCalls
  /\ calls' = calls + 1
  /\ op \in {"AddLog", "WithFields"} => l = "base"
  /\ l = "derived" => subs["derived"] # {}
  /\ op \in {"AddLog", "WithFields"} \/ l \in Missed \/ n \in subs[l]
  /\ call' = [call EXCEPT ![c] = [noCall EXCEPT !.pc = "entry", !.op = op,
                                                !.logger = l, !.name = n]]
  /\ UNCHANGED <<logVars, lockVars, loopVars, misused>>

\* the lock the call takes: for writing, for reading, or the derived logger's
Enter(c) ==
  /\ at(c, "entry")
  /\ \/ /\ call[c].op = "AddLog"
        /\ Announce(c)
        /\ goto(c, "lock")
     \/ /\ call[c].op # "AddLog" /\ call[c].logger = "base"
        /\ RLock(c)
        /\ goto(c, "locked")
        /\ UNCHANGED <<waiting, writer>>
     \/ /\ call[c].logger = "derived"
        /\ goto(c, "locked")
        /\ UNCHANGED lockVars
  /\ UNCHANGED <<logVars, loopVars, misused, calls>>

\* a file log of its own for a name, known or not
AddLog(c) ==
  /\ at(c, "lock")
  /\ Lock(c)
  /\ goto(c, "added")
  /\ opened' = opened + 1
  /\ subs' = [subs EXCEPT !["base"] = @ \cup {call[c].name}]
  /\ service' = [service EXCEPT ![call[c].name].notifiers = Append(@, opened + 1)]
  /\ UNCHANGED <<retired, closed, loopVars, misused, calls>>

AddLogUnlock(c) ==
  /\ at(c, "added")
  /\ Unlock
  /\ goto(c, "idle")
  /\ UNCHANGED <<logVars, loopVars, misused, calls>>

\* mutant: the lock is given up at the return, and again by the defer
WithFieldsUnlocks(c) ==
  /\ at(c, "locked") /\ call[c].op = "WithFields"
  /\ subs' = [subs EXCEPT !["derived"] = subs["base"]]
  /\ RUnlock(c)
  /\ goto(c, "unlock")
  /\ UNCHANGED <<service, opened, retired, closed, waiting, writer, loopVars,
                 misused, calls>>

WithFields(c) ==
  /\ at(c, "locked") /\ call[c].op = "WithFields"
  /\ subs' = [subs EXCEPT !["derived"] = subs["base"]]
  /\ goto(c, "unlock")
  /\ UNCHANGED <<service, opened, retired, closed, lockVars, loopVars, misused, calls>>

known(c) == call[c].name \in subs[call[c].logger]

SetLogsEnabled(c) ==
  /\ at(c, "locked") /\ call[c].op = "SetLogsEnabled" /\ known(c)
  /\ \E val \in BOOLEAN : service' = [service EXCEPT ![call[c].name].enabled = val]
  /\ goto(c, "unlock")
  /\ UNCHANGED <<subs, opened, retired, closed, lockVars, loopVars, misused, calls>>

\* LogTo of an enabled service and SetFlushIntervalSec go through its notifiers;
\* the range statement fixes their number first
Begin(c) ==
  LET s == service[call[c].name] IN
  /\ at(c, "locked") /\ call[c].op \in {"LogTo", "SetFlushIntervalSec"} /\ known(c)
  /\ call' = IF call[c].op = "LogTo" /\ ~s.enabled
             THEN [call EXCEPT ![c].pc = "unlock"]
             ELSE [call EXCEPT ![c].pc = "using", ![c].i = 1,
                               ![c].len = Len(s.notifiers)]
  /\ UNCHANGED <<logVars, lockVars, loopVars, misused, calls>>

\* Print, or SetFlushIntervalSec, on one notifier
Use(c) ==
  LET l == service[call[c].name].notifiers[call[c].i] IN
  /\ at(c, "using") /\ call[c].i <= call[c].len
  /\ misused' = misused \cup (IF l \in retired THEN {call[c].logger} ELSE {})
  /\ call' = [call EXCEPT ![c].i = @ + 1]
  /\ UNCHANGED <<logVars, lockVars, loopVars, calls>>

Used(c) ==
  /\ at(c, "using") /\ call[c].i > call[c].len
  /\ goto(c, "unlock")
  /\ UNCHANGED <<logVars, lockVars, loopVars, misused, calls>>

\* "Loggers missing": srvLog.Error, which takes the base logger's read lock
\* while the outer call still holds the lock it has
Missing(c) ==
  /\ at(c, "locked") /\ call[c].op # "WithFields" /\ ~known(c)
  /\ goto(c, "nested")
  /\ UNCHANGED <<logVars, lockVars, loopVars, misused, calls>>

\* the nested LogTo("error"), in one critical section
NestedLogTo(c) ==
  LET s == service[error] IN
  /\ at(c, "nested")
  /\ rLockFree
  /\ misused' = misused \cup
       (IF s.enabled /\ \E i \in DOMAIN s.notifiers : s.notifiers[i] \in retired
        THEN {"base"} ELSE {})
  /\ goto(c, "unlock")
  /\ UNCHANGED <<logVars, lockVars, loopVars, calls>>

\* mutant: the early return of a disabled service keeps the lock
LeaveEnabledOnly(c) ==
  /\ at(c, "unlock")
  /\ IF call[c].logger = "base" /\ service[call[c].name].enabled
     THEN RUnlock(c) ELSE UNCHANGED readers
  /\ call' = [call EXCEPT ![c] = noCall]
  /\ UNCHANGED <<logVars, waiting, writer, loopVars, misused, calls>>

\* the deferred unlock
Leave(c) ==
  /\ at(c, "unlock")
  /\ IF call[c].logger = "base" THEN RUnlock(c) ELSE UNCHANGED readers
  /\ call' = [call EXCEPT ![c] = noCall]
  /\ UNCHANGED <<logVars, waiting, writer, loopVars, misused, calls>>

-----------------------------------------------------------------------------
(***************************************************************************)
(* The log loop.                                                           *)
(***************************************************************************)

slots == UNION {{<<n, i>> : i \in DOMAIN service[n].notifiers} : n \in subs["base"]}

\* the timer or /cmd/rotate_logs
RotateBegin ==
  /\ rotator = "select"
  /\ rotations < MaxRotations
  /\ rotations' = rotations + 1
  /\ Announce(loop)
  /\ rotator' = "lock"
  /\ UNCHANGED <<logVars, call, todo, rotated, gaveUp, misused, calls>>

RotateLock ==
  /\ rotator = "lock"
  /\ Lock(loop)
  /\ rotator' = "rotating"
  /\ todo' = slots
  /\ rotated' = <<>>
  /\ UNCHANGED <<logVars, call, rotations, gaveUp, misused, calls>>

\* mutant: every slot opens a log of its own
alreadyRotatedNever(l) == FALSE

alreadyRotated(l) == l \in DOMAIN rotated

\* the body of the two loops: names in any order, a name's slots in theirs
RotateSlot(n, i) ==
  LET old == service[n].notifiers[i] IN
  /\ rotator = "rotating"
  /\ <<n, i>> \in todo
  /\ \A j \in 1..(i - 1) : <<n, j>> \notin todo
  /\ todo' = todo \ {<<n, i>>}
  /\ \/ /\ old = logBuffer
        /\ UNCHANGED <<service, opened, retired, rotated>>
     \/ /\ old # logBuffer /\ alreadyRotated(old)
        /\ service' = [service EXCEPT ![n].notifiers[i] = rotated[old]]
        /\ UNCHANGED <<opened, retired, rotated>>
     \/ /\ old # logBuffer /\ ~alreadyRotated(old)
        /\ opened' = opened + 1
        /\ retired' = retired \cup {old}
        /\ service' = [service EXCEPT ![n].notifiers[i] = opened + 1]
        /\ rotated' = [l \in DOMAIN rotated \cup {old} |->
                         IF l = old THEN opened + 1 ELSE rotated[l]]
  /\ UNCHANGED <<subs, closed, lockVars, call, rotator, rotations, gaveUp, misused,
                 calls>>

\* flog.Rotate returns something else: Rotate gives up where it is
RotateFails(n, i) ==
  LET old == service[n].notifiers[i] IN
  /\ rotator = "rotating"
  /\ <<n, i>> \in todo
  /\ \A j \in 1..(i - 1) : <<n, j>> \notin todo
  /\ old # logBuffer /\ ~alreadyRotated(old)
  /\ retired' = retired \cup {old}
  /\ todo' = {}
  /\ gaveUp' = TRUE
  /\ UNCHANGED <<subs, service, opened, closed, lockVars, call, rotator, rotated,
                 rotations, misused, calls>>

RotateUnlock ==
  /\ rotator = "rotating"
  /\ todo = {}
  /\ Unlock
  /\ rotator' = "select"
  /\ UNCHANGED <<logVars, call, todo, rotated, rotations, gaveUp, misused, calls>>

\* closeLogs: Close takes the read lock and closes what is registered
Close ==
  /\ rotator = "select"
  /\ rLockFree
  /\ closed' = closed \cup
       {l \in 1..opened : \E s \in slots : service[s[1]].notifiers[s[2]] = l}
  /\ rotator' = "ended"
  /\ UNCHANGED <<subs, service, opened, retired, lockVars, call, todo, rotated,
                 rotations, gaveUp, misused, calls>>

ClientStep(c) ==
  \/ Enter(c) \/ AddLog(c) \/ AddLogUnlock(c) \/ WithFields(c) \/ SetLogsEnabled(c)
  \/ Begin(c) \/ Use(c) \/ Used(c) \/ Missing(c) \/ NestedLogTo(c) \/ Leave(c)

LoopStep ==
  \/ RotateLock
  \/ \E n \in Name : \E i \in DOMAIN service[n].notifiers :
       RotateSlot(n, i) \/ RotateFails(n, i)
  \/ RotateUnlock

Next ==
  \/ \E c \in Client :
       \/ \E op \in Op, l \in Logger, n \in Name : Call(c, op, l, n)
       \/ ClientStep(c)
  \/ RotateBegin \/ LoopStep \/ Close

Spec == Init /\ [][Next]_vars

\* A goroutine that can run does run, and a RWMutex is granted to those who
\* wait.  Nobody has to call or to rotate.
FairSpec == Spec /\ WF_vars(LoopStep) /\ \A c \in Client : WF_vars(ClientStep(c))

-----------------------------------------------------------------------------
\* The types, and that the write lock excludes readers.
SrvLogTypeOK ==
  /\ subs \in [Logger -> SUBSET Name]
  /\ service \in [Name -> [enabled : BOOLEAN, notifiers : Seq(0..opened)]]
  /\ retired \subseteq 1..opened /\ closed \subseteq 1..opened
  /\ readers \in [Client \cup {loop} -> 0..1]
  /\ waiting \subseteq Client \cup {loop}
  /\ writer \in Client \cup {loop, nobody}
  /\ writer # nobody => \A c \in Client : readers[c] = 0
  /\ rotator \in {"select", "lock", "rotating", "ended"}
  /\ todo \subseteq slots /\ gaveUp \in BOOLEAN

\* When no rotation is under way, no registered slot holds a log that was
\* rotated away, and the names that NewSrvLog gave one file still share one
\* file, in whatever order Rotate met them, until a rotation fails half way.
RotatedTogether ==
  (rotator # "rotating" /\ ~gaveUp) =>
    /\ \A s \in slots : service[s[1]].notifiers[s[2]] \notin retired
    /\ \A n, m \in Initial : service[n].notifiers[2] = service[m].notifiers[2]

\* A goroutine that logs through the base logger never uses a log that was
\* rotated away, though Rotate replaces the logs while others log, until a
\* rotation fails half way.
BaseUsesLive == gaveUp \/ "base" \notin misused

\* "LogTo logs to the registered loggers with the specified key" (log.go:163),
\* of the derived logger too.  Its lock is not the one Rotate holds, so it may
\* use a log that is rotated away while it goes through the notifiers.
AllUseLive == gaveUp \/ misused = {}

\* "LogTo logs to the registered loggers with the specified key" (log.go:163),
\* and the loop "is broken once a shutdown signal is received" (log.go:316): no
\* call and no rotation waits for ever, those that fail half way included.
LogReturns ==
  /\ \A c \in Client : call[c].pc # "idle" ~> call[c].pc = "idle"
  /\ rotator = "lock" ~> rotator = "select"
=============================================================================
