----------------------------- MODULE Lifecycle -----------------------------
(***************************************************************************)
(* The life of a srvApp process (srvApp.go, events.go, run.go): start-up,  *)
(* the requests to stop or to crash it, and the shutdown sequence of       *)
(* blockUntilShutdown.                                                     *)
(*                                                                         *)
(* Goroutines: the one that calls Run ("main"), the SIGINT catcher, the    *)
(* crash catcher, the log loop, one goroutine for every POST /cmd/shutdown *)
(* and /cmd/crash (it sleeps two seconds first), one request handler for   *)
(* every POST /cmd/rotate_logs, and the application's own.  A step is a    *)
(* critical section of cfgLock or shutdownLock, a rendezvous on one of the *)
(* unbuffered channels crashChan, logRotateChan and logShutdownChan, or    *)
(* the code between two of these.  They all live as long as the process,   *)
(* which may be longer than Run.                                           *)
(*                                                                         *)
(* What startSingleton and _shutdown do to the pid file and to cleanPid is *)
(* in Singleton, with the other processes that share the file; here is the *)
(* answer of startSingleton and its place in the sequence.                 *)
(*                                                                         *)
(* appShutdown (package shutdown) is external: Start closes the channel    *)
(* Signal, and WaitForTimeout returns FALSE once Complete was called.      *)
(***************************************************************************)
EXTENDS Integers, Sequences

CONSTANTS Sub,        \* shutdown subscribers
          Resubscribes, \* those that call ShutdownNotify from their callback
          Code,       \* return codes the application passes to SignalShutdown
          MaxReq      \* bound: requests made to the process

ASSUME LifecycleAssumption ==
  /\ Resubscribes \subseteq Sub
  /\ Code \subseteq Int
  /\ MaxReq \in Nat

VARIABLES
  main,         \* where the goroutine of InitCfg and Run is
  shuttingDown, \* srvApp.shuttingDown
  exitCode,     \* srvApp.exitCode
  accepted,     \* the code of the request that started the shutdown, 0 until
                \* then (history)
  subs,         \* shutdownSubs
  waiting,      \* subscribers whose ShutdownNotify waits for shutdownLock
  toCall,       \* the length of shutdownSubs when the range over it began
  called,       \* the subscribers notifyShutdown has called (history)
  reading,      \* main holds shutdownLock for reading
  sigint,       \* the SIGINT catcher
  stoppers,     \* goroutines of OnShutdownUri asleep
  crashers,     \* goroutines of OnCrashUri asleep
  senders,      \* goroutines of OnCrashUri blocked in crashChan <- true
  crashChan,    \* "open" or "closed"
  catcher,      \* the crash catcher
  rotators,     \* request handlers blocked in logRotateChan <- nil
  logLoop,      \* the goroutine of initLogs
  cause,        \* the panic that ended the process, or "none"
  reqs          \* requests so far

vars == <<main, shuttingDown, exitCode, accepted, subs, waiting, toCall,
          called, reading, sigint, stoppers, crashers, senders, crashChan,
          catcher, rotators, logLoop, cause, reqs>>

stopVars == <<shuttingDown, exitCode, accepted>>
subVars == <<subs, waiting, toCall, called, reading>>
crashVars == <<crashers, senders, crashChan, catcher>>
logVars == <<rotators, logLoop>>

alive == cause = "none"

Init ==
  /\ main = "init"
  /\ shuttingDown = FALSE
  /\ exitCode = 0
  /\ accepted = 0
  /\ subs = <<>>
  /\ waiting = {}
  /\ toCall = 0
  /\ called = <<>>
  /\ reading = FALSE
  /\ sigint = "off"
  /\ stoppers = 0
  /\ crashers = 0
  /\ senders = 0
  /\ crashChan = "open"
  /\ catcher = "off"
  /\ rotators = 0
  /\ logLoop = "off"
  /\ cause = "none"
  /\ reqs = 0

-----------------------------------------------------------------------------
(***************************************************************************)
(* _signalShutdown, under cfgLock: only the first request counts.          *)
(***************************************************************************)
\* Mutant: a later request overwrites the exit code.
signalShutdownLast(code) ==
  /\ shuttingDown' = TRUE
  /\ exitCode' = code
  /\ accepted' = IF shuttingDown THEN accepted ELSE code

signalShutdown(code) ==
  /\ shuttingDown' = TRUE
  /\ exitCode' = IF shuttingDown THEN exitCode ELSE code
  /\ accepted' = IF shuttingDown THEN accepted ELSE code

\* under runLock and cfgLock: initLogs, catchSigInt, catchCrash, netInit
InitCfg ==
  /\ alive /\ main = "init"
  /\ main' = "run"
  /\ sigint' = "wait"
  /\ catcher' = "wait"
  /\ logLoop' = "select"
  /\ UNCHANGED <<stopVars, subVars, stoppers, crashers, senders,
                 crashChan, rotators, cause, reqs>>

(***************************************************************************)
(* startSingleton: another instance runs, the pid file cannot be written   *)
(* or the process does not find itself afterwards; or all is well.         *)
(***************************************************************************)
startSingleton ==
  /\ alive /\ main = "run"
  /\ main' \in {"giveUp", "block"}
  /\ UNCHANGED <<stopVars, subVars, sigint, stoppers, crashVars, logVars,
                 cause, reqs>>

\* run: SignalShutdown(1) when startSingleton returned false
giveUp ==
  /\ alive /\ main = "giveUp"
  /\ signalShutdown(1)
  /\ main' = "block"
  /\ UNCHANGED <<subVars, sigint, stoppers, crashVars, logVars, cause,
                 reqs>>

-----------------------------------------------------------------------------
(***************************************************************************)
(* The requests.  cfgLock is held by InitCfg from start to end, so         *)
(* SignalShutdown waits for it.                                            *)
(***************************************************************************)
SignalShutdown(code) ==
  /\ alive /\ main # "init" /\ reqs < MaxReq
  /\ reqs' = reqs + 1
  /\ signalShutdown(code)
  /\ UNCHANGED <<main, subVars, sigint, stoppers, crashVars,
                 logVars, cause>>

\* catchSigInt: the goroutine ends with the first SIGINT and leaves one behind.
CatchSigInt ==
  /\ alive /\ sigint = "wait" /\ reqs < MaxReq
  /\ reqs' = reqs + 1
  /\ sigint' = "caught"
  /\ UNCHANGED <<main, stopVars, subVars, stoppers, crashVars,
                 logVars, cause>>

SigIntShutdown ==
  /\ alive /\ sigint = "caught"
  /\ sigint' = "done"
  /\ signalShutdown(0)
  /\ UNCHANGED <<main, subVars, stoppers, crashVars, logVars, cause,
                 reqs>>

OnShutdownUri ==
  /\ alive /\ main # "init" /\ reqs < MaxReq
  /\ reqs' = reqs + 1
  /\ stoppers' = stoppers + 1
  /\ UNCHANGED <<main, stopVars, subVars, sigint, crashVars, logVars,
                 cause>>

DelayedShutdown ==
  /\ alive /\ stoppers > 0
  /\ stoppers' = stoppers - 1
  /\ signalShutdown(0)
  /\ UNCHANGED <<main, subVars, sigint, crashVars, logVars, cause,
                 reqs>>

OnCrashUri ==
  /\ alive /\ main # "init" /\ reqs < MaxReq
  /\ reqs' = reqs + 1
  /\ crashers' = crashers + 1
  /\ UNCHANGED <<main, stopVars, subVars, sigint, stoppers, senders,
                 crashChan, catcher, logVars, cause>>

(***************************************************************************)
(* crashChan <- true after the delay: a send on a closed channel panics,   *)
(* one on an open channel waits for the catcher.                           *)
(***************************************************************************)
DelayedCrash ==
  /\ alive /\ crashers > 0
  /\ crashers' = crashers - 1
  /\ IF crashChan = "closed"
       THEN cause' = "send on closed channel" /\ UNCHANGED senders
       ELSE senders' = senders + 1 /\ UNCHANGED cause
  /\ UNCHANGED <<main, stopVars, subVars, sigint, stoppers, crashChan,
                 catcher, logVars, reqs>>

\* <-crashChan: from a sender, or the zero value of the closed channel
CatcherReceives ==
  /\ alive /\ catcher = "wait"
  /\ \/ senders > 0 /\ senders' = senders - 1
     \/ crashChan = "closed" /\ UNCHANGED senders
  /\ catcher' = "got"
  /\ UNCHANGED <<main, stopVars, subVars, sigint, stoppers, crashers,
                 crashChan, logVars, cause, reqs>>

\* Mutant: the catcher does not ask whether a shutdown is under way.
catchCrashAlways ==
  /\ alive /\ catcher = "got"
  /\ catcher' = "panics"
  /\ UNCHANGED <<main, stopVars, subVars, sigint, stoppers, crashers,
                 senders, crashChan, logVars, cause, reqs>>

\* isShuttingDown, read under cfgLock
catchCrash ==
  /\ alive /\ catcher = "got"
  /\ catcher' = IF shuttingDown THEN "returned" ELSE "panics"
  /\ UNCHANGED <<main, stopVars, subVars, sigint, stoppers, crashers,
                 senders, crashChan, logVars, cause, reqs>>

CatcherPanics ==
  /\ alive /\ catcher = "panics"
  /\ cause' = "User initiated crash"
  /\ UNCHANGED <<main, stopVars, subVars, sigint, stoppers, crashVars,
                 logVars, reqs>>

OnRotateLogsUri ==
  /\ alive /\ main # "init" /\ reqs < MaxReq
  /\ reqs' = reqs + 1
  /\ rotators' = rotators + 1
  /\ UNCHANGED <<main, stopVars, subVars, sigint, stoppers, crashVars,
                 logLoop, cause>>

(***************************************************************************)
(* ShutdownNotify takes shutdownLock for writing: it waits while           *)
(* notifyShutdown holds the lock, and what it appends then is not called.  *)
(***************************************************************************)
ShutdownNotify(f) ==
  /\ alive
  /\ f \notin waiting /\ \A i \in DOMAIN subs : subs[i] # f
  /\ waiting' = waiting \cup {f}
  /\ UNCHANGED <<main, stopVars, subs, toCall, called, reading,
                 sigint, stoppers, crashVars, logVars, cause, reqs>>

\* Mutant: the list is appended to without the lock.
SubscribedUnlocked(f) ==
  /\ alive /\ f \in waiting
  /\ waiting' = waiting \ {f}
  /\ subs' = Append(subs, f)
  /\ UNCHANGED <<main, stopVars, toCall, called, reading, sigint, stoppers,
                 crashVars, logVars, cause, reqs>>

Subscribed(f) ==
  /\ alive /\ f \in waiting /\ ~reading
  /\ waiting' = waiting \ {f}
  /\ subs' = Append(subs, f)
  /\ UNCHANGED <<main, stopVars, toCall, called, reading, sigint, stoppers,
                 crashVars, logVars, cause, reqs>>

-----------------------------------------------------------------------------
(***************************************************************************)
(* The log loop of initLogs: rotate once a day or on request, and close    *)
(* the logs when closeLogs asks for it.                                    *)
(***************************************************************************)
LoopRotate ==
  /\ alive /\ logLoop = "select"
  /\ \/ rotators > 0 /\ rotators' = rotators - 1
     \/ UNCHANGED rotators
  /\ logLoop' = "rotate"
  /\ UNCHANGED <<main, stopVars, subVars, sigint, stoppers, crashVars,
                 cause, reqs>>

LoopRotated ==
  /\ alive /\ logLoop = "rotate"
  /\ logLoop' = "select"
  /\ UNCHANGED <<main, stopVars, subVars, sigint, stoppers, crashVars,
                 rotators, cause, reqs>>

\* Mutant: the loop returns without an answer to closeLogs.
LoopClosesSilently ==
  /\ alive /\ logLoop = "select" /\ main = "closeLogs"
  /\ logLoop' = "returned"
  /\ main' = "logsAnswer"
  /\ UNCHANGED <<stopVars, subVars, sigint, stoppers, crashVars,
                 rotators, cause, reqs>>

\* logShutdownChan: closeLogs hands its answer channel to the loop
LoopCloses ==
  /\ alive /\ logLoop = "select" /\ main = "closeLogs"
  /\ logLoop' = "closed"
  /\ main' = "logsAnswer"
  /\ UNCHANGED <<stopVars, subVars, sigint, stoppers, crashVars,
                 rotators, cause, reqs>>

\* shutdownComplete <- nil, after srvLog.Close(); the loop returns
LoopAnswers ==
  /\ alive /\ logLoop = "closed" /\ main = "logsAnswer"
  /\ logLoop' = "returned"
  /\ main' = "complete"
  /\ UNCHANGED <<stopVars, subVars, sigint, stoppers, crashVars,
                 rotators, cause, reqs>>

-----------------------------------------------------------------------------
(***************************************************************************)
(* blockUntilShutdown and _shutdown.                                       *)
(***************************************************************************)
\* Mutant: the sequence does not wait for the signal.
SignalReceivedEarly ==
  /\ alive /\ main = "block"
  /\ main' = "notify"
  /\ reading' = TRUE
  /\ toCall' = Len(subs)
  /\ UNCHANGED <<stopVars, subs, waiting, called, sigint, stoppers,
                 crashVars, logVars, cause, reqs>>

\* notifyShutdown takes shutdownLock, and its range fixes the length of the list
SignalReceived ==
  /\ alive /\ main = "block" /\ shuttingDown
  /\ main' = "notify"
  /\ reading' = TRUE
  /\ toCall' = Len(subs)
  /\ UNCHANGED <<stopVars, subs, waiting, called, sigint, stoppers,
                 crashVars, logVars, cause, reqs>>

(***************************************************************************)
(* notifyShutdown calls the next subscriber, holding the lock.  The        *)
(* callback returns unless it waits for a ShutdownNotify of its own.       *)
(***************************************************************************)
NotifyOne ==
  /\ alive /\ main = "notify" /\ Len(called) < toCall
  /\ LET f == subs[Len(called) + 1] IN
       /\ called' = Append(called, f)
       /\ waiting' = IF f \in Resubscribes THEN waiting \cup {f} ELSE waiting
  /\ main' = "callback"
  /\ UNCHANGED <<stopVars, subs, toCall, reading, sigint, stoppers, crashVars,
                 logVars, cause, reqs>>

CallbackReturns ==
  /\ alive /\ main = "callback" /\ called[Len(called)] \notin waiting
  /\ main' = "notify"
  /\ UNCHANGED <<stopVars, subVars, sigint, stoppers, crashVars,
                 logVars, cause, reqs>>

NotifyDone ==
  /\ alive /\ main = "notify" /\ Len(called) = toCall
  /\ reading' = FALSE
  /\ main' = "net"
  /\ UNCHANGED <<stopVars, subs, waiting, toCall, called, sigint, stoppers,
                 crashVars, logVars, cause, reqs>>

\* netShutdown() and ini.Shutdown(): bounded by their own timeouts
NetShutdown ==
  /\ alive /\ main = "net"
  /\ main' = "crashChan"
  /\ UNCHANGED <<stopVars, subVars, sigint, stoppers, crashVars,
                 logVars, cause, reqs>>

(***************************************************************************)
(* close(crashChan): a goroutine blocked in a send on it panics.  Then the *)
(* pid file, if this process is to clean it up; a failure is only logged.  *)
(***************************************************************************)
CloseCrashChan ==
  /\ alive /\ main = "crashChan"
  /\ crashChan' = "closed"
  /\ cause' = IF senders > 0 THEN "send on closed channel" ELSE "none"
  /\ main' = "closeLogs"
  /\ UNCHANGED <<stopVars, subVars, sigint, stoppers, crashers,
                 senders, catcher, logVars, reqs>>

\* appShutdown.Complete(), so that WaitForTimeout returns at once
Return ==
  /\ alive /\ main = "complete"
  /\ main' = "returned"
  /\ UNCHANGED <<stopVars, subVars, sigint, stoppers, crashVars,
                 logVars, cause, reqs>>

mainStep ==
  \/ InitCfg \/ startSingleton \/ giveUp \/ SignalReceived \/ NotifyOne
  \/ CallbackReturns \/ NotifyDone \/ NetShutdown \/ CloseCrashChan
  \/ Return

Next ==
  \/ mainStep
  \/ \E code \in Code : SignalShutdown(code)
  \/ CatchSigInt \/ SigIntShutdown
  \/ OnShutdownUri \/ DelayedShutdown
  \/ OnCrashUri \/ DelayedCrash
  \/ CatcherReceives \/ catchCrash \/ CatcherPanics
  \/ OnRotateLogsUri
  \/ \E f \in Sub : ShutdownNotify(f) \/ Subscribed(f)
  \/ LoopRotate \/ LoopRotated \/ LoopCloses \/ LoopAnswers

Spec == Init /\ [][Next]_vars

(***************************************************************************)
(* Fairness: a goroutine that can run does run.  The select of the log     *)
(* loop is strongly fair to closeLogs: its timer needs a day to be ready.  *)
(***************************************************************************)
FairSpec ==
  /\ Spec
  /\ WF_vars(mainStep)
  /\ WF_vars(LoopRotated) /\ SF_vars(LoopCloses) /\ WF_vars(LoopAnswers)
  /\ WF_vars(SigIntShutdown) /\ WF_vars(DelayedShutdown)

-----------------------------------------------------------------------------
MainPc == {"init", "run", "giveUp", "block", "notify", "callback", "net",
           "crashChan", "closeLogs", "logsAnswer", "complete",
           "returned"}

StopTypeOK ==
  /\ main \in MainPc
  /\ shuttingDown \in BOOLEAN
  /\ exitCode \in Int
  /\ accepted \in Int

SubTypeOK ==
  /\ subs \in Seq(Sub)
  /\ called \in Seq(Sub)
  /\ toCall \in Nat
  /\ waiting \in SUBSET Sub
  /\ reading \in BOOLEAN

CountTypeOK ==
  /\ stoppers \in Nat
  /\ crashers \in Nat
  /\ senders \in Nat
  /\ rotators \in Nat
  /\ reqs \in Nat

GoroutineTypeOK ==
  /\ sigint \in {"off", "wait", "caught", "done"}
  /\ crashChan \in {"open", "closed"}
  /\ catcher \in {"off", "wait", "got", "panics", "returned"}
  /\ logLoop \in {"off", "select", "rotate", "closed", "returned"}
  /\ cause \in {"none", "send on closed channel", "User initiated crash"}

(***************************************************************************)
(* Type invariant of the process.                                          *)
(***************************************************************************)
LifecycleTypeOK == StopTypeOK /\ SubTypeOK /\ CountTypeOK /\ GoroutineTypeOK

(***************************************************************************)
(* Run returns the code of the request that started the shutdown, whatever *)
(* other requests (SIGINT, /cmd/shutdown, a failed start, SignalShutdown)  *)
(* race with it or arrive during the shutdown.                             *)
(***************************************************************************)
ExitCodeOfFirst ==
  /\ shuttingDown => exitCode = accepted
  /\ main = "returned" => shuttingDown

(***************************************************************************)
(* Everyone who subscribed before the subscribers are called is called,    *)
(* once and in the order of subscription, before the network goes down:    *)
(* no concurrent ShutdownNotify slips in between (events.go).              *)
(***************************************************************************)
AllNotified ==
  [][(main # "net" /\ main' = "net") => called' = subs']_vars

(***************************************************************************)
(* Closing crashChan wakes the crash catcher, which must not take that for *)
(* a crash request: it never decides to panic once the channel is closed.  *)
(***************************************************************************)
CloseIsNoCrash ==
  [][(catcher # "panics" /\ catcher' = "panics") => crashChan = "open"]_vars

(***************************************************************************)
(* A shutdown that was asked for ends: Run returns, or the process reports *)
(* a panic.  blockUntilShutdown means to panic with "Timeout shutting down *)
(* srvApp" (srvApp.go:293) when the sequence hangs.                        *)
(***************************************************************************)
ShutdownCompletes == shuttingDown ~> (main = "returned" \/ cause # "none")

(***************************************************************************)
(* catchSigInt "signals the applciation to start a graceful shutdown"      *)
(* (srvApp.go:320): the shutdown sequence itself causes no panic.          *)
(***************************************************************************)
GracefulShutdown == cause # "send on closed channel"

-----------------------------------------------------------------------------
(***************************************************************************)
(* The process as its caller sees it (module App).                         *)
(***************************************************************************)
phase ==
  IF cause # "none" THEN "crashed"
  ELSE IF main = "returned" THEN "stopped"
  ELSE IF shuttingDown THEN "stopping"
  ELSE "up"

Abstract == INSTANCE App WITH AppCode <- Code \cup {0, 1}, code <- exitCode

(***************************************************************************)
(* The process implements App: through all goroutines that may ask, panic  *)
(* or run the shutdown, it starts to stop once, keeps the code it got      *)
(* then, and returns from Run once, when asked to.  After that the code    *)
(* stands, and only a goroutine that outlives Run may still panic.         *)
(***************************************************************************)
ImplementsApp == Abstract!Spec
=============================================================================
