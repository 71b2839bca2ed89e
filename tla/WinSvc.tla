------------------------------- MODULE WinSvc -------------------------------
(***************************************************************************)
(* The Windows build (run_win.go): Init and Run of a process that installs *)
(* itself as a service, uninstalls itself, or runs as one.                 *)
(*                                                                         *)
(* The service control manager (SCM) is external: each call of it may      *)
(* fail; it sends one request at a time, and stop requests only to a       *)
(* service that says it accepts them.  svc.Run calls Execute in a          *)
(* goroutine of its own and returns when that has returned.  The shutdown  *)
(* sequence of _shutdown is one step here; Lifecycle details it.           *)
(***************************************************************************)
EXTENDS Integers, Sequences

CONSTANTS Mode,     \* run modes considered, of those below
          Code,     \* codes the application passes to SignalShutdown
          Word,     \* the number of values of a uint32: 2^32 in the code
          MaxReq    \* bound: requests of the SCM and of the application

Modes == {"RUN_SVC", "INST_SVC", "UNINST_SVC"}

ASSUME WinSvcAssumption ==
  /\ Mode \subseteq Modes
  /\ Code \subseteq Int
  /\ Word \in Nat \ {0}
  /\ MaxReq \in Nat

VARIABLES
  runMode,
  main,         \* where Init, Run or Execute is
  cfgLock,      \* InitCfg holds cfgLock
  shuttingDown, exitCode,
  accepted,     \* the code of the first request to shut down (history)
  installed,    \* the service is registered with the SCM
  reported,     \* the states Execute has reported to the SCM
  request,      \* the SCM's request that Execute has not received
  asked,        \* the SCM has asked the service to stop (history)
  down,         \* _shutdown has run
  errno,        \* the second result of Execute, 0 until it is assigned
  result,       \* the result of Run, 0 until then
  reqs

vars == <<runMode, main, cfgLock, shuttingDown, exitCode, accepted, installed,
          reported, request, asked, down, errno, result, reqs>>
stopVars == <<shuttingDown, exitCode, accepted>>
scmVars == <<reported, request, asked>>
endVars == <<down, errno, result>>

none == "none"

Init ==
  /\ runMode \in Mode
  /\ main = "afterFlags"
  /\ cfgLock = TRUE
  /\ shuttingDown = FALSE /\ exitCode = 0 /\ accepted = 0
  /\ installed \in BOOLEAN
  /\ runMode = "RUN_SVC" => installed
  /\ reported = <<>> /\ request = none /\ asked = FALSE
  /\ down = FALSE /\ errno = 0 /\ result = 0
  /\ reqs = 0

last == IF reported = <<>> THEN none ELSE reported[Len(reported)]
report(s) == reported' = Append(reported, s)

\* _signalShutdown
signalShutdown(code) ==
  IF shuttingDown THEN UNCHANGED stopVars
  ELSE shuttingDown' = TRUE /\ exitCode' = code /\ accepted' = code

-----------------------------------------------------------------------------
(***************************************************************************)
(* Init: afterFlags runs with cfgLock held.                                *)
(***************************************************************************)

\* mutant: the locking SignalShutdown, which waits for the lock InitCfg holds
initSignalLocks(code) == ~cfgLock /\ signalShutdown(code)

initSignal(code) == signalShutdown(code)

\* a call of the SCM fails, or the service is already there
InstallFails ==
  /\ main = "afterFlags" /\ runMode = "INST_SVC"
  /\ \/ UNCHANGED installed                     \* mgr.Connect, OpenService
     \/ ~installed /\ installed' = TRUE         \* SetFailureFlags, Start
  /\ initSignal(1)
  /\ main' = "initialized"
  /\ UNCHANGED <<runMode, cfgLock, scmVars, endVars, reqs>>

\* CreateService fails: the shutdown is signalled, and the deferred Close of
\* the nil service panics
CreateServiceFails ==
  /\ main = "afterFlags" /\ runMode = "INST_SVC" /\ ~installed
  /\ initSignal(1)
  /\ main' = "panicked"
  /\ UNCHANGED <<runMode, cfgLock, installed, scmVars, endVars, reqs>>

InstallSvc ==
  /\ main = "afterFlags" /\ runMode = "INST_SVC" /\ ~installed
  /\ installed' = TRUE
  /\ initSignal(0)
  /\ main' = "initialized"
  /\ UNCHANGED <<runMode, cfgLock, scmVars, endVars, reqs>>

\* mgr.Connect, OpenService of a service that is not there, or Delete fails
UninstallFails ==
  /\ main = "afterFlags" /\ runMode = "UNINST_SVC"
  /\ initSignal(1)
  /\ main' = "initialized"
  /\ UNCHANGED <<runMode, cfgLock, installed, scmVars, endVars, reqs>>

UninstallSvc ==
  /\ main = "afterFlags" /\ runMode = "UNINST_SVC" /\ installed
  /\ installed' = FALSE
  /\ initSignal(0)
  /\ main' = "initialized"
  /\ UNCHANGED <<runMode, cfgLock, scmVars, endVars, reqs>>

NothingToInstall ==
  /\ main = "afterFlags" /\ runMode = "RUN_SVC"
  /\ main' = "initialized"
  /\ UNCHANGED <<runMode, cfgLock, stopVars, installed, scmVars, endVars, reqs>>

\* the end of InitCfg, early when shuttingDown, and the call of Run
InitReturns ==
  /\ main = "initialized"
  /\ cfgLock' = FALSE
  /\ main' = "run"
  /\ UNCHANGED <<runMode, stopVars, installed, scmVars, endVars, reqs>>

-----------------------------------------------------------------------------
(***************************************************************************)
(* Run and Execute.                                                        *)
(***************************************************************************)

\* the run modes that run does not know
RunInvalid ==
  /\ main = "run" /\ runMode # "RUN_SVC"
  /\ result' = 1
  /\ main' = "returned"
  /\ UNCHANGED <<runMode, cfgLock, stopVars, installed, scmVars, down, errno, reqs>>

\* svc.Run fails: shut down as a console application would
SvcRunFails ==
  /\ main = "run" /\ runMode = "RUN_SVC"
  /\ signalShutdown(1)
  /\ main' = "blocked"
  /\ UNCHANGED <<runMode, cfgLock, installed, scmVars, endVars, reqs>>

Execute ==
  /\ main = "run" /\ runMode = "RUN_SVC"
  /\ report("StartPending")
  /\ main' = "singleton"
  /\ UNCHANGED <<runMode, cfgLock, stopVars, installed, request, asked, endVars, reqs>>

SingletonFails ==
  /\ main = "singleton"
  /\ report("StopPending")
  /\ signalShutdown(1)
  /\ main' = "started"
  /\ UNCHANGED <<runMode, cfgLock, installed, request, asked, endVars, reqs>>

SingletonStarts ==
  /\ main = "singleton"
  /\ main' = "started"
  /\ UNCHANGED <<runMode, cfgLock, stopVars, installed, scmVars, endVars, reqs>>

ReportRunning ==
  /\ main = "started"
  /\ report("Running")
  /\ main' = "loop"
  /\ UNCHANGED <<runMode, cfgLock, stopVars, installed, request, asked, endVars, reqs>>

\* mutant: Stopped is reported when the loop ends
CheckLoopStopped ==
  /\ main = "loop"
  /\ main' = IF shuttingDown THEN "blocked" ELSE "select"
  /\ IF shuttingDown THEN report("Stopped") ELSE UNCHANGED reported
  /\ UNCHANGED <<runMode, cfgLock, stopVars, installed, request, asked, endVars, reqs>>

\* the condition of the loop
CheckLoop ==
  /\ main = "loop"
  /\ main' = IF shuttingDown THEN "blocked" ELSE "select"
  /\ UNCHANGED <<runMode, cfgLock, stopVars, installed, scmVars, endVars, reqs>>

\* the select: appShutdown.Signal is closed
SelectSignal ==
  /\ main = "select" /\ shuttingDown
  /\ main' = "loop"
  /\ UNCHANGED <<runMode, cfgLock, stopVars, installed, scmVars, endVars, reqs>>

\* the select: Interrogate is answered with the status the SCM has
SelectInterrogate ==
  /\ main = "select" /\ request = "Interrogate"
  /\ request' = none
  /\ report(last)
  /\ main' = "loop"
  /\ UNCHANGED <<runMode, cfgLock, stopVars, installed, asked, endVars, reqs>>

\* mutant: only svc.Stop ends the service
SelectStopOnly ==
  /\ main = "select" /\ request \in {"Stop", "Shutdown"}
  /\ request' = none
  /\ report("StopPending")
  /\ IF request = "Stop" THEN signalShutdown(0) ELSE UNCHANGED stopVars
  /\ main' = "loop"
  /\ UNCHANGED <<runMode, cfgLock, installed, asked, endVars, reqs>>

\* the select: "Service stop requested", also when another shutdown has begun
SelectStop ==
  /\ main = "select" /\ request \in {"Stop", "Shutdown"}
  /\ request' = none
  /\ report("StopPending")
  /\ signalShutdown(0)
  /\ main' = "loop"
  /\ UNCHANGED <<runMode, cfgLock, installed, asked, endVars, reqs>>

\* blockUntilShutdown
BlockUntilShutdown ==
  /\ main = "blocked" /\ shuttingDown
  /\ down' = TRUE
  /\ main' = "shut"
  /\ UNCHANGED <<runMode, cfgLock, stopVars, installed, scmVars, errno, result, reqs>>

\* the conversion of an int, negative ones included
uint32(code) == code % Word

\* mutant: the result of blockUntilShutdown is dropped
ReportStoppedOnly ==
  /\ main = "shut" /\ reported # <<>>
  /\ report("Stopped")
  /\ main' = "stopped"
  /\ UNCHANGED <<runMode, cfgLock, stopVars, installed, request, asked, endVars, reqs>>

\* Execute takes errno from blockUntilShutdown and reports Stopped
ReportStopped ==
  /\ main = "shut" /\ reported # <<>>
  /\ errno' = uint32(exitCode)
  /\ report("Stopped")
  /\ main' = "stopped"
  /\ UNCHANGED <<runMode, cfgLock, stopVars, installed, request, asked, down, result, reqs>>

\* Execute returns errno to the SCM; svc.Run and runSvc return
ExecuteReturns ==
  /\ main = "stopped"
  /\ result' = 0
  /\ main' = "returned"
  /\ UNCHANGED <<runMode, cfgLock, stopVars, installed, scmVars, down, errno, reqs>>

\* runSvc after svc.Run has failed
RunSvcReturns ==
  /\ main = "shut" /\ reported = <<>>
  /\ result' = exitCode
  /\ main' = "returned"
  /\ UNCHANGED <<runMode, cfgLock, stopVars, installed, scmVars, down, errno, reqs>>

-----------------------------------------------------------------------------
(***************************************************************************)
(* The environment.                                                        *)
(***************************************************************************)

\* the SCM: stop requests once Running was the last state, Interrogate always
ScmRequest(c) ==
  /\ reqs < MaxReq
  /\ reqs' = reqs + 1
  /\ request = none
  /\ last = "Running" \/ (c = "Interrogate" /\ last \in {"StartPending", "StopPending"})
  /\ request' = c
  /\ asked' = (asked \/ c # "Interrogate")
  /\ UNCHANGED <<runMode, main, cfgLock, stopVars, installed, reported, endVars>>

\* SIGINT, /cmd/shutdown or the application, once InitCfg is over
SignalShutdown(code) ==
  /\ reqs < MaxReq
  /\ reqs' = reqs + 1
  /\ ~cfgLock /\ main \notin {"returned", "panicked"}
  /\ signalShutdown(code)
  /\ UNCHANGED <<runMode, main, cfgLock, installed, scmVars, endVars>>

Process ==
  \/ InstallFails \/ CreateServiceFails \/ InstallSvc \/ UninstallFails
  \/ UninstallSvc \/ NothingToInstall \/ InitReturns \/ RunInvalid \/ SvcRunFails
  \/ Execute \/ SingletonFails \/ SingletonStarts \/ ReportRunning \/ CheckLoop
  \/ SelectSignal \/ SelectInterrogate \/ SelectStop \/ BlockUntilShutdown
  \/ ReportStopped \/ ExecuteReturns \/ RunSvcReturns

Next ==
  \/ Process
  \/ \E c \in {"Interrogate", "Stop", "Shutdown"} : ScmRequest(c)
  \/ \E code \in Code : SignalShutdown(code)

Spec == Init /\ [][Next]_vars

\* The process goes on when it can; nobody has to ask for anything.
FairSpec == Spec /\ WF_vars(Process)

-----------------------------------------------------------------------------
WinSvcTypeOK ==
  /\ runMode \in Modes
  /\ main \in {"afterFlags", "initialized", "run", "singleton", "started", "loop",
               "select", "blocked", "shut", "stopped", "returned", "panicked"}
  /\ cfgLock \in BOOLEAN /\ shuttingDown \in BOOLEAN /\ installed \in BOOLEAN
  /\ exitCode \in Code \cup {0, 1}
  /\ accepted \in Code \cup {0, 1}
  /\ reported \in Seq({"StartPending", "Running", "StopPending", "Stopped"})
  /\ request \in {none, "Interrogate", "Stop", "Shutdown"}
  /\ asked \in BOOLEAN /\ down \in BOOLEAN
  /\ errno \in 0..(Word - 1) /\ result \in Code \cup {0, 1}

\* What Execute returns to the SCM is the code of whoever asked first, the SCM
\* itself, the application, a signal or a failed start, as far as it fits a
\* uint32; it returns only after the shutdown and after it has told Stopped.
ErrnoOfFirst ==
  (main = "returned" /\ reported # <<>>) =>
    shuttingDown /\ errno = uint32(accepted) /\ down /\ last = "Stopped"

\* The SCM is told Stopped once, at the very end: after _shutdown has run, and
\* nothing is reported after it.
StoppedIsLast ==
  \A i \in DOMAIN reported : reported[i] = "Stopped" => (i = Len(reported) /\ down)

\* A stop request of the SCM is honoured: the service reports Stopped, whatever
\* other requests come before or after it.
StopHonoured == asked ~> last = "Stopped"

\* Installing and uninstalling end: they run under cfgLock and must not take it
\* again ("it is necessary to call the unsafe _signalShutdown() function").
InitEnds == main = "afterFlags" ~> main # "afterFlags"

\* "srvApp applications ... capable of registering and unregistering themselves"
\* (README.md:9): a process that installs itself returns from Run, with an
\* error code when a call of the SCM fails.
InstallReturns == main # "panicked"

\* "return error code due to invalid run code" (run_win.go:211): Run returns an
\* error only when there was one.  It takes the install and uninstall modes for
\* invalid, after they have succeeded.
ErrorOnlyOnError == (main = "returned" /\ runMode # "RUN_SVC") => result = exitCode

\* A service "controlled by the windows service control manager"
\* (run_win.go:28): once it has said StopPending it does not say Running again.
NoRunningAfterStop ==
  \A i, j \in DOMAIN reported :
    (i < j /\ reported[i] = "StopPending") => reported[j] # "Running"
=============================================================================
