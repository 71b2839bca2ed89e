---------------------------- MODULE WinSvcProofs ----------------------------
(***************************************************************************)
(* Proofs about the Windows service, for every set of modes and codes and  *)
(* any number of requests.                                                 *)
(*                                                                         *)
(* The argument: the first request fixes exitCode and accepted together;   *)
(* main passes BlockUntilShutdown only when there was one, and the step    *)
(* that reports Stopped converts the code it was given; between that step  *)
(* and the return of Execute a later request changes nothing.              *)
(***************************************************************************)
EXTENDS WinSvc, TLAPS

State == {"StartPending", "Running", "StopPending", "Stopped"}
MainPc == {"afterFlags", "initialized", "run", "singleton", "started", "loop",
           "select", "blocked", "shut", "stopped", "returned", "panicked"}

FirstKept == shuttingDown => exitCode = accepted

DownAfterRequest == main \in {"shut", "stopped"} => (shuttingDown /\ down)

StoppedAtEnd ==
  \A i \in DOMAIN reported : reported[i] = "Stopped" =>
    (i = Len(reported) /\ down /\ main \in {"stopped", "returned"})

ErrnoKept ==
  (main = "stopped" \/ (main = "returned" /\ reported # <<>>)) =>
    shuttingDown /\ errno = uint32(accepted) /\ down /\ last = "Stopped"

\* Execute has told the SCM something before it looks at requests.
HasReported ==
  /\ main \in {"singleton", "started", "loop", "select", "stopped"} => reported # <<>>
  /\ main \in {"afterFlags", "initialized", "run"} => reported = <<>>

WInv == /\ WinSvcTypeOK /\ FirstKept /\ DownAfterRequest
        /\ StoppedAtEnd /\ ErrnoKept /\ HasReported

(***************************************************************************)
(* What a report does to the history of reports.                           *)
(***************************************************************************)
LEMMA Reports ==
  ASSUME NEW s \in State, reported \in Seq(State), report(s)
  PROVE  /\ reported' \in Seq(State)
         /\ DOMAIN reported' = 1..(Len(reported) + 1)
         /\ Len(reported') = Len(reported) + 1
         /\ \A i \in 1..Len(reported) : reported'[i] = reported[i]
         /\ reported'[Len(reported) + 1] = s
BY DEF report

(***************************************************************************)
(* Init establishes WInv.                                                  *)
(***************************************************************************)
LEMMA InitWInv == Init => WInv
<1> SUFFICES ASSUME Init PROVE WInv
  OBVIOUS
<1> USE WinSvcAssumption DEF Init
<1>1. reported \in Seq(State) /\ DOMAIN reported = {}
  OBVIOUS
<1>2. errno \in 0..(Word - 1)
  OBVIOUS
<1>3. WinSvcTypeOK
  BY <1>1, <1>2 DEF WinSvcTypeOK, Modes, State, none
<1> QED
  BY <1>1, <1>3 DEF WInv, FirstKept, DownAfterRequest, StoppedAtEnd, ErrnoKept,
     HasReported

(***************************************************************************)
(* signalShutdown, with a code of the program's own or of the application. *)
(***************************************************************************)
LEMMA Signals ==
  ASSUME NEW c \in Code \cup {0, 1}, WInv, signalShutdown(c)
  PROVE  /\ shuttingDown' = TRUE
         /\ exitCode' \in Code \cup {0, 1}
         /\ accepted' \in Code \cup {0, 1}
         /\ exitCode' = accepted'
         /\ shuttingDown => accepted' = accepted
<1>1. CASE shuttingDown
  BY <1>1 DEF signalShutdown, stopVars, WInv, WinSvcTypeOK, FirstKept
<1>2. CASE ~shuttingDown
  BY <1>2 DEF signalShutdown
<1> QED
  BY <1>1, <1>2

(***************************************************************************)
(* A step that signals and reports nothing.                                *)
(***************************************************************************)
LEMMA SignalStep ==
  ASSUME WInv, NEW c \in Code \cup {0, 1}, signalShutdown(c),
         main \notin {"shut", "stopped", "returned"} \/ main' = main,
         \/ main = "afterFlags" /\ main' \in {"initialized", "panicked"}
         \/ main' = "blocked"
         \/ main' = main,
         installed' \in BOOLEAN,
         UNCHANGED <<runMode, cfgLock, scmVars, endVars>>
  PROVE  WInv'
<1>1. /\ shuttingDown' = TRUE /\ exitCode' \in Code \cup {0, 1}
      /\ accepted' \in Code \cup {0, 1} /\ exitCode' = accepted'
      /\ shuttingDown => accepted' = accepted
  BY Signals
<1>2. WinSvcTypeOK'
  BY <1>1 DEF WInv, WinSvcTypeOK, scmVars, endVars, MainPc
<1>3. FirstKept' /\ DownAfterRequest' /\ ErrnoKept'
  BY <1>1 DEF WInv, FirstKept, DownAfterRequest, ErrnoKept, last, scmVars, endVars, MainPc
<1>4. StoppedAtEnd' /\ HasReported'
  BY DEF WInv, StoppedAtEnd, HasReported, scmVars, endVars
<1> QED
  BY <1>2, <1>3, <1>4 DEF WInv

(***************************************************************************)
(* A step of Execute that reports a state other than Stopped.              *)
(***************************************************************************)
LEMMA ReportStep ==
  ASSUME WInv, NEW s \in State \ {"Stopped"}, report(s),
         main \notin {"shut", "stopped", "returned"},
         main' \in {"singleton", "started", "loop"},
         \/ UNCHANGED stopVars
         \/ \E c \in Code \cup {0, 1} : signalShutdown(c),
         request' \in {none, "Interrogate", "Stop", "Shutdown"},
         UNCHANGED <<runMode, cfgLock, installed, asked, endVars>>
  PROVE  WInv'
<1>1. reported \in Seq(State)
  BY DEF WInv, WinSvcTypeOK, State
<1>2. /\ reported' \in Seq(State)
      /\ DOMAIN reported' = 1..(Len(reported) + 1)
      /\ \A i \in 1..Len(reported) : reported'[i] = reported[i]
      /\ reported'[Len(reported) + 1] = s
  BY <1>1, Reports
<1>3. /\ exitCode' \in Code \cup {0, 1} /\ accepted' \in Code \cup {0, 1}
      /\ shuttingDown' \in BOOLEAN
      /\ shuttingDown' => exitCode' = accepted'
      /\ shuttingDown => (shuttingDown' /\ accepted' = accepted)
  <2>1. CASE UNCHANGED stopVars
    BY <2>1 DEF WInv, WinSvcTypeOK, FirstKept, stopVars
  <2>2. CASE \E c \in Code \cup {0, 1} : signalShutdown(c)
    BY <2>2, Signals
  <2> QED
    BY <2>1, <2>2
<1>4. WinSvcTypeOK'
  BY <1>2, <1>3 DEF WInv, WinSvcTypeOK, endVars, MainPc, State
<1>5. FirstKept' /\ DownAfterRequest' /\ ErrnoKept'
  BY <1>3 DEF WInv, FirstKept, DownAfterRequest, ErrnoKept, last, scmVars, endVars, MainPc
<1>6. \A i \in DOMAIN reported : reported[i] # "Stopped"
  BY DEF WInv, StoppedAtEnd
<1>7. StoppedAtEnd' /\ HasReported'
  BY <1>1, <1>2, <1>6 DEF StoppedAtEnd, HasReported
<1> QED
  BY <1>4, <1>5, <1>7 DEF WInv

(***************************************************************************)
(* The end of Execute: Stopped is the last report.                         *)
(***************************************************************************)
LEMMA StoppedStep == WInv /\ ReportStopped => WInv'
<1> SUFFICES ASSUME WInv, ReportStopped PROVE WInv'
  OBVIOUS
<1> USE DEF ReportStopped
<1>1. reported \in Seq(State)
  BY DEF WInv, WinSvcTypeOK, State
<1>2. /\ reported' \in Seq(State)
      /\ DOMAIN reported' = 1..(Len(reported) + 1)
      /\ Len(reported') = Len(reported) + 1
      /\ \A i \in 1..Len(reported) : reported'[i] = reported[i]
      /\ reported'[Len(reported) + 1] = "Stopped"
  BY <1>1, Reports DEF State
<1>3. reported' # <<>> /\ last' = "Stopped"
  BY <1>1, <1>2 DEF last
<1>4. exitCode \in Int
  BY WinSvcAssumption DEF WInv, WinSvcTypeOK
<1>5. errno' \in 0..(Word - 1)
  BY <1>4, WinSvcAssumption DEF uint32
<1>6. WinSvcTypeOK'
  BY <1>2, <1>5 DEF WInv, WinSvcTypeOK, State, stopVars
<1>7. shuttingDown' /\ down' /\ exitCode' = accepted' /\ errno' = uint32(accepted)'
  BY DEF WInv, FirstKept, DownAfterRequest, stopVars, uint32
<1>8. FirstKept' /\ DownAfterRequest' /\ ErrnoKept'
  BY <1>3, <1>7 DEF FirstKept, DownAfterRequest, ErrnoKept
<1>9. \A i \in DOMAIN reported : reported[i] # "Stopped"
  BY DEF WInv, StoppedAtEnd
<1>10. StoppedAtEnd' /\ HasReported'
  BY <1>1, <1>2, <1>3, <1>7, <1>9 DEF StoppedAtEnd, HasReported
<1> QED
  BY <1>6, <1>8, <1>10 DEF WInv

(***************************************************************************)
(* Every step preserves WInv.                                              *)
(***************************************************************************)
LEMMA StepWInv == WInv /\ [Next]_vars => WInv'
<1> SUFFICES ASSUME WInv, [Next]_vars PROVE WInv'
  OBVIOUS
<1>t. installed \in BOOLEAN /\ main \in MainPc
      /\ request \in {none, "Interrogate", "Stop", "Shutdown"}
  BY DEF WInv, WinSvcTypeOK, MainPc
<1>1. CASE InstallFails
  BY <1>1, <1>t, SignalStep DEF InstallFails, initSignal, MainPc
<1>2. CASE CreateServiceFails
  BY <1>2, <1>t, SignalStep DEF CreateServiceFails, initSignal, MainPc
<1>3. CASE InstallSvc
  BY <1>3, <1>t, SignalStep DEF InstallSvc, initSignal, MainPc
<1>4. CASE UninstallFails
  BY <1>4, <1>t, SignalStep DEF UninstallFails, initSignal, MainPc
<1>5. CASE UninstallSvc
  BY <1>5, <1>t, SignalStep DEF UninstallSvc, initSignal, MainPc
<1>6. CASE SvcRunFails
  BY <1>6, <1>t, SignalStep DEF SvcRunFails, initSignal, MainPc
<1>7. ASSUME NEW code \in Code, SignalShutdown(code) PROVE WInv'
  BY <1>7, <1>t, SignalStep DEF SignalShutdown, MainPc
<1>8. CASE Execute
  BY <1>8, <1>t, ReportStep DEF Execute, State, MainPc
<1>9. CASE SingletonFails
  BY <1>9, <1>t, ReportStep DEF SingletonFails, State, MainPc
<1>10. CASE ReportRunning
  BY <1>10, <1>t, ReportStep DEF ReportRunning, State, MainPc
<1>11. CASE SelectStop
  BY <1>11, <1>t, ReportStep DEF SelectStop, State, MainPc
<1>12. CASE SelectInterrogate
  <2>1. reported \in Seq(State) /\ \A i \in DOMAIN reported : reported[i] # "Stopped"
    BY <1>12 DEF WInv, WinSvcTypeOK, State, StoppedAtEnd, SelectInterrogate
  <2>2. reported # <<>>
    BY <1>12 DEF WInv, HasReported, SelectInterrogate
  <2>3. Len(reported) \in DOMAIN reported
    BY <2>1, <2>2
  <2>4. last \in State \ {"Stopped"}
    BY <2>1, <2>2, <2>3 DEF last
  <2> QED
    BY <1>12, <1>t, <2>4, ReportStep DEF SelectInterrogate, MainPc
<1>13. CASE ReportStopped
  BY <1>13, StoppedStep
<1>14. CASE NothingToInstall
  <2>1. WinSvcTypeOK'
    BY <1>14 DEF NothingToInstall, WInv, WinSvcTypeOK, stopVars, scmVars, endVars
  <2>2. FirstKept' /\ DownAfterRequest' /\ StoppedAtEnd' /\ ErrnoKept' /\ HasReported'
    BY <1>14 DEF NothingToInstall, WInv, FirstKept, DownAfterRequest, StoppedAtEnd,
       ErrnoKept, HasReported, last, stopVars, scmVars, endVars
  <2> QED
    BY <2>1, <2>2 DEF WInv
<1>15. CASE InitReturns
  <2>a. /\ cfgLock' \in BOOLEAN /\ main' = "run"
        /\ UNCHANGED <<runMode, stopVars, installed, scmVars, endVars>>
    BY <1>15, Zenon DEF InitReturns
  <2>1. WinSvcTypeOK'
    BY <2>a DEF WInv, WinSvcTypeOK, stopVars, scmVars, endVars
  <2>2. FirstKept' /\ DownAfterRequest' /\ StoppedAtEnd' /\ ErrnoKept' /\ HasReported'
    BY <1>15 DEF InitReturns, WInv, FirstKept, DownAfterRequest, StoppedAtEnd,
       ErrnoKept, HasReported, last, stopVars, scmVars, endVars
  <2> QED
    BY <2>1, <2>2 DEF WInv
<1>16. CASE RunInvalid
  <2>1. WinSvcTypeOK'
    BY <1>16 DEF RunInvalid, WInv, WinSvcTypeOK, stopVars, scmVars, endVars
  <2>2. FirstKept' /\ DownAfterRequest' /\ StoppedAtEnd' /\ ErrnoKept' /\ HasReported'
    BY <1>16 DEF RunInvalid, WInv, FirstKept, DownAfterRequest, StoppedAtEnd,
       ErrnoKept, HasReported, last, stopVars, scmVars, endVars
  <2> QED
    BY <2>1, <2>2 DEF WInv
<1>17. CASE SingletonStarts
  <2>1. WinSvcTypeOK'
    BY <1>17 DEF SingletonStarts, WInv, WinSvcTypeOK, stopVars, scmVars, endVars
  <2>2. FirstKept' /\ DownAfterRequest' /\ StoppedAtEnd' /\ ErrnoKept' /\ HasReported'
    BY <1>17 DEF SingletonStarts, WInv, FirstKept, DownAfterRequest, StoppedAtEnd,
       ErrnoKept, HasReported, last, stopVars, scmVars, endVars
  <2> QED
    BY <2>1, <2>2 DEF WInv
<1>18. CASE CheckLoop
  <2>1. WinSvcTypeOK'
    BY <1>18 DEF CheckLoop, WInv, WinSvcTypeOK, stopVars, scmVars, endVars
  <2>2. FirstKept' /\ DownAfterRequest' /\ StoppedAtEnd' /\ ErrnoKept' /\ HasReported'
    BY <1>18 DEF CheckLoop, WInv, FirstKept, DownAfterRequest, StoppedAtEnd,
       ErrnoKept, HasReported, last, stopVars, scmVars, endVars
  <2> QED
    BY <2>1, <2>2 DEF WInv
<1>19. CASE SelectSignal
  <2>1. WinSvcTypeOK'
    BY <1>19 DEF SelectSignal, WInv, WinSvcTypeOK, stopVars, scmVars, endVars
  <2>2. FirstKept' /\ DownAfterRequest' /\ StoppedAtEnd' /\ ErrnoKept' /\ HasReported'
    BY <1>19 DEF SelectSignal, WInv, FirstKept, DownAfterRequest, StoppedAtEnd,
       ErrnoKept, HasReported, last, stopVars, scmVars, endVars
  <2> QED
    BY <2>1, <2>2 DEF WInv
<1>20. CASE BlockUntilShutdown
  <2>1. WinSvcTypeOK'
    BY <1>20 DEF BlockUntilShutdown, WInv, WinSvcTypeOK, stopVars, scmVars, endVars
  <2>2. FirstKept' /\ DownAfterRequest' /\ StoppedAtEnd' /\ ErrnoKept' /\ HasReported'
    BY <1>20 DEF BlockUntilShutdown, WInv, FirstKept, DownAfterRequest, StoppedAtEnd,
       ErrnoKept, HasReported, last, stopVars, scmVars, endVars
  <2> QED
    BY <2>1, <2>2 DEF WInv
<1>21. CASE RunSvcReturns
  <2>1. WinSvcTypeOK'
    BY <1>21 DEF RunSvcReturns, WInv, WinSvcTypeOK, stopVars, scmVars, endVars
  <2>2. FirstKept' /\ DownAfterRequest' /\ StoppedAtEnd' /\ ErrnoKept' /\ HasReported'
    BY <1>21 DEF RunSvcReturns, WInv, FirstKept, DownAfterRequest, StoppedAtEnd,
       ErrnoKept, HasReported, last, stopVars, scmVars, endVars
  <2> QED
    BY <2>1, <2>2 DEF WInv
<1>22. CASE ExecuteReturns
  <2>1. WinSvcTypeOK'
    BY <1>22 DEF ExecuteReturns, WInv, WinSvcTypeOK, stopVars, scmVars, endVars
  <2>2. FirstKept' /\ DownAfterRequest' /\ StoppedAtEnd' /\ ErrnoKept' /\ HasReported'
    BY <1>22 DEF ExecuteReturns, WInv, FirstKept, DownAfterRequest, StoppedAtEnd,
       ErrnoKept, HasReported, last, stopVars, scmVars, endVars
  <2> QED
    BY <2>1, <2>2 DEF WInv
<1>23. ASSUME NEW c \in {"Interrogate", "Stop", "Shutdown"}, ScmRequest(c) PROVE WInv'
  BY <1>23 DEF ScmRequest, WInv, WinSvcTypeOK, FirstKept, DownAfterRequest,
     StoppedAtEnd, ErrnoKept, HasReported, last, stopVars, endVars
<1>24. CASE UNCHANGED vars
  BY <1>24 DEF vars, WInv, WinSvcTypeOK, FirstKept, DownAfterRequest, StoppedAtEnd,
     ErrnoKept, HasReported, last
<1> QED
  BY <1>1, <1>2, <1>3, <1>4, <1>5, <1>6, <1>7, <1>8, <1>9, <1>10, <1>11, <1>12,
     <1>13, <1>14, <1>15, <1>16, <1>17, <1>18, <1>19, <1>20, <1>21, <1>22, <1>23,
     <1>24 DEF Next, Process

(***************************************************************************)
(* WInv holds in every reachable state.                                    *)
(***************************************************************************)
THEOREM WinSvcInvariant == Spec => []WInv
BY InitWInv, StepWInv, PTL DEF Spec

(***************************************************************************)
(* The types of the service's state.                                       *)
(***************************************************************************)
THEOREM WinSvcTypeCorrect == Spec => []WinSvcTypeOK
<1>1. WInv => WinSvcTypeOK
  BY DEF WInv
<1> QED
  BY <1>1, WinSvcInvariant, PTL

(***************************************************************************)
(* Execute returns to the service control manager after the shutdown and   *)
(* after Stopped, with the code of whoever asked first, modulo the size of *)
(* a uint32: for any int and any number of racing requests.                *)
(***************************************************************************)
THEOREM ErrnoIsOfFirst == Spec => []ErrnoOfFirst
<1>1. WInv => ErrnoOfFirst
  BY DEF WInv, ErrnoKept, ErrnoOfFirst
<1> QED
  BY <1>1, WinSvcInvariant, PTL

(***************************************************************************)
(* Stopped is reported once, at the very end, after _shutdown has run.     *)
(***************************************************************************)
THEOREM NothingAfterStopped == Spec => []StoppedIsLast
<1>1. WInv => StoppedIsLast
  BY DEF WInv, StoppedAtEnd, StoppedIsLast
<1> QED
  BY <1>1, WinSvcInvariant, PTL
=============================================================================
