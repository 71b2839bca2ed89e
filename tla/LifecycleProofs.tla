-------------------------- MODULE LifecycleProofs --------------------------
(***************************************************************************)
(* Proofs about the life of the process, for every set of subscribers and  *)
(* return codes and every number of requests.                              *)
(*                                                                         *)
(* LInv adds to the properties what makes them inductive: main is past     *)
(* blockUntilShutdown's receive, or crashChan is closed, only when a       *)
(* shutdown was asked for; the subscribers called so far are the first     *)
(* ones of the list; and while main goes through the list it holds         *)
(* shutdownLock, so that the list keeps the length the range began with.   *)
(*                                                                         *)
(* HangInv is what keeps the shutdown sequence from hanging: who waits to  *)
(* subscribe is not on the list, and the log loop is where main expects    *)
(* it.                                                                     *)
(***************************************************************************)
EXTENDS Lifecycle, TLAPS

pastSignal == MainPc \ {"init", "run", "giveUp", "block"}

CalledIsPrefix ==
  /\ Len(called) <= Len(subs)
  /\ \A i \in 1..Len(called) : called[i] = subs[i]

LockedList ==
  /\ reading <=> main \in {"notify", "callback"}
  /\ reading => toCall = Len(subs)

LInv ==
  /\ LifecycleTypeOK
  /\ ExitCodeOfFirst
  /\ main \in pastSignal => shuttingDown
  /\ crashChan = "closed" => shuttingDown
  /\ CalledIsPrefix
  /\ LockedList

(***************************************************************************)
(* The initial states satisfy LInv.                                        *)
(***************************************************************************)
LEMMA InitLInv == Init => LInv
<1> SUFFICES ASSUME Init PROVE LInv
  OBVIOUS
<1>1. main \in MainPc /\ main \notin pastSignal
  BY DEF Init, MainPc, pastSignal
<1>2. exitCode \in Int /\ accepted \in Int
  BY DEF Init
<1>3. shuttingDown \in BOOLEAN
  BY DEF Init
<1>4. StopTypeOK
  BY <1>1, <1>2, <1>3 DEF StopTypeOK
<1>5. SubTypeOK
  <2>1. subs \in Seq(Sub) /\ called \in Seq(Sub)
    BY DEF Init
  <2>2. waiting \in SUBSET Sub /\ reading \in BOOLEAN /\ toCall \in Nat
    BY DEF Init
  <2> QED
    BY <2>1, <2>2 DEF SubTypeOK
<1>6. CountTypeOK
  BY DEF Init, CountTypeOK
<1>7. GoroutineTypeOK
  BY DEF Init, GoroutineTypeOK
<1>8. CalledIsPrefix /\ LockedList
  BY DEF Init, CalledIsPrefix, LockedList
<1>9. ExitCodeOfFirst /\ crashChan = "open" /\ main = "init"
  BY DEF Init, ExitCodeOfFirst
<1> QED
  BY <1>1, <1>4, <1>5, <1>6, <1>7, <1>8, <1>9 DEF LInv, LifecycleTypeOK

(***************************************************************************)
(* Where main may go, and what that requires.                              *)
(***************************************************************************)
LEMMA MainMoves ==
  ASSUME StopTypeOK, Next
  PROVE  /\ main' \in MainPc
         /\ main' \in pastSignal => main \in pastSignal \/ shuttingDown
BY DEF Next, mainStep, InitCfg, startSingleton, giveUp, SignalReceived,
   NotifyOne, CallbackReturns, NotifyDone, NetShutdown, CloseCrashChan,
   Return, SignalShutdown, CatchSigInt, SigIntShutdown,
   OnShutdownUri, DelayedShutdown, OnCrashUri, DelayedCrash, CatcherReceives,
   catchCrash, CatcherPanics, OnRotateLogsUri, ShutdownNotify, Subscribed,
   LoopRotate, LoopRotated, LoopCloses, LoopAnswers, StopTypeOK, MainPc,
   pastSignal

(***************************************************************************)
(* The shutdown request changes by signalShutdown only.                    *)
(***************************************************************************)
LEMMA StopMoves ==
  ASSUME Next
  PROVE  UNCHANGED stopVars \/ \E code \in Int : signalShutdown(code)
<1>1. ASSUME NEW code \in Code, SignalShutdown(code)
      PROVE  code \in Int /\ signalShutdown(code)
  BY <1>1, LifecycleAssumption DEF SignalShutdown
<1>2. giveUp => signalShutdown(1)
  BY DEF giveUp
<1>3. (SigIntShutdown \/ DelayedShutdown) => signalShutdown(0)
  BY DEF SigIntShutdown, DelayedShutdown
<1>4. 0 \in Int /\ 1 \in Int
  OBVIOUS
<1>5. CASE /\ ~giveUp /\ ~SigIntShutdown /\ ~DelayedShutdown
           /\ ~\E code \in Code : SignalShutdown(code)
  BY <1>5 DEF Next, mainStep, InitCfg, startSingleton, SignalReceived,
     NotifyOne, CallbackReturns, NotifyDone, NetShutdown, CloseCrashChan,
     Return, CatchSigInt, OnShutdownUri, OnCrashUri, DelayedCrash,
     CatcherReceives, catchCrash, CatcherPanics, OnRotateLogsUri,
     ShutdownNotify, Subscribed, LoopRotate, LoopRotated, LoopCloses,
     LoopAnswers
<1> QED
  BY <1>1, <1>2, <1>3, <1>4, <1>5

(***************************************************************************)
(* The list of subscribers and the calls made change by a subscription and *)
(* by a call only.                                                         *)
(***************************************************************************)
LEMMA SubMoves ==
  ASSUME Next
  PROVE  \/ UNCHANGED subVars
         \/ SignalReceived \/ NotifyOne \/ NotifyDone
         \/ \E f \in Sub : ShutdownNotify(f) \/ Subscribed(f)
BY DEF Next, mainStep, InitCfg, startSingleton, giveUp, CallbackReturns,
   NetShutdown, CloseCrashChan, Return, SignalShutdown,
   CatchSigInt, SigIntShutdown, OnShutdownUri, DelayedShutdown, OnCrashUri,
   DelayedCrash, CatcherReceives, catchCrash, CatcherPanics, OnRotateLogsUri,
   LoopRotate, LoopRotated, LoopCloses, LoopAnswers

(***************************************************************************)
(* main goes through the list of subscribers between SignalReceived and    *)
(* NotifyDone.                                                             *)
(***************************************************************************)
LEMMA NotifyMoves ==
  ASSUME Next
  PROVE  \/ SignalReceived \/ NotifyOne \/ CallbackReturns \/ NotifyDone
         \/ (main' \in {"notify", "callback"} <=> main \in {"notify", "callback"})
BY DEF Next, mainStep, InitCfg, startSingleton, giveUp, NetShutdown,
   CloseCrashChan, Return, SignalShutdown, CatchSigInt, SigIntShutdown,
   OnShutdownUri, DelayedShutdown, OnCrashUri, DelayedCrash, CatcherReceives,
   catchCrash, CatcherPanics, OnRotateLogsUri, ShutdownNotify, Subscribed,
   LoopRotate, LoopRotated, LoopCloses, LoopAnswers

(***************************************************************************)
(* crashChan is closed by main, which was told to shut down before.        *)
(***************************************************************************)
LEMMA ChanMoves ==
  ASSUME Next
  PROVE  crashChan' = crashChan \/ (main = "crashChan" /\ crashChan' = "closed")
BY DEF Next, mainStep, InitCfg, startSingleton, giveUp, SignalReceived,
   NotifyOne, CallbackReturns, NotifyDone, NetShutdown, CloseCrashChan,
   Return, SignalShutdown, CatchSigInt, SigIntShutdown,
   OnShutdownUri, DelayedShutdown, OnCrashUri, DelayedCrash, CatcherReceives,
   catchCrash, CatcherPanics, OnRotateLogsUri, ShutdownNotify, Subscribed,
   LoopRotate, LoopRotated, LoopCloses, LoopAnswers, crashVars

(***************************************************************************)
(* The counters of sleeping and blocked goroutines never go below zero.    *)
(***************************************************************************)
LEMMA CountStep ==
  ASSUME CountTypeOK, Next
  PROVE  CountTypeOK'
<1> DEFINE counted(old, new) ==
             new = old \/ new = old + 1 \/ (old > 0 /\ new = old - 1)
<1>1. /\ counted(stoppers, stoppers')
      /\ counted(crashers, crashers')
      /\ counted(senders, senders')
      /\ counted(rotators, rotators')
      /\ counted(reqs, reqs')
  BY DEF Next, mainStep, InitCfg, startSingleton, giveUp, SignalReceived,
     NotifyOne, CallbackReturns, NotifyDone, NetShutdown, CloseCrashChan,
     Return, SignalShutdown, CatchSigInt, SigIntShutdown,
     OnShutdownUri, DelayedShutdown, OnCrashUri, DelayedCrash,
     CatcherReceives, catchCrash, CatcherPanics, OnRotateLogsUri,
     ShutdownNotify, Subscribed, LoopRotate, LoopRotated, LoopCloses,
     LoopAnswers, crashVars, logVars
<1>2. ASSUME NEW old \in Nat, NEW new, counted(old, new) PROVE new \in Nat
  BY <1>2
<1> QED
  BY <1>1, <1>2 DEF CountTypeOK

(***************************************************************************)
(* The goroutines stay at the places the code has.                         *)
(***************************************************************************)
LEMMA GoroutineStep ==
  ASSUME GoroutineTypeOK, Next
  PROVE  GoroutineTypeOK'
<1> USE DEF Next, mainStep, InitCfg, startSingleton, giveUp, SignalReceived,
        NotifyOne, CallbackReturns, NotifyDone, NetShutdown, CloseCrashChan,
        Return, SignalShutdown, CatchSigInt, SigIntShutdown,
        OnShutdownUri, DelayedShutdown, OnCrashUri, DelayedCrash,
        CatcherReceives, catchCrash, CatcherPanics, OnRotateLogsUri,
        ShutdownNotify, Subscribed, LoopRotate, LoopRotated, LoopCloses,
        LoopAnswers, crashVars, logVars, GoroutineTypeOK
<1>1. sigint' \in {"off", "wait", "caught", "done"}
  OBVIOUS
<1>2. crashChan' \in {"open", "closed"}
  OBVIOUS
<1>3. catcher' \in {"off", "wait", "got", "panics", "returned"}
  OBVIOUS
<1>4. logLoop' \in {"off", "select", "rotate", "closed", "returned"}
  OBVIOUS
<1>5. cause' \in {"none", "send on closed channel", "User initiated crash"}
  OBVIOUS
<1> QED
  BY <1>1, <1>2, <1>3, <1>4, <1>5

(***************************************************************************)
(* A step keeps the subscribers that were called the first of the list.    *)
(***************************************************************************)
LEMMA SubStep ==
  ASSUME SubTypeOK, CalledIsPrefix, LockedList, Next
  PROVE  SubTypeOK' /\ CalledIsPrefix'
<1>1. ASSUME UNCHANGED <<subs, called>>, waiting' \in SUBSET Sub,
             reading' \in BOOLEAN, toCall' \in Nat
      PROVE  SubTypeOK' /\ CalledIsPrefix'
  BY <1>1 DEF SubTypeOK, CalledIsPrefix
<1>2. CASE UNCHANGED subVars
  BY <1>1, <1>2 DEF subVars, SubTypeOK
<1>3. CASE SignalReceived \/ NotifyDone
  <2>1. UNCHANGED <<subs, called, waiting>> /\ reading' \in BOOLEAN
        /\ toCall' \in {Len(subs), toCall}
    BY <1>3 DEF SignalReceived, NotifyDone
  <2>2. Len(subs) \in Nat /\ toCall \in Nat /\ waiting \in SUBSET Sub
    BY DEF SubTypeOK
  <2> QED
    BY <1>1, <2>1, <2>2
<1>4. ASSUME NEW f \in Sub, ShutdownNotify(f)
      PROVE  SubTypeOK' /\ CalledIsPrefix'
  BY <1>1, <1>4 DEF ShutdownNotify, SubTypeOK
<1>5. ASSUME NEW f \in Sub, Subscribed(f)
      PROVE  SubTypeOK' /\ CalledIsPrefix'
  <2>1. subs' = Append(subs, f) /\ UNCHANGED <<called, reading, toCall>>
        /\ waiting' = waiting \ {f}
    BY <1>5 DEF Subscribed
  <2>2. subs \in Seq(Sub) /\ called \in Seq(Sub)
    BY DEF SubTypeOK
  <2>3. subs' \in Seq(Sub) /\ Len(subs') = Len(subs) + 1
        /\ \A i \in 1..Len(subs) : subs'[i] = subs[i]
    BY <2>1, <2>2
  <2>4. CalledIsPrefix'
    BY <2>1, <2>2, <2>3 DEF CalledIsPrefix
  <2> QED
    BY <2>1, <2>3, <2>4 DEF SubTypeOK
<1>6. CASE NotifyOne
  <2> DEFINE f == subs[Len(called) + 1]
  <2>1. Len(called) < Len(subs) /\ called' = Append(called, f) /\ subs' = subs
        /\ UNCHANGED <<reading, toCall>> /\ waiting' \in {waiting, waiting \cup {f}}
    BY <1>6 DEF NotifyOne, LockedList
  <2>2. subs \in Seq(Sub) /\ called \in Seq(Sub)
    BY DEF SubTypeOK
  <2>3. f \in Sub
    BY <2>1, <2>2
  <2>4. called' \in Seq(Sub) /\ Len(called') = Len(called) + 1
        /\ called'[Len(called) + 1] = f
        /\ \A i \in 1..Len(called) : called'[i] = called[i]
    BY <2>1, <2>2, <2>3
  <2>5. \A i \in 1..Len(called') : i \in 1..Len(called) \/ i = Len(called) + 1
    BY <2>2, <2>4
  <2>6. CalledIsPrefix'
    BY <2>1, <2>2, <2>4, <2>5 DEF CalledIsPrefix
  <2>7. waiting' \in SUBSET Sub
    BY <2>1, <2>3 DEF SubTypeOK
  <2> QED
    BY <2>1, <2>2, <2>4, <2>6, <2>7 DEF SubTypeOK
<1> QED
  BY <1>2, <1>3, <1>4, <1>5, <1>6, SubMoves

(***************************************************************************)
(* main holds shutdownLock while it goes through the list, which keeps the *)
(* length the range began with.                                            *)
(***************************************************************************)
LEMMA ListStep ==
  ASSUME SubTypeOK, LockedList, Next
  PROVE  LockedList'
<1>1. CASE SignalReceived \/ NotifyDone \/ NotifyOne
  BY <1>1 DEF SignalReceived, NotifyDone, NotifyOne, LockedList
<1>2. CASE CallbackReturns
  BY <1>2 DEF CallbackReturns, LockedList, subVars
<1>3. CASE ~(SignalReceived \/ NotifyOne \/ CallbackReturns \/ NotifyDone)
  <2>1. main' \in {"notify", "callback"} <=> main \in {"notify", "callback"}
    BY <1>3, NotifyMoves
  <2>2. CASE UNCHANGED subVars
    BY <2>1, <2>2 DEF LockedList, subVars
  <2>3. ASSUME NEW f \in Sub, ShutdownNotify(f) PROVE LockedList'
    BY <2>1, <2>3 DEF ShutdownNotify, LockedList
  <2>4. ASSUME NEW f \in Sub, Subscribed(f) PROVE LockedList'
    BY <2>1, <2>4 DEF Subscribed, LockedList
  <2> QED
    BY <1>3, <2>2, <2>3, <2>4, SubMoves
<1> QED
  BY <1>1, <1>2, <1>3

(***************************************************************************)
(* Every step keeps LInv.                                                  *)
(***************************************************************************)
LEMMA NextLInv == LInv /\ [Next]_vars => LInv'
<1>1. CASE UNCHANGED vars
  <2> SUFFICES ASSUME LInv PROVE LInv'
    OBVIOUS
  <2>1. StopTypeOK' /\ SubTypeOK' /\ CalledIsPrefix'
    BY <1>1 DEF vars, LInv, LifecycleTypeOK, StopTypeOK, SubTypeOK,
       CalledIsPrefix
  <2>2. CountTypeOK' /\ GoroutineTypeOK'
    BY <1>1 DEF vars, LInv, LifecycleTypeOK, CountTypeOK, GoroutineTypeOK
  <2> QED
    BY <1>1, <2>1, <2>2 DEF vars, LInv, LifecycleTypeOK, ExitCodeOfFirst, LockedList
<1> SUFFICES ASSUME LInv, Next PROVE LInv'
  BY <1>1
<1>2. SubTypeOK' /\ CalledIsPrefix' /\ CountTypeOK' /\ GoroutineTypeOK'
  BY SubStep, CountStep, GoroutineStep DEF LInv, LifecycleTypeOK
<1>3. /\ shuttingDown' \in BOOLEAN
      /\ exitCode' \in Int
      /\ accepted' \in Int
      /\ shuttingDown => shuttingDown'
      /\ shuttingDown' => exitCode' = accepted'
  <2>1. CASE UNCHANGED stopVars
    BY <2>1 DEF LInv, LifecycleTypeOK, StopTypeOK, ExitCodeOfFirst, stopVars
  <2>2. ASSUME NEW code \in Int, signalShutdown(code)
        PROVE  /\ shuttingDown' = TRUE
               /\ exitCode' \in Int
               /\ accepted' \in Int
               /\ exitCode' = accepted'
    BY <2>2 DEF signalShutdown, LInv, LifecycleTypeOK, StopTypeOK,
       ExitCodeOfFirst
  <2> QED
    BY <2>1, <2>2, StopMoves
<1>4. main' \in MainPc /\ (main' \in pastSignal => shuttingDown')
  BY <1>3, MainMoves DEF LInv, LifecycleTypeOK
<1>5. crashChan' = "closed" => shuttingDown'
  BY <1>3, ChanMoves DEF LInv, pastSignal, MainPc
<1>6. LockedList'
  BY ListStep DEF LInv, LifecycleTypeOK
<1>7. ExitCodeOfFirst'
  BY <1>3, <1>4 DEF ExitCodeOfFirst, pastSignal, MainPc
<1> QED
  BY <1>2, <1>3, <1>4, <1>5, <1>6, <1>7 DEF LInv, LifecycleTypeOK, StopTypeOK

(***************************************************************************)
(* Every reachable state of the process satisfies LInv.                    *)
(***************************************************************************)
THEOREM LifecycleInvariant == Spec => []LInv
BY InitLInv, NextLInv, PTL DEF Spec

(***************************************************************************)
(* The type invariant of the process.                                      *)
(***************************************************************************)
THEOREM LifecycleTypeCorrect == Spec => []LifecycleTypeOK
BY LifecycleInvariant, PTL DEF LInv

(***************************************************************************)
(* Run returns the code of the request that started the shutdown.          *)
(***************************************************************************)
THEOREM ExitCodeCorrect == Spec => []ExitCodeOfFirst
BY LifecycleInvariant, PTL DEF LInv

(***************************************************************************)
(* The crash catcher never takes the closing of crashChan for a request.   *)
(***************************************************************************)
THEOREM CloseNeverCrashes == Spec => CloseIsNoCrash
<1>1. LInv /\ [Next]_vars =>
        [(catcher # "panics" /\ catcher' = "panics") => crashChan = "open"]_vars
  <2> SUFFICES ASSUME LInv, Next, catcher # "panics", catcher' = "panics"
               PROVE  crashChan = "open"
    OBVIOUS
  <2>1. catchCrash
    BY DEF Next, mainStep, InitCfg, startSingleton, giveUp, SignalReceived,
       NotifyOne, CallbackReturns, NotifyDone, NetShutdown, CloseCrashChan,
       Return, SignalShutdown, CatchSigInt, SigIntShutdown,
       OnShutdownUri, DelayedShutdown, OnCrashUri, DelayedCrash,
       CatcherReceives, CatcherPanics, OnRotateLogsUri, ShutdownNotify,
       Subscribed, LoopRotate, LoopRotated, LoopCloses, LoopAnswers, crashVars
  <2> QED
    BY <2>1 DEF catchCrash, LInv, LifecycleTypeOK, GoroutineTypeOK
<1> QED
  BY <1>1, LifecycleInvariant, PTL DEF Spec, CloseIsNoCrash

(***************************************************************************)
(* Every subscriber is called, in order, before the network goes down.     *)
(***************************************************************************)
THEOREM SubscribersNotified == Spec => AllNotified
<1>1. LInv /\ [Next]_vars =>
        [(main # "net" /\ main' = "net") => called' = subs']_vars
  <2> SUFFICES ASSUME LInv, Next, main # "net", main' = "net"
               PROVE  called' = subs'
    OBVIOUS
  <2>1. NotifyDone
    BY DEF Next, mainStep, InitCfg, startSingleton, giveUp, SignalReceived,
       NotifyOne, CallbackReturns, NetShutdown, CloseCrashChan, Return, SignalShutdown, CatchSigInt, SigIntShutdown, OnShutdownUri,
       DelayedShutdown, OnCrashUri, DelayedCrash, CatcherReceives, catchCrash,
       CatcherPanics, OnRotateLogsUri, ShutdownNotify, Subscribed, LoopRotate,
       LoopRotated, LoopCloses, LoopAnswers
  <2>2. Len(called) = Len(subs) /\ UNCHANGED <<called, subs>>
    BY <2>1 DEF NotifyDone, LInv, LockedList
  <2>3. called \in Seq(Sub) /\ subs \in Seq(Sub)
        /\ \A i \in 1..Len(called) : called[i] = subs[i]
    BY DEF LInv, LifecycleTypeOK, SubTypeOK, CalledIsPrefix
  <2>4. called = subs
    BY <2>2, <2>3
  <2> QED
    BY <2>2, <2>4
<1> QED
  BY <1>1, LifecycleInvariant, PTL DEF Spec, AllNotified

(***************************************************************************)
(* What a step does to the state that App sees: someone asks for a         *)
(* shutdown, main returns from Run, or the request is left alone.          *)
(***************************************************************************)
LEMMA AppMoves ==
  ASSUME Next
  PROVE  /\ cause = "none"
         /\ \/ /\ \E c \in Code \cup {0, 1} : signalShutdown(c)
               /\ cause' = "none" /\ (main' = "returned" <=> main = "returned")
            \/ /\ UNCHANGED stopVars
               /\ main' = "returned" <=> main = "returned"
            \/ /\ UNCHANGED stopVars
               /\ main = "complete" /\ main' = "returned" /\ cause' = "none"
<1>1. ASSUME NEW c \in Code, SignalShutdown(c)
      PROVE  /\ cause = "none"
             /\ \E d \in Code \cup {0, 1} : signalShutdown(d)
             /\ cause' = "none" /\ (main' = "returned" <=> main = "returned")
  <2>1. c \in Code \cup {0, 1} /\ signalShutdown(c)
    BY <1>1 DEF SignalShutdown
  <2> QED
    BY <1>1, <2>1 DEF SignalShutdown, alive
<1>2. ASSUME giveUp \/ SigIntShutdown \/ DelayedShutdown
      PROVE  /\ cause = "none"
             /\ signalShutdown(0) \/ signalShutdown(1)
             /\ cause' = "none" /\ (main' = "returned" <=> main = "returned")
  BY <1>2 DEF giveUp, SigIntShutdown, DelayedShutdown, alive
<1>3. ASSUME Return
      PROVE  /\ cause = "none"
             /\ UNCHANGED stopVars
             /\ main = "complete" /\ main' = "returned" /\ cause' = "none"
  BY <1>3 DEF Return, alive
<1>4. ASSUME ~giveUp, ~SigIntShutdown, ~DelayedShutdown, ~Return,
             ~\E c \in Code : SignalShutdown(c)
      PROVE  /\ cause = "none"
             /\ UNCHANGED stopVars
             /\ main' = "returned" <=> main = "returned"
  BY <1>4 DEF Next, mainStep, InitCfg, startSingleton, SignalReceived,
     NotifyOne, CallbackReturns, NotifyDone, NetShutdown, CloseCrashChan,
     CatchSigInt, OnShutdownUri, OnCrashUri, DelayedCrash,
     CatcherReceives, catchCrash, CatcherPanics, OnRotateLogsUri,
     ShutdownNotify, Subscribed, LoopRotate, LoopRotated, LoopCloses,
     LoopAnswers, alive
<1> QED
  BY <1>1, <1>2, <1>3, <1>4

(***************************************************************************)
(* A step of the process is a step of App or leaves App's state alone.     *)
(***************************************************************************)
LEMMA AppStep ==
  ASSUME LInv, Next
  PROVE  Abstract!Next \/ UNCHANGED <<phase, exitCode>>
<1>1. shuttingDown \in BOOLEAN
  BY DEF LInv, LifecycleTypeOK, StopTypeOK
<1>2. CASE /\ \E c \in Code \cup {0, 1} : signalShutdown(c)
           /\ cause' = "none" /\ (main' = "returned" <=> main = "returned")
  <2>1. PICK c \in Code \cup {0, 1} : signalShutdown(c)
    BY <1>2
  <2>2. CASE shuttingDown
    BY <1>2, <2>1, <2>2, AppMoves DEF phase, signalShutdown
  <2>3. CASE ~shuttingDown
    <3>1. main # "returned"
      BY <2>3 DEF LInv, pastSignal, MainPc
    <3>2. phase = "up" /\ phase' = "stopping" /\ exitCode' = c
      BY <1>2, <2>1, <2>3, <3>1, AppMoves DEF phase, signalShutdown
    <3> QED
      BY <3>2 DEF Abstract!Next, Abstract!Ask
  <2> QED
    BY <1>1, <2>2, <2>3
<1>3. CASE UNCHANGED stopVars /\ (main' = "returned" <=> main = "returned")
  <2>1. phase # "crashed" /\ exitCode' = exitCode
    BY <1>3, AppMoves DEF phase, stopVars
  <2>2. CASE cause' = "none"
    BY <1>3, <2>1, <2>2, AppMoves DEF phase, stopVars
  <2>3. CASE cause' # "none"
    <3>1. phase' = "crashed"
      BY <2>3 DEF phase
    <3> QED
      BY <2>1, <3>1 DEF Abstract!Next, Abstract!Crash
  <2> QED
    BY <2>2, <2>3
<1>4. CASE /\ UNCHANGED stopVars
           /\ main = "complete" /\ main' = "returned" /\ cause' = "none"
  <2>1. shuttingDown
    BY <1>4 DEF LInv, pastSignal, MainPc
  <2>2. phase = "stopping" /\ phase' = "stopped" /\ exitCode' = exitCode
    BY <1>4, <2>1, AppMoves DEF phase, stopVars
  <2> QED
    BY <2>2 DEF Abstract!Next, Abstract!Stop
<1> QED
  BY <1>2, <1>3, <1>4, AppMoves

(***************************************************************************)
(* The process implements App: it starts to stop once, with the code of    *)
(* the first request, and Run returns once, when asked to; afterwards only *)
(* a panic of what outlives Run may follow.                                *)
(***************************************************************************)
THEOREM ProcessImplementsApp == Spec => ImplementsApp
<1>1. Init => Abstract!Init
  BY DEF Init, Abstract!Init, phase
<1>2. LInv /\ [Next]_vars => [Abstract!Next]_(Abstract!vars)
  <2> SUFFICES ASSUME LInv, [Next]_vars
               PROVE  Abstract!Next \/ UNCHANGED <<phase, exitCode>>
    BY DEF Abstract!vars
  <2>1. CASE UNCHANGED vars
    BY <2>1 DEF vars, phase
  <2> QED
    BY <2>1, AppStep
<1> QED
  BY <1>1, <1>2, LifecycleInvariant, PTL DEF Spec, ImplementsApp, Abstract!Spec

-----------------------------------------------------------------------------
(* The shutdown sequence does not hang. *)

\* what main waits for is there: the callback does not wait for a lock main holds,
\* the log loop can still take the request of closeLogs and owes its answer
PartnerThere ==
  /\ main = "callback" => called[Len(called)] \notin waiting
  /\ main = "closeLogs" => logLoop \in {"select", "rotate"}
  /\ main = "logsAnswer" => logLoop = "closed"

\* the steps main has before it from notifyShutdown on
toCome == [net |-> 5, crashChan |-> 4, closeLogs |-> 3, logsAnswer |-> 2, complete |-> 1,
           returned |-> 0]
left ==
  IF main \in {"notify", "callback"}
  THEN 6 + 2 * (toCall - Len(called)) + (IF main = "callback" THEN 1 ELSE 0)
  ELSE toCome[main]

Advances ==
  [][(main \in pastSignal) => UNCHANGED <<main, left>> \/ left' < left]_vars

HangInv ==
  /\ \A i \in DOMAIN subs : subs[i] \notin waiting
  /\ main = "callback" => Len(called) > 0
  /\ logLoop = "off" <=> main = "init"
  /\ logLoop = "closed" <=> main = "logsAnswer"
  /\ logLoop = "returned" => main \in {"complete", "returned"}

(***************************************************************************)
(* The initial states satisfy HangInv.                                     *)
(***************************************************************************)
LEMMA InitHangInv == Init => HangInv
BY DEF Init, HangInv

(***************************************************************************)
(* Where main and the log loop go together.                                *)
(***************************************************************************)
LEMMA LoopMoves ==
  ASSUME HangInv, Next
  PROVE  /\ main' = "callback" => NotifyOne \/ (main = "callback" /\ called' = called)
         /\ logLoop' = "off" <=> main' = "init"
         /\ logLoop' = "closed" <=> main' = "logsAnswer"
         /\ logLoop' = "returned" => main' \in {"complete", "returned"}
<1> USE DEF Next, mainStep, InitCfg, startSingleton, giveUp, SignalReceived, NotifyOne,
            CallbackReturns, NotifyDone, NetShutdown, CloseCrashChan, Return,
            SignalShutdown, CatchSigInt, SigIntShutdown, OnShutdownUri, DelayedShutdown,
            OnCrashUri, DelayedCrash, CatcherReceives, catchCrash, CatcherPanics,
            OnRotateLogsUri, ShutdownNotify, Subscribed, LoopRotate, LoopRotated,
            LoopCloses, LoopAnswers, HangInv, subVars, logVars, alive
<1>1. main' = "callback" => NotifyOne \/ (main = "callback" /\ called' = called)
  OBVIOUS
<1>2. logLoop' = "off" <=> main' = "init"
  OBVIOUS
<1>3. logLoop' = "closed" <=> main' = "logsAnswer"
  OBVIOUS
<1>4. logLoop' = "returned" => main' \in {"complete", "returned"}
  OBVIOUS
<1> QED
  BY <1>1, <1>2, <1>3, <1>4

(***************************************************************************)
(* HangInv is inductive when no callback subscribes: who waits to          *)
(* subscribe is not on the list.                                           *)
(***************************************************************************)
LEMMA NextHangInv ==
  ASSUME Resubscribes = {}, LInv, HangInv, [Next]_vars
  PROVE  HangInv'
<1>1. CASE UNCHANGED vars
  BY <1>1 DEF vars, HangInv
<1>2. CASE Next
  <2>1. \A i \in DOMAIN subs' : subs'[i] \notin waiting'
    <3>1. subs \in Seq(Sub) /\ \A i \in DOMAIN subs : subs[i] \notin waiting
      BY DEF LInv, LifecycleTypeOK, SubTypeOK, HangInv
    <3>2. CASE UNCHANGED <<subs, waiting>>
      BY <3>1, <3>2
    <3>3. ASSUME NEW f \in Sub, ShutdownNotify(f)
          PROVE  \A i \in DOMAIN subs' : subs'[i] \notin waiting'
      BY <3>1, <3>3 DEF ShutdownNotify
    <3>4. ASSUME NEW f \in Sub, Subscribed(f)
          PROVE  \A i \in DOMAIN subs' : subs'[i] \notin waiting'
      <4>1. subs' = Append(subs, f) /\ waiting' = waiting \ {f}
        BY <3>4 DEF Subscribed
      <4>2. \A i \in DOMAIN subs' : (i \in DOMAIN subs /\ subs'[i] = subs[i]) \/ subs'[i] = f
        BY <3>1, <4>1
      <4> QED
        BY <3>1, <4>1, <4>2
    <3>5. NotifyOne => UNCHANGED <<subs, waiting>>
      BY DEF NotifyOne
    <3>6. UNCHANGED subVars \/ SignalReceived \/ NotifyDone => UNCHANGED <<subs, waiting>>
      BY DEF subVars, SignalReceived, NotifyDone
    <3> QED
      BY <1>2, <3>2, <3>3, <3>4, <3>5, <3>6, SubMoves
  <2>2. main' = "callback" => Len(called') > 0
    <3>1. called \in Seq(Sub) /\ subs \in Seq(Sub)
      BY DEF LInv, LifecycleTypeOK, SubTypeOK
    <3>2. NotifyOne => Len(called') > 0
      <4> SUFFICES ASSUME NotifyOne PROVE Len(called') > 0
        OBVIOUS
      <4> DEFINE f == subs[Len(called) + 1]
      <4>1. Len(called) < Len(subs) /\ called' = Append(called, f)
        BY DEF NotifyOne, LInv, LockedList
      <4>2. f \in Sub
        BY <3>1, <4>1
      <4> HIDE DEF f
      <4> QED
        BY <3>1, <4>1, <4>2
    <3> QED
      BY <1>2, <3>2, LoopMoves DEF HangInv
  <2> QED
    BY <1>2, <2>1, <2>2, LoopMoves DEF HangInv
<1> QED
  BY <1>1, <1>2

(***************************************************************************)
(* A step of main brings it nearer to the end, and no other step takes it  *)
(* further away.                                                           *)
(***************************************************************************)
LEMMA StepAdvances ==
  ASSUME LInv, HangInv, Next, main \in pastSignal
  PROVE  UNCHANGED <<main, left>> \/ left' < left
<1>1. /\ called \in Seq(Sub) /\ subs \in Seq(Sub) /\ Len(called) \in Nat /\ Len(subs) \in Nat
      /\ Len(called) <= Len(subs) /\ toCall \in Nat
      /\ main \in {"notify", "callback"} => toCall = Len(subs)
  BY DEF LInv, LifecycleTypeOK, SubTypeOK, CalledIsPrefix, LockedList
<1>2. CASE NotifyOne
  <2>1. subs[Len(called) + 1] \in Sub
    BY <1>1, <1>2 DEF NotifyOne
  <2>2. Len(called') = Len(called) + 1 /\ toCall' = toCall /\ Len(called) < toCall /\ main = "notify" /\ main' = "callback"
    BY <1>1, <1>2, <2>1 DEF NotifyOne
  <2> QED
    BY <1>1, <2>2 DEF left
<1>3. CASE CallbackReturns
  BY <1>1, <1>3 DEF CallbackReturns, subVars, left
<1>4. CASE NotifyDone
  BY <1>1, <1>4 DEF NotifyDone, left, toCome
<1>5. CASE NetShutdown \/ CloseCrashChan \/ Return \/ LoopCloses \/ LoopAnswers
  <2>1. <<main, main'>> \in {<<"net", "crashChan">>, <<"crashChan", "closeLogs">>,
          <<"closeLogs", "logsAnswer">>, <<"logsAnswer", "complete">>,
          <<"complete", "returned">>}
    BY <1>5 DEF NetShutdown, CloseCrashChan, Return, LoopCloses, LoopAnswers
  <2>2. left = toCome[main] /\ left' = toCome[main']
    BY <2>1 DEF left, toCome
  <2> QED
    BY <2>1, <2>2 DEF toCome
<1>6. CASE ~(NotifyOne \/ CallbackReturns \/ NotifyDone \/ NetShutdown \/ CloseCrashChan
             \/ Return \/ LoopCloses \/ LoopAnswers)
  <2>1. main' = main
    BY <1>6 DEF Next, mainStep, InitCfg, startSingleton, giveUp, SignalReceived,
       SignalShutdown, CatchSigInt, SigIntShutdown, OnShutdownUri, DelayedShutdown,
       OnCrashUri, DelayedCrash, CatcherReceives, catchCrash, CatcherPanics,
       OnRotateLogsUri, ShutdownNotify, Subscribed, LoopRotate, LoopRotated, pastSignal,
       MainPc
  <2>2. main \in {"notify", "callback"} => UNCHANGED <<toCall, called>>
    BY <1>6, SubMoves DEF SignalReceived, ShutdownNotify, Subscribed, subVars
  <2> QED
    BY <2>1, <2>2 DEF left
<1> QED
  BY <1>2, <1>3, <1>4, <1>5, <1>6

(***************************************************************************)
(* HangInv says that what main waits for is there.                         *)
(***************************************************************************)
LEMMA PartnerIsThere ==
  ASSUME LInv, HangInv
  PROVE  PartnerThere
<1>1. ASSUME main = "callback" PROVE called[Len(called)] \notin waiting
  <2>1. /\ called \in Seq(Sub) /\ subs \in Seq(Sub) /\ Len(called) \in 1..Len(subs)
        /\ \A i \in 1..Len(called) : called[i] = subs[i]
    BY <1>1 DEF HangInv, LInv, LifecycleTypeOK, SubTypeOK, CalledIsPrefix
  <2>2. Len(called) \in DOMAIN subs /\ called[Len(called)] = subs[Len(called)]
    BY <2>1
  <2> QED
    BY <2>2 DEF HangInv
<1>2. logLoop \in {"off", "select", "rotate", "closed", "returned"}
  BY DEF LInv, LifecycleTypeOK, GoroutineTypeOK
<1> QED
  BY <1>1, <1>2 DEF HangInv, PartnerThere

(***************************************************************************)
(* The shutdown sequence hangs nowhere: at every rendezvous of             *)
(* blockUntilShutdown the other side is there, a callback does not wait    *)
(* for the lock main holds, and every step of main leaves fewer to come,   *)
(* whoever subscribes meanwhile and whatever other requests arrive.  It    *)
(* takes that no callback subscribes (ShutdownNotify, events.go).          *)
(***************************************************************************)
THEOREM ShutdownNeverHangs ==
  ASSUME Resubscribes = {}
  PROVE  Spec => []PartnerThere /\ Advances
<1>1. LInv /\ HangInv /\ [Next]_vars => HangInv'
  BY NextHangInv
<1>2. LInv /\ HangInv => PartnerThere
  BY PartnerIsThere
<1>3. LInv /\ HangInv /\ [Next]_vars =>
        [(main \in pastSignal) => UNCHANGED <<main, left>> \/ left' < left]_vars
  BY StepAdvances
<1> QED
  BY <1>1, <1>2, <1>3, InitHangInv, LifecycleInvariant, PTL DEF Spec, Advances
=============================================================================
