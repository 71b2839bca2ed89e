-------------------------- MODULE SingletonProofs --------------------------
(***************************************************************************)
(* Proofs about the pid file, for every number of processes and kills and  *)
(* of files that cannot be written, as long as starts do not overlap.      *)
(*                                                                         *)
(* The argument: a process that has written the file and not removed it    *)
(* owns it (from the second GetRunStatus to the end of its shutdown), and  *)
(* the file names the owner.  A process passes the first check only while  *)
(* there is no owner, and none appears until it writes the file itself, or *)
(* has ended because it could not.                                         *)
(***************************************************************************)
EXTENDS Singleton, TLAPS

owns(p) == pc[p] \in {"verify", "running"} \/ (pc[p] = "shutdown" /\ cleanPid[p])

OneStarts == \A p, q \in Pid : (starting(p) /\ starting(q)) => p = q

OwnerNamed == \A p \in Pid : owns(p) => pidFile = p

NoOwnerAtCreate == \A p, q \in Pid : pc[p] \in {"create", "failed"} => ~owns(q)

Ordered == OneStarts /\ OwnerNamed /\ NoOwnerAtCreate

SInv == SingletonTypeOK /\ (orderly => Ordered)

(***************************************************************************)
(* The type invariant needs no other fact.                                 *)
(***************************************************************************)
LEMMA TypeStep == SingletonTypeOK /\ [Next]_vars => SingletonTypeOK'
<1> SUFFICES ASSUME SingletonTypeOK, [Next]_vars PROVE SingletonTypeOK'
  OBVIOUS
<1> USE DEF SingletonTypeOK, step
<1>1. ASSUME NEW p \in Pid, Launch(p) PROVE SingletonTypeOK'
  BY <1>1 DEF Launch
<1>2. ASSUME NEW p \in Pid, AlreadyRunning(p) PROVE SingletonTypeOK'
  BY <1>2 DEF AlreadyRunning
<1>3. ASSUME NEW p \in Pid, NotRunning(p) PROVE SingletonTypeOK'
  BY <1>3 DEF NotRunning
<1>4. ASSUME NEW p \in Pid, CreatePidFile(p) PROVE SingletonTypeOK'
  BY <1>4 DEF CreatePidFile
<1>5. ASSUME NEW p \in Pid, CreateError(p) PROVE SingletonTypeOK'
  BY <1>5 DEF CreateError
<1>6. ASSUME NEW p \in Pid, Verify(p) PROVE SingletonTypeOK'
  BY <1>6 DEF Verify
<1>7. ASSUME NEW p \in Pid, Stop(p) PROVE SingletonTypeOK'
  BY <1>7 DEF Stop
<1>8. ASSUME NEW p \in Pid, DeletePidFile(p) PROVE SingletonTypeOK'
  BY <1>8 DEF DeletePidFile
<1>9. ASSUME NEW p \in Pid, Kill(p) PROVE SingletonTypeOK'
  BY <1>9, SingletonAssumption DEF Kill
<1>10. ASSUME NEW p \in Pid, Restart(p) PROVE SingletonTypeOK'
  BY <1>10 DEF Restart
<1>11. CASE UNCHANGED vars
  BY <1>11 DEF vars
<1> QED
  BY <1>1, <1>2, <1>3, <1>4, <1>5, <1>6, <1>7, <1>8, <1>9, <1>10, <1>11 DEF Next

(***************************************************************************)
(* Every step preserves what the argument rests on.                        *)
(***************************************************************************)
LEMMA OwnerStep ==
  ASSUME SInv, Next, orderly'
  PROVE  Ordered'
<1>1. PICK p \in Pid :
        \/ Launch(p) \/ AlreadyRunning(p) \/ NotRunning(p) \/ CreatePidFile(p)
        \/ CreateError(p) \/ Verify(p) \/ Stop(p) \/ DeletePidFile(p) \/ Kill(p)
        \/ Restart(p)
  BY DEF Next
<1>2. pc \in [Pid -> {"off", "check", "create", "verify", "failed", "running",
                      "shutdown", "exited", "killed"}] /\ cleanPid \in [Pid -> BOOLEAN]
  BY DEF SInv, SingletonTypeOK
<1>a. orderly
  BY <1>1 DEF Launch, AlreadyRunning, NotRunning, CreatePidFile, CreateError, Verify,
     Stop, DeletePidFile, Kill, Restart
<1> USE <1>2, <1>a DEF SInv, Ordered, OneStarts, OwnerNamed, NoOwnerAtCreate, owns, starting, step
<1>3. CASE Launch(p)
  BY <1>3 DEF Launch
<1>4. CASE AlreadyRunning(p)
  BY <1>4 DEF AlreadyRunning
<1>5. CASE NotRunning(p)
  <2>1. \A q \in Pid : ~owns(q)
    <3> SUFFICES ASSUME NEW q \in Pid, owns(q) PROVE FALSE
      OBVIOUS
    <3>1. pidFile = q /\ pidFile # none
      BY SingletonAssumption
    <3>2. alive(q)
      BY DEF alive
    <3> QED
      BY <1>5, <3>1, <3>2 DEF NotRunning, runStatus
  <2> QED
    BY <1>5, <2>1 DEF NotRunning
<1>6. CASE CreatePidFile(p)
  BY <1>6 DEF CreatePidFile
<1>7. CASE CreateError(p)
  BY <1>7 DEF CreateError
<1>8. CASE Verify(p)
  BY <1>8 DEF Verify
<1>9. CASE Stop(p)
  BY <1>9 DEF Stop
<1>10. CASE DeletePidFile(p)
  BY <1>10 DEF DeletePidFile
<1>11. CASE Kill(p)
  BY <1>11 DEF Kill
<1>12. CASE Restart(p)
  BY <1>12 DEF Restart
<1> QED
  BY <1>1, <1>3, <1>4, <1>5, <1>6, <1>7, <1>8, <1>9, <1>10, <1>11, <1>12

(***************************************************************************)
(* The initial states satisfy SInv.                                        *)
(***************************************************************************)
LEMMA InitSInv == Init => SInv
BY SingletonAssumption DEF Init, SInv, SingletonTypeOK, OneStarts, OwnerNamed,
   NoOwnerAtCreate, Ordered, owns, starting

(***************************************************************************)
(* Every reachable state satisfies SInv.                                   *)
(***************************************************************************)
THEOREM SingletonInvariant == Spec => []SInv
<1>1. SInv /\ [Next]_vars => SInv'
  <2> SUFFICES ASSUME SInv, [Next]_vars PROVE SInv'
    OBVIOUS
  <2>1. SingletonTypeOK'
    BY TypeStep DEF SInv
  <2>2. CASE Next
    BY <2>1, <2>2, OwnerStep DEF SInv
  <2>3. CASE UNCHANGED vars
    BY <2>1, <2>3 DEF SInv, vars, Ordered, OneStarts, OwnerNamed, NoOwnerAtCreate, owns,
       starting
  <2> QED
    BY <2>2, <2>3
<1> QED
  BY <1>1, InitSInv, PTL DEF Spec

(***************************************************************************)
(* The type invariant, for overlapping starts and failing writes as well.  *)
(***************************************************************************)
THEOREM SingletonTypeCorrect == Spec => []SingletonTypeOK
<1>1. Init => SingletonTypeOK
  BY InitSInv DEF SInv
<1> QED
  BY <1>1, TypeStep, PTL DEF Spec

(***************************************************************************)
(* Processes that start one after the other never run two at a time.       *)
(***************************************************************************)
THEOREM OnlyOneRuns == Spec => []AtMostOneRuns
<1>1. SInv => AtMostOneRuns
  BY DEF SInv, Ordered, AtMostOneRuns, OwnerNamed, owns
<1> QED
  BY <1>1, SingletonInvariant, PTL

(***************************************************************************)
(* The pid file names the process that runs.                               *)
(***************************************************************************)
THEOREM RunningIsNamed == Spec => []FileNamesRunning
<1>1. SInv => FileNamesRunning
  BY DEF SInv, Ordered, FileNamesRunning, OwnerNamed, owns
<1> QED
  BY <1>1, SingletonInvariant, PTL
=============================================================================
