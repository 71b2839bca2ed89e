----------------------------- MODULE Singleton -----------------------------
(***************************************************************************)
(* Several processes of one application on one pid file: startSingleton    *)
(* and the end of _shutdown (srvApp.go), with processes that are killed.   *)
(*                                                                         *)
(* Package app is external and modelled by its use: GetRunStatus reads the *)
(* pid file and returns the process with that pid if it is alive, nil      *)
(* otherwise; CreatePidFile writes the caller's pid, or fails;             *)
(* DeletePidFile removes the file, whoever wrote it.  cfgLock is a lock    *)
(* inside one process, so the calls of two processes interleave.           *)
(***************************************************************************)
EXTENDS Naturals, FiniteSets

CONSTANTS Pid,      \* processes
          MaxKills  \* bound: processes that are killed

none == "none"

ASSUME SingletonAssumption ==
  /\ none \notin Pid
  /\ MaxKills \in Nat

VARIABLES
  pc,        \* where a process is
  cleanPid,  \* its cleanPid
  pidFile,   \* the pid in the file, or none
  orderly,   \* no process has started while another was starting (history)
  kills

vars == <<pc, cleanPid, pidFile, orderly, kills>>

Init ==
  /\ pc = [p \in Pid |-> "off"]
  /\ cleanPid = [p \in Pid |-> TRUE]
  /\ pidFile = none
  /\ orderly = TRUE
  /\ kills = 0

\* a start that could not write the file is over when its process has ended
starting(p) == pc[p] \in {"check", "create", "verify", "failed"}
alive(p) == pc[p] \notin {"off", "exited", "killed"}
step(p, from, to) == pc[p] = from /\ pc' = [pc EXCEPT ![p] = to]

\* mutant: the process in the file is not looked for
runStatusFileOnly == pidFile # none

\* app.GetRunStatus() # nil
runStatus == pidFile # none /\ alive(pidFile)

Launch(p) ==
  /\ step(p, "off", "check")
  /\ orderly' = (orderly /\ \A q \in Pid : ~starting(q))
  /\ UNCHANGED <<cleanPid, pidFile, kills>>

\* mutant: the pid file is cleaned up whoever wrote it
AlreadyRunningCleans(p) ==
  /\ runStatus
  /\ step(p, "check", "shutdown")
  /\ UNCHANGED <<cleanPid, pidFile, orderly, kills>>

AlreadyRunning(p) ==
  /\ runStatus
  /\ step(p, "check", "shutdown")
  /\ cleanPid' = [cleanPid EXCEPT ![p] = FALSE]
  /\ UNCHANGED <<pidFile, orderly, kills>>

\* mutant: the answer of GetRunStatus is not looked at
NotRunningAnyway(p) ==
  /\ step(p, "check", "create")
  /\ UNCHANGED <<cleanPid, pidFile, orderly, kills>>

NotRunning(p) ==
  /\ ~runStatus
  /\ step(p, "check", "create")
  /\ UNCHANGED <<cleanPid, pidFile, orderly, kills>>

CreatePidFile(p) ==
  /\ step(p, "create", "verify")
  /\ pidFile' = p
  /\ UNCHANGED <<cleanPid, orderly, kills>>

\* "Error creating PID file": the process shuts down, and cleanPid stays TRUE, so
\* it removes a file that it has not written
CreateError(p) ==
  /\ step(p, "create", "failed")
  /\ UNCHANGED <<cleanPid, pidFile, orderly, kills>>

\* the second GetRunStatus: it finds some process, or "Error finding our process"
Verify(p) ==
  /\ step(p, "verify", IF runStatus THEN "running" ELSE "shutdown")
  /\ UNCHANGED <<cleanPid, pidFile, orderly, kills>>

\* a running process is asked to stop
Stop(p) ==
  /\ step(p, "running", "shutdown")
  /\ UNCHANGED <<cleanPid, pidFile, orderly, kills>>

\* the end of _shutdown; that the file cannot be removed is only logged
DeletePidFile(p) ==
  /\ step(p, "shutdown", "exited") \/ step(p, "failed", "exited")
  /\ pidFile' \in IF cleanPid[p] THEN {none, pidFile} ELSE {pidFile}
  /\ UNCHANGED <<cleanPid, orderly, kills>>

\* a crash, or SIGKILL: the file stays
Kill(p) ==
  /\ alive(p)
  /\ kills < MaxKills
  /\ kills' = kills + 1
  /\ pc' = [pc EXCEPT ![p] = "killed"]
  /\ UNCHANGED <<cleanPid, pidFile, orderly>>

\* a process that ended is started again under a pid of its own
Restart(p) ==
  /\ pc[p] \in {"exited", "killed"}
  /\ pidFile # p
  /\ pc' = [pc EXCEPT ![p] = "off"]
  /\ cleanPid' = [cleanPid EXCEPT ![p] = TRUE]
  /\ UNCHANGED <<pidFile, orderly, kills>>

Next == \E p \in Pid :
  \/ Launch(p) \/ AlreadyRunning(p) \/ NotRunning(p) \/ CreatePidFile(p)
  \/ CreateError(p) \/ Verify(p) \/ Stop(p) \/ DeletePidFile(p) \/ Kill(p)
  \/ Restart(p)

Spec == Init /\ [][Next]_vars

\* A process that can run does run; one that is never stopped runs for ever.
Progress(p) ==
  \/ AlreadyRunning(p) \/ NotRunning(p) \/ CreatePidFile(p)
  \/ CreateError(p) \/ Verify(p) \/ DeletePidFile(p)
FairSpec == Spec /\ \A p \in Pid : WF_vars(Progress(p))

-----------------------------------------------------------------------------
\* Type invariant: a process leaves the pid file alone only once it gave up.
SingletonTypeOK ==
  /\ pc \in [Pid -> {"off", "check", "create", "verify", "failed", "running",
                     "shutdown", "exited", "killed"}]
  /\ cleanPid \in [Pid -> BOOLEAN]
  /\ \A p \in Pid : cleanPid[p] \/ pc[p] \in {"shutdown", "exited", "killed"}
  /\ pidFile \in Pid \cup {none}
  /\ orderly \in BOOLEAN
  /\ kills \in 0..MaxKills

\* "attempting to make sure that it is the only such process running"
\* (srvApp.go:403): two processes never run at once, through kills that leave
\* the pid file behind, pid files that cannot be written, shutdowns and restarts, as
\* long as the starts are one after the other.
AtMostOneRuns ==
  orderly => \A p, q \in Pid : (pc[p] = "running" /\ pc[q] = "running") => p = q

\* A running process is the one the pid file names, so that the next start
\* finds it: no process on its way out takes the file with it, one that gave up or
\* one that could not write the file included, as long as starts do not overlap.
FileNamesRunning == orderly => \A p \in Pid : pc[p] = "running" => pidFile = p

\* A pid file that a killed process left behind keeps nobody from starting: a
\* process that starts when no other is alive comes to run, unless it is killed or
\* cannot write the file, or starts overlap.
StaleFileHarmless ==
  \A p \in Pid :
    (pc[p] = "check" /\ \A q \in Pid \ {p} : ~alive(q))
      ~> (pc[p] \in {"running", "failed", "killed"} \/ ~orderly)
=============================================================================
