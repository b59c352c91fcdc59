------------------------------ MODULE Supervisor ------------------------------
(***************************************************************************)
(* The daemon (src/core/daemon): it starts the business processes, watches *)
(* over them from its monitor thread, takes update requests in its main    *)
(* thread, runs the update handler (UpdateHandler.tla), and judges for     *)
(* five minutes whether the new version works.                             *)
(*                                                                         *)
(* The two threads interleave at their unlocked steps: what happens under  *)
(* m_externalMutex is one step, sleeps and flag tests lie between steps.   *)
(* child[p].pid is what m_externalPids knows of process p: "none" no       *)
(* entry, "up" a child that feeds the watchdog, "hung" one that does not,  *)
(* "exited" one nobody has waited for, "reaped" one whose exit was taken   *)
(* by a waitpid that left the entry.  child[p].stray is a copy that lost   *)
(* its entry while it ran.  Time is late (watchdog_timeout has passed      *)
(* since the last feed) and settled (300 s since m_lastNormalTime).        *)
(***************************************************************************)
EXTENDS UpdateHandler, FiniteSetsExt

CONSTANTS ProcessCount, \* business processes, in the order of the config
          RestartLimit, \* m_maxRestartCount
          FaultLimit    \* bound: faults of the environment

ASSUME ProcessAssumption == ProcessCount \in Nat \ {0}
ASSUME RestartAssumption == RestartLimit \in Nat
ASSUME FaultAssumption == FaultLimit \in Nat

VARIABLES
    child,     \* m_externalPids, m_externalWatchdogs, m_processRestartCount
    daemon,    \* the flags the two threads share
    main,      \* where performUpdate is in the main thread
    monitor,   \* where the monitor thread is in its round
    toStart,   \* what startAllProcesses has still to start
    requests,  \* bound: update requests taken
    faults     \* bound: faults so far

daemonVars == <<child, daemon, main, monitor, toStart, requests, faults>>
vars == <<handlerVars, daemonVars>>

Procs == 1 .. ProcessCount

Children == [pid : {"none", "up", "hung", "exited", "reaped"},
             stray : {"no", "up", "hung"}, late : BOOLEAN,
             restarts : 0 .. RestartLimit]

\* updating m_isUpdating, watchdog m_watchdogEnabled, check
\* m_rollbackCheckEnabled, timeout m_hasTimeoutInWindow, pid the slot of
\* m_updateProcessPid (0 is -1).
Flags == [updating : BOOLEAN, watchdog : BOOLEAN, check : BOOLEAN,
          timeout : BOOLEAN, settled : BOOLEAN, pid : Slots \cup {0}]

TypeOK ==
    /\ HandlerTypeOK
    /\ child \in [Procs -> Children]
    /\ daemon \in Flags
    /\ main \in {"loop", "waiting"}
    /\ monitor \in {"top", "starting", "judge", "stop", "fork", "test", "check"}
    /\ toStart \in SUBSET Procs
    /\ requests \in 0 .. VersionLimit
    /\ faults \in 0 .. FaultLimit

----------------------------------------------------------------------------
\* A copy of the process feeds the watchdog.
AtWork(c) == c.pid = "up" \/ c.stray = "up"

\* Heartbeats in the name of the process arrive and are taken.
Fed(c) == c.pid # "none" /\ AtWork(c)

\* startExternalProcess: a new child; an entry it overwrites is forgotten.
Started(c) == [c EXCEPT !.pid = "up", !.late = FALSE,
                        !.stray = IF c.pid \in {"up", "hung"} THEN c.pid ELSE c.stray]

\* stopExternalProcess: SIGTERM, SIGKILL; the entry goes whatever happened.
Stopped(c) == [c EXCEPT !.pid = "none"]

AllStopped == [p \in Procs |-> Stopped(child[p])]

\* mutant: one restart too many
RestartedOnceMore(c) ==
    IF c.restarts > RestartLimit THEN c
    ELSE [Started(Stopped(c)) EXCEPT !.restarts = c.restarts + 1]

\* restartExternalProcess, within m_maxRestartCount.
Restarted(c) ==
    IF c.restarts >= RestartLimit THEN c
    ELSE [Started(Stopped(c)) EXCEPT !.restarts = c.restarts + 1]

\* checkExternalProcess: a child that exited, or none.
CheckEntry(c) ==
    IF c.pid \in {"exited", "none"} THEN Restarted(Stopped(c)) ELSE c

\* mutant: the watchdog of a child that exited is not looked at
CheckLiveWatchdog(c) == IF c.late /\ c.pid # "reaped" THEN Restarted(c) ELSE c

\* checkExternalProcessWatchdog.
CheckWatchdog(c) == IF c.late THEN Restarted(c) ELSE c

\* The judgement of one process: it has no entry, or its waitpid says it has
\* exited, or its watchdog is late.  The first such process ends the search.
Abnormal(c) == c.pid \in {"none", "exited"} \/ c.late

FirstAbnormal == Min({p \in Procs : Abnormal(child[p])})

AllNormal == \A p \in Procs : ~Abnormal(child[p])

Fault == faults < FaultLimit /\ faults' = faults + 1

Boot(check) == [updating |-> FALSE, watchdog |-> TRUE, check |-> check,
                timeout |-> FALSE, settled |-> FALSE, pid |-> 0]

FreshChild == [pid |-> "up", stray |-> "no", late |-> FALSE, restarts |-> 0]

Init ==
    /\ HandlerInit
    /\ child = [p \in Procs |-> FreshChild]
    /\ daemon = Boot(FALSE)
    /\ main = "loop"
    /\ monitor = "top"
    /\ toStart = {}
    /\ requests = 0
    /\ faults = 0

----------------------------------------------------------------------------
\* handleWatchdogMessage takes all heartbeats; a message of a child that has
\* exited makes its waitpid take the exit, but leave the entry.
DrainWatchdogs ==
    \E reaped \in SUBSET {p \in Procs : child[p].pid = "exited"} :
        child' = [p \in Procs |->
            IF ~daemon.watchdog THEN child[p]
            ELSE [child[p] EXCEPT
                    !.late = IF Fed(child[p]) THEN FALSE ELSE child[p].late,
                    !.pid = IF p \in reaped \/ (child[p].pid = "exited" /\ Fed(child[p]))
                            THEN "reaped" ELSE child[p].pid]]

\* The round begins; the handler has not exited, or none was started.
NoHandlerExit ==
    /\ monitor = "top"
    /\ daemon.pid # 0 => job[daemon.pid].step \notin {"exit0", "exit1"}
    /\ DrainWatchdogs
    /\ monitor' = "judge"
    /\ UNCHANGED <<handlerVars, daemon, main, toStart, requests, faults>>

\* The handler exited with 0: the update counts as done, the watch is on again
\* and all processes are started.
HandlerSucceeded ==
    /\ monitor = "top" /\ daemon.pid # 0
    /\ job[daemon.pid].step = "exit0"
    /\ DrainWatchdogs
    /\ Reap(daemon.pid)
    /\ status' = "UPDATED"
    /\ daemon' = [daemon EXCEPT !.updating = FALSE, !.watchdog = TRUE]
    /\ toStart' = Procs
    /\ monitor' = "starting"
    /\ UNCHANGED <<files, backup, replaced, overlapped, main, requests, faults>>

\* mutant: a handler that failed leaves m_isUpdating set
FailedStillUpdating ==
    /\ monitor = "top" /\ daemon.pid # 0
    /\ job[daemon.pid].step = "exit1"
    /\ DrainWatchdogs
    /\ Reap(daemon.pid)
    /\ daemon' = [daemon EXCEPT !.watchdog = TRUE, !.pid = 0]
    /\ monitor' = "judge"
    /\ UNCHANGED <<files, backup, status, replaced, overlapped,
                   main, toStart, requests, faults>>

\* The handler failed or was killed: the watch is on again, the status stays.
HandlerFailed ==
    /\ monitor = "top" /\ daemon.pid # 0
    /\ job[daemon.pid].step = "exit1"
    /\ DrainWatchdogs
    /\ Reap(daemon.pid)
    /\ daemon' = [daemon EXCEPT !.updating = FALSE, !.watchdog = TRUE, !.pid = 0]
    /\ monitor' = "judge"
    /\ UNCHANGED <<files, backup, status, replaced, overlapped,
                   main, toStart, requests, faults>>

\* startAllProcesses starts one process after the other, without the lock.
StartNext ==
    /\ monitor = "starting" /\ toStart # {}
    /\ LET p == Min(toStart) IN
        /\ child' = [child EXCEPT ![p] = Started(child[p])]
        /\ toStart' = toStart \ {p}
    /\ UNCHANGED <<handlerVars, daemon, main, monitor, requests, faults>>

\* All are started: the judgement of the new version begins.
StartedAll ==
    /\ monitor = "starting" /\ toStart = {}
    /\ daemon' = [daemon EXCEPT !.check = TRUE, !.timeout = FALSE,
                                !.settled = FALSE, !.pid = 0]
    /\ monitor' = "judge"
    /\ UNCHANGED <<handlerVars, child, main, toStart, requests, faults>>

\* No version is being judged.
SkipJudgement ==
    /\ monitor = "judge" /\ ~daemon.check
    /\ monitor' = "test"
    /\ UNCHANGED <<handlerVars, child, daemon, main, toStart, requests, faults>>

\* mutant: DONE is recorded and the judgement goes on
NormalKeepsJudging ==
    /\ monitor = "judge" /\ daemon.check /\ AllNormal
    /\ daemon' = [daemon EXCEPT !.timeout = FALSE]
    /\ status' = IF daemon.settled THEN "none" ELSE status
    /\ monitor' = "test"
    /\ UNCHANGED <<files, backup, job, replaced, overlapped,
                   child, main, toStart, requests, faults>>

\* All processes are normal; after five minutes of it the update is DONE and
\* the status file is removed.
JudgeNormal ==
    /\ monitor = "judge" /\ daemon.check /\ AllNormal
    /\ daemon' = [daemon EXCEPT !.timeout = FALSE, !.check = ~daemon.settled]
    /\ status' = IF daemon.settled THEN "none" ELSE status
    /\ monitor' = "test"
    /\ UNCHANGED <<files, backup, job, replaced, overlapped,
                   child, main, toStart, requests, faults>>

\* A watchdog is late: performRollback begins.
JudgeTimeout ==
    /\ monitor = "judge" /\ daemon.check /\ ~AllNormal
    /\ child[FirstAbnormal].pid \notin {"none", "exited"}
    /\ daemon' = [daemon EXCEPT !.check = FALSE, !.timeout = TRUE, !.watchdog = FALSE]
    /\ monitor' = "stop"
    /\ UNCHANGED <<handlerVars, child, main, toStart, requests, faults>>

\* A watchdog is late and the first late one was long ago: a new window begins.
JudgeExpired ==
    /\ monitor = "judge" /\ daemon.check /\ ~AllNormal
    /\ child[FirstAbnormal].pid \notin {"none", "exited"}
    /\ daemon.timeout
    /\ daemon' = [daemon EXCEPT !.timeout = FALSE]
    /\ monitor' = "test"
    /\ UNCHANGED <<handlerVars, child, main, toStart, requests, faults>>

\* A process has no entry or has exited: the five minutes begin again; waitpid
\* has taken the exit and the entry stays.
JudgeAbnormal ==
    /\ monitor = "judge" /\ daemon.check /\ ~AllNormal
    /\ child[FirstAbnormal].pid \in {"none", "exited"}
    /\ child' = [child EXCEPT ![FirstAbnormal].pid =
                    IF child[FirstAbnormal].pid = "exited" THEN "reaped" ELSE "none"]
    /\ daemon' = [daemon EXCEPT !.settled = FALSE]
    /\ monitor' = "test"
    /\ UNCHANGED <<handlerVars, main, toStart, requests, faults>>

\* performRollback stops all processes and clears m_externalPids.
StopForRollback ==
    /\ monitor = "stop"
    /\ child' = AllStopped
    /\ monitor' = "fork"
    /\ UNCHANGED <<handlerVars, daemon, main, toStart, requests, faults>>

\* performRollback starts the handler, and marks the update only then.
StartRollback ==
    /\ monitor = "fork"
    /\ \E h \in Slots :
        /\ Fork(h, daemon.pid, "rollback", EmptyPackage)
        /\ daemon' = [daemon EXCEPT !.updating = TRUE, !.pid = h]
    /\ overlapped' = (overlapped \/ HandlerAtWork \/ main = "waiting")
    /\ monitor' = "test"
    /\ UNCHANGED <<status, child, main, toStart, requests, faults>>

\* The handler is not there, or the fork fails.
StartRollbackFails ==
    /\ monitor = "fork"
    /\ Fault
    /\ daemon' = [daemon EXCEPT !.watchdog = TRUE]
    /\ monitor' = "test"
    /\ UNCHANGED <<handlerVars, child, main, toStart, requests>>

\* The flags are tested before the lock is taken.
TestFlags ==
    /\ monitor = "test"
    /\ monitor' = IF ~daemon.updating /\ daemon.watchdog THEN "check" ELSE "top"
    /\ UNCHANGED <<handlerVars, child, daemon, main, toStart, requests, faults>>

\* Under the lock: checkExternalProcess and checkExternalProcessWatchdog of each.
CheckProcesses ==
    /\ monitor = "check"
    /\ child' = [p \in Procs |-> CheckWatchdog(CheckEntry(child[p]))]
    /\ LET stillLate == \E p \in Procs : CheckEntry(child[p]).late
           abnormal == \E p \in Procs : child[p].pid \in {"none", "exited"} IN
       daemon' = [daemon EXCEPT
            !.settled = daemon.settled /\ ~(daemon.check /\ (stillLate \/ abnormal)),
            !.timeout = daemon.timeout \/ (daemon.check /\ stillLate)]
    /\ monitor' = "top"
    /\ UNCHANGED <<handlerVars, main, toStart, requests, faults>>

----------------------------------------------------------------------------
\* handleUpdateRequest, main thread: a request while an update runs is dropped.
\* performUpdate sets its flags and waits for nothing but the lock before
\* stopAllProcesses.
AcceptUpdate ==
    /\ main = "loop" /\ requests < VersionLimit
    /\ ~daemon.updating
    /\ daemon' = [daemon EXCEPT !.updating = TRUE, !.watchdog = FALSE]
    /\ child' = AllStopped
    /\ requests' = requests + 1
    /\ main' = "waiting"
    /\ UNCHANGED <<handlerVars, monitor, toStart, faults>>

\* The 15 s have passed: longer than the 2 s each of at most seven processes and
\* than performRollback take in the other thread.
Waited == main = "waiting" /\ monitor \notin {"starting", "stop", "fork"}

\* UPDATING is recorded, then the handler is started.
StartUpdate ==
    /\ Waited
    /\ status' = "UPDATING"
    /\ \E h \in Slots :
        /\ Fork(h, daemon.pid, "update", [f \in Files |-> requests])
        /\ daemon' = [daemon EXCEPT !.pid = h]
    /\ overlapped' = (overlapped \/ HandlerAtWork)
    /\ main' = "loop"
    /\ UNCHANGED <<child, monitor, toStart, requests, faults>>

\* The handler is not there, or the fork fails: UPDATING stays.
StartUpdateFails ==
    /\ Waited
    /\ Fault
    /\ status' = "UPDATING"
    /\ daemon' = [daemon EXCEPT !.updating = FALSE, !.watchdog = TRUE]
    /\ main' = "loop"
    /\ UNCHANGED <<files, backup, job, replaced, overlapped,
                   child, monitor, toStart, requests>>

----------------------------------------------------------------------------
\* A business process stops feeding the watchdog.
ProcessHangs(p) ==
    /\ child[p].pid = "up"
    /\ Fault
    /\ child' = [child EXCEPT ![p].pid = "hung"]
    /\ UNCHANGED <<handlerVars, daemon, main, monitor, toStart, requests>>

\* A business process exits.
ProcessExits(p) ==
    /\ child[p].pid \in {"up", "hung"}
    /\ Fault
    /\ child' = [child EXCEPT ![p].pid = "exited"]
    /\ UNCHANGED <<handlerVars, daemon, main, monitor, toStart, requests>>

\* watchdog_timeout passes and no heartbeat was taken.  It is longer than the
\* 15 s of performUpdate, and what runs then has just been started.
WatchdogExpires(p) ==
    /\ main = "loop"
    /\ ~child[p].late
    /\ ~(daemon.watchdog /\ Fed(child[p]))
    /\ child' = [child EXCEPT ![p].late = TRUE]
    /\ UNCHANGED <<handlerVars, daemon, main, monitor, toStart, requests, faults>>

\* Five minutes pass in which every process has fed its watchdog.
FiveMinutesPass ==
    /\ daemon.check /\ daemon.watchdog /\ ~daemon.settled
    /\ \A p \in Procs : ~Abnormal(child[p]) /\ Fed(child[p])
    /\ daemon' = [daemon EXCEPT !.settled = TRUE]
    /\ UNCHANGED <<handlerVars, child, main, monitor, toStart, requests, faults>>

\* The handler of slot h works; with the 9 s of its window it takes longer than
\* the 15 s of performUpdate, in which it was forked if it is there at all.
HandlerWorks(h) ==
    /\ main = "loop" \/ job[h].step \notin {"succeeded", "failed"}
    /\ Work(h)
    /\ UNCHANGED daemonVars

HandlerCrashes(h) ==
    /\ Crash(h)
    /\ Fault
    /\ UNCHANGED <<child, daemon, main, monitor, toStart, requests>>

\* A power cut; the daemon comes up, looks at the status file (doInitialize) and
\* starts all processes (start); found UPDATING, it has a rollback going first.
Reboot ==
    /\ Fault
    /\ child' = [p \in Procs |-> FreshChild]
    /\ main' = "loop"
    /\ monitor' = "top"
    /\ toStart' = {}
    /\ IF status = "UPDATING"
       THEN \E started \in BOOLEAN :
              /\ daemon' = IF started
                           THEN [Boot(FALSE) EXCEPT !.updating = TRUE,
                                                    !.watchdog = FALSE, !.pid = 1]
                           ELSE Boot(FALSE)
              /\ job' = [h \in Slots |-> IF h = 1 /\ started
                                         THEN NewJob("rollback", EmptyPackage)
                                         ELSE NoJob]
       ELSE /\ daemon' = Boot(status = "UPDATED")
            /\ job' = [h \in Slots |-> NoJob]
    /\ UNCHANGED <<files, backup, status, replaced, overlapped, requests>>

MonitorThread ==
    \/ NoHandlerExit \/ HandlerSucceeded \/ HandlerFailed
    \/ StartNext \/ StartedAll
    \/ SkipJudgement \/ JudgeNormal \/ JudgeTimeout \/ JudgeExpired \/ JudgeAbnormal
    \/ StopForRollback \/ StartRollback \/ StartRollbackFails
    \/ TestFlags \/ CheckProcesses

MainThread == AcceptUpdate \/ StartUpdate \/ StartUpdateFails

Environment ==
    \/ \E p \in Procs : ProcessHangs(p) \/ ProcessExits(p) \/ WatchdogExpires(p)
    \/ FiveMinutesPass
    \/ \E h \in Slots : HandlerWorks(h) \/ HandlerCrashes(h)
    \/ Reboot

Next == MonitorThread \/ MainThread \/ Environment

Spec == Init /\ [][Next]_vars

(***************************************************************************)
(* The threads run on; time passes; a handler works on and its operator    *)
(* closes the window of a failure in the end.  Nothing is assumed of       *)
(* requests, failures and power cuts.                                      *)
(***************************************************************************)
Fairness ==
    /\ WF_vars(MonitorThread)
    /\ WF_vars(StartUpdate)
    /\ \A h \in Slots : WF_vars(HandlerWorks(h))
    /\ \A p \in Procs : WF_vars(WatchdogExpires(p))
    /\ WF_vars(FiveMinutesPass)

FairSpec == Spec /\ Fairness

----------------------------------------------------------------------------
\* A process that hangs, or that exits even where a waitpid took its exit and
\* started nothing, is at work again in the end, unless its restarts are used up.
ComesBack ==
    \A p \in Procs :
        ~AtWork(child[p]) ~> (AtWork(child[p]) \/ child[p].restarts = RestartLimit)

\* An update, and the judgement of what it installed, come to an end.
UpdateEnds == daemon.updating ~> ~daemon.updating

JudgementEnds ==
    daemon.check ~> \/ ~daemon.check
                    \/ \E p \in Procs : child[p].restarts = RestartLimit

\* An update that is declared done has been installed: all files are of one
\* version.  The scheme wants this from the exit code of the handler (0 for a
\* success, another for a failure), on which UPDATED is recorded.
DoneIsInstalled ==
    [][(status = "UPDATED" /\ status' = "none") =>
          \E v \in Versions : \A f \in Files : files[f] = v]_vars
=============================================================================
