--------------------------- MODULE SupervisorProofs ---------------------------
(***************************************************************************)
(* For every number of files, versions, processes, restarts, handlers and  *)
(* faults: the daemon and its update handlers keep their data typed, a     *)
(* power cut in the middle of an installation finds UPDATING in the status *)
(* file, and a rollback that reports success has restored the files.       *)
(***************************************************************************)
EXTENDS Supervisor, TLAPS

-----------------------------------------------------------------------------
(* Types.                                                                  *)

\* The package without files is a package.
LEMMA EmptyIsPackage == EmptyPackage \in Packages /\ DOMAIN EmptyPackage = {}
  BY DEF EmptyPackage, Packages

\* A backup of typed files is a package.
LEMMA BackupIsPackage ==
  ASSUME NEW fs \in [Files -> Versions \cup {Missing}]
  PROVE  /\ BackupOf(fs) \in Packages
         /\ DOMAIN BackupOf(fs) = {f \in Files : fs[f] # Missing}
         /\ \A f \in DOMAIN BackupOf(fs) : BackupOf(fs)[f] = fs[f]
<1> DEFINE S == {f \in Files : fs[f] # Missing}
<1>1. S \in SUBSET Files
  OBVIOUS
<1>2. BackupOf(fs) \in [S -> Versions]
  BY DEF BackupOf
<1> QED
  BY <1>1, <1>2 DEF Packages, BackupOf

\* What a package holds are versions of files.
LEMMA PackageFiles ==
  ASSUME NEW k \in Packages
  PROVE  DOMAIN k \in SUBSET Files /\ \A f \in DOMAIN k : k[f] \in Versions
  BY DEF Packages

\* An empty slot is a job.
LEMMA NoJobTyped == NoJob \in Jobs
  BY EmptyIsPackage DEF NoJob, Jobs, Steps

\* An empty slot and a handler just started are jobs.
LEMMA NewJobTyped ==
  ASSUME NEW op \in {"update", "rollback"}, NEW k \in Packages
  PROVE  NoJob \in Jobs /\ NewJob(op, k) \in Jobs
  BY EmptyIsPackage DEF NoJob, NewJob, Jobs, Steps, Running

\* The package of a request holds all files in the version asked for.
LEMMA RequestIsPackage ==
  ASSUME NEW v \in Versions
  PROVE  [f \in Files |-> v] \in Packages
  BY DEF Packages

\* What HandlerTypeOK rests on: what a handler has to copy is in its package.
TodoOK ==
    \A h \in Slots :
        /\ job[h].todo \subseteq DOMAIN job[h].package
        /\ job[h].step \in {"started", "verifying"} => job[h].todo = {}

\* A handler that moves to a step stays typed, and so do the others.
LEMMA MoveTyped ==
  ASSUME HandlerTypeOK, NEW h \in Slots, NEW step \in Steps, Move(h, step)
  PROVE  job' \in [Slots -> Jobs]
<1>1. [job[h] EXCEPT !.step = step] \in Jobs
  BY DEF HandlerTypeOK, Jobs
<1>2. job' = [job EXCEPT ![h] = [job[h] EXCEPT !.step = step]]
  BY DEF Move
<1> QED
  BY <1>1, <1>2 DEF HandlerTypeOK

\* A reaped slot is typed.
LEMMA ReapTyped ==
  ASSUME HandlerTypeOK, NEW h \in Slots, Reap(h)
  PROVE  job' \in [Slots -> Jobs]
  BY NewJobTyped, EmptyIsPackage DEF HandlerTypeOK, Reap

\* A handler that is forked is typed.
LEMMA ForkTyped ==
  ASSUME HandlerTypeOK, NEW h \in Slots, NEW current, NEW op \in {"update", "rollback"},
         NEW k \in Packages, Fork(h, current, op, k)
  PROVE  /\ job' \in [Slots -> Jobs]
         /\ UNCHANGED <<files, backup, replaced>>
<1>1. NoJob \in Jobs /\ NewJob(op, k) \in Jobs
  BY NewJobTyped
<1> QED
  BY <1>1 DEF HandlerTypeOK, Fork

\* The steps of a handler keep the handlers' data typed.
LEMMA WorkTyped ==
  ASSUME HandlerTypeOK, TodoOK, NEW h \in Slots, Work(h) \/ Crash(h)
  PROVE  HandlerTypeOK'
<1> USE DEF HandlerTypeOK
<1>0. {"verifying", "backup", "packing", "install", "succeeded", "failed", "exit0",
       "exit1"} \subseteq Steps
  BY DEF Steps, Running
<1>a. job[h] \in Jobs /\ job[h].package \in Packages /\ job[h].todo \in SUBSET Files
  BY DEF Jobs
<1>b. ASSUME Fail(h) PROVE job' \in [Slots -> Jobs] /\ status' = "ERROR"
  BY <1>0, <1>b, MoveTyped DEF Fail
<1>1. CASE OpenStatus(h)
  BY <1>0, <1>1, MoveTyped DEF OpenStatus
<1>2. CASE VerifyPackage(h)
  <2> DEFINE k == IF job[h].op = "rollback" THEN backup.package ELSE job[h].package
  <2>1. k \in Packages
    BY <1>a
  <2> HIDE DEF k
  <2>2. [job[h] EXCEPT !.step = "backup", !.package = k] \in Jobs
    BY <1>0, <1>a, <2>1 DEF Jobs
  <2>3. job' = [job EXCEPT ![h] = [job[h] EXCEPT !.step = "backup", !.package = k]]
    BY <1>2 DEF VerifyPackage, k
  <2> QED
    BY <1>2, <2>2, <2>3 DEF VerifyPackage
<1>3. CASE CreateBackupDir(h)
  BY <1>0, <1>3, MoveTyped, EmptyIsPackage DEF CreateBackupDir
<1>4. CASE PackBackup(h)
  <2>1. BackupFor(job[h].op) \in Packages
    BY BackupIsPackage, EmptyIsPackage DEF BackupFor
  <2>2. DOMAIN job[h].package \in SUBSET Files
    BY <1>a, PackageFiles
  <2>3. [job[h] EXCEPT !.step = "install", !.todo = DOMAIN job[h].package] \in Jobs
    BY <1>0, <1>a, <2>2 DEF Jobs
  <2>4. job' = [job EXCEPT ![h] = [job[h] EXCEPT !.step = "install",
                                                 !.todo = DOMAIN job[h].package]]
    BY <1>4 DEF PackBackup
  <2> QED
    BY <1>4, <2>1, <2>3, <2>4 DEF PackBackup
<1>5. CASE Refuse(h)
  BY <1>b, <1>5 DEF Refuse
<1>6. CASE RemoveOld(h)
  BY <1>6 DEF RemoveOld
<1>7. CASE CopyNew(h)
  <2>1. Current(h) \in job[h].todo
    BY <1>7 DEF CopyNew, Current
  <2>2. job[h].package[Current(h)] \in Versions
    BY <1>a, <2>1, PackageFiles DEF TodoOK
  <2>3. files' \in [Files -> Versions \cup {Missing}]
    BY <1>7, <2>2 DEF CopyNew
  <2>4. [job[h] EXCEPT !.todo = job[h].todo \ {Current(h)}] \in Jobs
    BY <1>a DEF Jobs
  <2>5. job' = [job EXCEPT ![h] = [job[h] EXCEPT !.todo = job[h].todo \ {Current(h)}]]
    BY <1>7 DEF CopyNew
  <2> QED
    BY <1>7, <2>3, <2>4, <2>5 DEF CopyNew
<1>8. CASE SkipFile(h)
  <2>1. [job[h] EXCEPT !.todo = job[h].todo \ {Current(h)}, !.ok = FALSE] \in Jobs
    BY <1>a DEF Jobs
  <2>2. job' = [job EXCEPT ![h] = [job[h] EXCEPT !.todo = job[h].todo \ {Current(h)},
                                                 !.ok = FALSE]]
    BY <1>8 DEF SkipFile
  <2> QED
    BY <1>8, <2>1, <2>2 DEF SkipFile
<1>9. CASE Succeed(h)
  BY <1>0, <1>9, MoveTyped DEF Succeed
<1>10. CASE FailInstall(h)
  BY <1>b, <1>10 DEF FailInstall
<1>11. CASE RollbackClicked(h)
  <2>1. NewJob("rollback", EmptyPackage) \in Jobs
    BY NewJobTyped, EmptyIsPackage
  <2> QED
    BY <1>11, <2>1 DEF RollbackClicked
<1>12. CASE CloseWindow(h)
  BY <1>0, <1>12, MoveTyped DEF CloseWindow
<1>13. CASE Crash(h)
  BY <1>0, <1>13, MoveTyped DEF Crash
<1> QED
  BY <1>1, <1>2, <1>3, <1>4, <1>5, <1>6, <1>7, <1>8, <1>9, <1>10, <1>11, <1>12, <1>13
     DEF Work

\* The steps of a handler keep what is to be copied within the package.
LEMMA WorkTodo ==
  ASSUME HandlerTypeOK, TodoOK, NEW h \in Slots, Work(h) \/ Crash(h)
  PROVE  TodoOK'
<1> USE DEF TodoOK
<1>0. job \in [Slots -> Jobs]
  BY DEF HandlerTypeOK
<1>a. job[h] \in [op : {"update", "rollback"}, step : Steps, package : Packages,
                  todo : SUBSET Files, ok : BOOLEAN]
  BY <1>0 DEF Jobs
<1>b. ASSUME NEW step \in Steps, Move(h, step), step # "started",
             step = "verifying" => job[h].step = "started"
      PROVE  TodoOK'
  BY <1>0, <1>a, <1>b DEF Move
<1>c. ASSUME Fail(h) PROVE TodoOK'
  BY <1>c, <1>b DEF Fail, Steps, Running
<1>1. CASE OpenStatus(h)
  BY <1>b, <1>1 DEF OpenStatus, Steps, Running
<1>2. CASE VerifyPackage(h)
  <2>1. job[h].todo = {} /\ job'[h].todo = {} /\ job'[h].step = "backup"
    BY <1>0, <1>a, <1>2 DEF VerifyPackage
  <2>2. \A g \in Slots \ {h} : job'[g] = job[g]
    BY <1>0, <1>2 DEF VerifyPackage
  <2> QED
    BY <2>1, <2>2
<1>3. CASE CreateBackupDir(h)
  BY <1>b, <1>3 DEF CreateBackupDir, Steps, Running
<1>4. CASE PackBackup(h)
  BY <1>0, <1>a, <1>4 DEF PackBackup
<1>5. CASE Refuse(h)
  BY <1>c, <1>5 DEF Refuse
<1>6. CASE RemoveOld(h)
  BY <1>6 DEF RemoveOld
<1>7. CASE CopyNew(h)
  BY <1>0, <1>a, <1>7 DEF CopyNew
<1>8. CASE SkipFile(h)
  BY <1>0, <1>a, <1>8 DEF SkipFile
<1>9. CASE Succeed(h)
  BY <1>b, <1>9 DEF Succeed, Steps, Running
<1>10. CASE FailInstall(h)
  BY <1>c, <1>10 DEF FailInstall
<1>11. CASE RollbackClicked(h)
  BY <1>0, <1>a, <1>11, EmptyIsPackage DEF RollbackClicked, NewJob, NoJob
<1>12. CASE CloseWindow(h)
  BY <1>b, <1>12 DEF CloseWindow, Steps, Running
<1>13. CASE Crash(h)
  BY <1>b, <1>13 DEF Crash, Steps, Running
<1> QED
  BY <1>1, <1>2, <1>3, <1>4, <1>5, <1>6, <1>7, <1>8, <1>9, <1>10, <1>11, <1>12, <1>13
     DEF Work

\* A fork keeps what is to be copied within the package.
LEMMA ForkTodo ==
  ASSUME HandlerTypeOK, TodoOK, NEW h \in Slots, NEW current, NEW op, NEW k,
         Fork(h, current, op, k)
  PROVE  TodoOK'
<1>1. \A g \in Slots : job'[g] = NewJob(op, k) \/ job'[g] = NoJob \/ job'[g] = job[g]
  BY DEF Fork
<1>2. NewJob(op, k).todo = {} /\ NoJob.todo = {}
  BY DEF NewJob, NoJob
<1> QED
  BY <1>1, <1>2 DEF TodoOK

\* A reaped slot has nothing to copy.
LEMMA ReapTodo ==
  ASSUME HandlerTypeOK, TodoOK, NEW h \in Slots, Reap(h)
  PROVE  TodoOK'
<1>1. \A g \in Slots : job'[g] = NoJob \/ job'[g] = job[g]
  BY DEF Reap, HandlerTypeOK
<1>2. NoJob.todo = {}
  BY DEF NoJob
<1> QED
  BY <1>1, <1>2 DEF TodoOK

\* What the daemon does to an entry keeps it typed.
LEMMA ChildTyped ==
  ASSUME NEW c \in Children
  PROVE  /\ Started(c) \in Children
         /\ Stopped(c) \in Children
         /\ Restarted(c) \in Children
         /\ CheckEntry(c) \in Children
         /\ CheckWatchdog(c) \in Children
<1>1. \A d \in Children : Started(d) \in Children /\ Stopped(d) \in Children
  BY DEF Started, Stopped, Children
<1>2. \A d \in Children : Restarted(d) \in Children
  <2> SUFFICES ASSUME NEW d \in Children, d.restarts < RestartLimit
               PROVE  [Started(Stopped(d)) EXCEPT !.restarts = d.restarts + 1] \in Children
    BY RestartAssumption DEF Restarted, Children
  <2>1. Started(Stopped(d)) \in Children
    BY <1>1
  <2>2. d.restarts + 1 \in 0 .. RestartLimit
    BY RestartAssumption DEF Children
  <2> QED
    BY <2>1, <2>2 DEF Children
<1> QED
  BY <1>1, <1>2 DEF CheckEntry, CheckWatchdog

\* The flags a daemon boots with are typed, and so are its children.
LEMMA BootTyped ==
  /\ \A check \in BOOLEAN : Boot(check) \in Flags
  /\ FreshChild \in Children
  BY RestartAssumption DEF Boot, Flags, FreshChild, Children

\* What the invariants below rest on.
TypeInv == TypeOK /\ TodoOK

\* The first state is typed.
LEMMA TypeInit == Init => TypeInv
<1> SUFFICES ASSUME Init PROVE TypeInv
  OBVIOUS
<1>1. daemon \in Flags
  BY DEF Init, Boot, Flags
<1>2. job \in [Slots -> Jobs]
  BY NoJobTyped DEF Init, HandlerInit
<1>3. HandlerTypeOK
  <2>1. files \in [Files -> Versions \cup {Missing}]
    BY VersionAssumption DEF Init, HandlerInit, Versions
  <2>2. backup \in [dir : {"none", "bare", "packed"}, package : Packages]
    BY EmptyIsPackage DEF Init, HandlerInit
  <2>3. replaced \in [Files -> Versions \cup {Missing}]
    BY VersionAssumption DEF Init, HandlerInit, Versions
  <2> QED
    BY <1>2, <2>1, <2>2, <2>3 DEF Init, HandlerInit, HandlerTypeOK
<1>4. TodoOK
  BY DEF Init, HandlerInit, TodoOK, NoJob
<1>5. child \in [Procs -> Children]
  BY BootTyped DEF Init
<1>6. requests \in 0 .. VersionLimit /\ faults \in 0 .. FaultLimit
  BY VersionAssumption, FaultAssumption DEF Init
<1> QED
  BY <1>1, <1>3, <1>4, <1>5, <1>6 DEF Init, TypeOK, TypeInv

\* Taking the heartbeats keeps the entries typed.
LEMMA DrainTyped ==
  ASSUME child \in [Procs -> Children], DrainWatchdogs
  PROVE  child' \in [Procs -> Children]
<1>1. PICK reaped : child' = [p \in Procs |->
            IF ~daemon.watchdog THEN child[p]
            ELSE [child[p] EXCEPT
                    !.late = IF Fed(child[p]) THEN FALSE ELSE child[p].late,
                    !.pid = IF p \in reaped \/ (child[p].pid = "exited" /\ Fed(child[p]))
                            THEN "reaped" ELSE child[p].pid]]
  BY DEF DrainWatchdogs
<1>2. ASSUME NEW p \in Procs PROVE child'[p] \in Children
  <2>1. \A late \in BOOLEAN, pid \in {"reaped", child[p].pid} :
            [child[p] EXCEPT !.late = late, !.pid = pid] \in Children
    BY DEF Children
  <2> DEFINE late == IF Fed(child[p]) THEN FALSE ELSE child[p].late
             pid == IF p \in reaped \/ (child[p].pid = "exited" /\ Fed(child[p]))
                    THEN "reaped" ELSE child[p].pid
  <2>2. late \in BOOLEAN
    <3>1. child[p].late \in BOOLEAN
      BY DEF Children
    <3> QED
      BY <3>1
  <2>3. pid \in {"reaped", child[p].pid}
    OBVIOUS
  <2>4. child'[p] = IF ~daemon.watchdog THEN child[p]
                    ELSE [child[p] EXCEPT !.late = late, !.pid = pid]
    BY <1>1
  <2> HIDE DEF late, pid
  <2> QED
    BY <2>1, <2>2, <2>3, <2>4
<1> QED
  BY <1>1, <1>2

\* A fault that is counted stays below its bound.
LEMMA FaultTyped ==
  ASSUME faults \in 0 .. FaultLimit, Fault
  PROVE  faults' \in 0 .. FaultLimit
  BY FaultAssumption DEF Fault

\* Every step keeps the data typed.
LEMMA TypeStep == TypeInv /\ [Next]_vars => TypeInv'
<1> SUFFICES ASSUME TypeOK, TodoOK, [Next]_vars
             PROVE  TypeOK' /\ TodoOK'
  BY DEF TypeInv
<1>a. HandlerTypeOK /\ child \in [Procs -> Children] /\ daemon \in Flags
      /\ faults \in 0 .. FaultLimit /\ requests \in 0 .. VersionLimit
  BY DEF TypeOK
<1>b. ASSUME UNCHANGED handlerVars PROVE HandlerTypeOK' /\ TodoOK'
  BY <1>a, <1>b DEF handlerVars, HandlerTypeOK, TodoOK, Alone
<1>c. ASSUME UNCHANGED <<files, backup, job, replaced, overlapped>>,
             status' \in {"none", "UPDATING", "UPDATED", "ERROR"}
      PROVE  HandlerTypeOK' /\ TodoOK'
  BY <1>a, <1>c DEF HandlerTypeOK, TodoOK
<1>d. ASSUME daemon.pid # 0, Reap(daemon.pid),
             UNCHANGED <<files, backup, replaced, overlapped>>,
             status' \in {"none", "UPDATING", "UPDATED", "ERROR"}
      PROVE  HandlerTypeOK' /\ TodoOK'
  <2>1. daemon.pid \in Slots
    BY <1>a, <1>d DEF Flags
  <2> QED
    BY <1>a, <1>d, <2>1, ReapTyped, ReapTodo DEF HandlerTypeOK
<1>1. CASE NoHandlerExit
  BY <1>a, <1>b, <1>1, DrainTyped DEF NoHandlerExit, TypeOK
<1>2. CASE HandlerSucceeded
  <2>1. HandlerTypeOK' /\ TodoOK'
    BY <1>2, <1>d DEF HandlerSucceeded
  <2>2. daemon' \in Flags
    BY <1>a, <1>2 DEF HandlerSucceeded, Flags
  <2> QED
    BY <1>a, <1>2, <2>1, <2>2, DrainTyped DEF HandlerSucceeded, TypeOK
<1>3. CASE HandlerFailed
  <2>1. HandlerTypeOK' /\ TodoOK'
    BY <1>a, <1>3, <1>d DEF HandlerFailed, HandlerTypeOK
  <2>2. daemon' \in Flags
    BY <1>a, <1>3 DEF HandlerFailed, Flags
  <2> QED
    BY <1>a, <1>3, <2>1, <2>2, DrainTyped DEF HandlerFailed, TypeOK
<1>4. CASE StartNext
  <2>1. child' \in [Procs -> Children]
    BY <1>a, <1>4, ChildTyped DEF StartNext
  <2> QED
    BY <1>b, <1>4, <2>1 DEF StartNext, TypeOK
<1>5. CASE StartedAll
  <2>1. daemon' \in Flags
    BY <1>a, <1>5 DEF StartedAll, Flags
  <2> QED
    BY <1>b, <1>5, <2>1 DEF StartedAll, TypeOK
<1>6. CASE SkipJudgement
  BY <1>b, <1>6 DEF SkipJudgement, TypeOK
<1>7. CASE JudgeNormal
  <2>1. daemon' \in Flags
    BY <1>a, <1>7 DEF JudgeNormal, Flags
  <2>2. status' \in {"none", "UPDATING", "UPDATED", "ERROR"}
    BY <1>a, <1>7 DEF JudgeNormal, HandlerTypeOK
  <2> QED
    BY <1>c, <1>7, <2>1, <2>2 DEF JudgeNormal, TypeOK
<1>8. CASE JudgeTimeout
  <2>1. daemon' \in Flags
    BY <1>a, <1>8 DEF JudgeTimeout, Flags
  <2> QED
    BY <1>b, <1>8, <2>1 DEF JudgeTimeout, TypeOK
<1>9. CASE JudgeExpired
  <2>1. daemon' \in Flags
    BY <1>a, <1>9 DEF JudgeExpired, Flags
  <2> QED
    BY <1>b, <1>9, <2>1 DEF JudgeExpired, TypeOK
<1>10. CASE JudgeAbnormal
  <2>1. daemon' \in Flags
    BY <1>a, <1>10 DEF JudgeAbnormal, Flags
  <2>2. child' \in [Procs -> Children]
    BY <1>a, <1>10 DEF JudgeAbnormal, Children
  <2> QED
    BY <1>b, <1>10, <2>1, <2>2 DEF JudgeAbnormal, TypeOK
<1>11. CASE StopForRollback
  BY <1>a, <1>b, <1>11, ChildTyped DEF StopForRollback, AllStopped, TypeOK
<1>12. CASE StartRollback
  <2>1. PICK h \in Slots : /\ Fork(h, daemon.pid, "rollback", EmptyPackage)
                           /\ daemon' = [daemon EXCEPT !.updating = TRUE, !.pid = h]
    BY <1>12 DEF StartRollback
  <2>2. job' \in [Slots -> Jobs] /\ UNCHANGED <<files, backup, replaced>>
    BY <1>a, <2>1, ForkTyped, EmptyIsPackage
  <2>3. overlapped' \in BOOLEAN /\ UNCHANGED status
    BY <1>12 DEF StartRollback
  <2>4. HandlerTypeOK' /\ TodoOK'
    BY <1>a, <2>1, <2>2, <2>3, ForkTodo DEF HandlerTypeOK
  <2>5. daemon' \in Flags
    BY <1>a, <2>1 DEF Flags
  <2> QED
    BY <1>12, <2>4, <2>5 DEF StartRollback, TypeOK
<1>13. CASE StartRollbackFails
  <2>1. daemon' \in Flags
    BY <1>a, <1>13 DEF StartRollbackFails, Flags
  <2> QED
    BY <1>a, <1>b, <1>13, <2>1, FaultTyped DEF StartRollbackFails, TypeOK
<1>14. CASE TestFlags
  BY <1>b, <1>14 DEF TestFlags, TypeOK
<1>15. CASE CheckProcesses
  <2>1. child' \in [Procs -> Children]
    BY <1>a, <1>15, ChildTyped DEF CheckProcesses
  <2>2. \A s, t \in BOOLEAN : [daemon EXCEPT !.settled = s, !.timeout = t] \in Flags
    BY <1>a DEF Flags
  <2>3. daemon.settled \in BOOLEAN /\ daemon.timeout \in BOOLEAN
    BY <1>a DEF Flags
  <2>4. daemon' \in Flags
    BY <1>15, <2>2, <2>3 DEF CheckProcesses
  <2> QED
    BY <1>b, <1>15, <2>1, <2>4 DEF CheckProcesses, TypeOK
<1>16. CASE AcceptUpdate
  <2>1. daemon' \in Flags
    BY <1>a, <1>16 DEF AcceptUpdate, Flags
  <2>2. child' \in [Procs -> Children]
    BY <1>a, <1>16, ChildTyped DEF AcceptUpdate, AllStopped
  <2> QED
    BY <1>a, <1>b, <1>16, <2>1, <2>2, VersionAssumption DEF AcceptUpdate, TypeOK
<1>17. CASE StartUpdate
  <2>0. [f \in Files |-> requests] \in Packages
    BY <1>a, RequestIsPackage DEF Versions
  <2>1. PICK h \in Slots : /\ Fork(h, daemon.pid, "update", [f \in Files |-> requests])
                           /\ daemon' = [daemon EXCEPT !.pid = h]
    BY <1>17 DEF StartUpdate
  <2>2. job' \in [Slots -> Jobs] /\ UNCHANGED <<files, backup, replaced>>
    BY <1>a, <2>0, <2>1, ForkTyped
  <2>3. overlapped' \in BOOLEAN /\ status' = "UPDATING"
    BY <1>17 DEF StartUpdate
  <2>4. HandlerTypeOK' /\ TodoOK'
    BY <1>a, <2>1, <2>2, <2>3, ForkTodo DEF HandlerTypeOK
  <2>5. daemon' \in Flags
    BY <1>a, <2>1 DEF Flags
  <2> QED
    BY <1>17, <2>4, <2>5 DEF StartUpdate, TypeOK
<1>18. CASE StartUpdateFails
  <2>1. daemon' \in Flags
    BY <1>a, <1>18 DEF StartUpdateFails, Flags
  <2> QED
    BY <1>a, <1>c, <1>18, <2>1, FaultTyped DEF StartUpdateFails, TypeOK
<1>19. ASSUME NEW p \in Procs, ProcessHangs(p) \/ ProcessExits(p) PROVE TypeOK' /\ TodoOK'
  <2>1. child' \in [Procs -> Children] /\ Fault
    BY <1>a, <1>19 DEF ProcessHangs, ProcessExits, Children
  <2> QED
    BY <1>a, <1>b, <1>19, <2>1, FaultTyped DEF ProcessHangs, ProcessExits, TypeOK
<1>20. ASSUME NEW p \in Procs, WatchdogExpires(p) PROVE TypeOK' /\ TodoOK'
  <2>1. child' \in [Procs -> Children]
    BY <1>a, <1>20 DEF WatchdogExpires, Children
  <2> QED
    BY <1>b, <1>20, <2>1 DEF WatchdogExpires, TypeOK
<1>21. CASE FiveMinutesPass
  <2>1. daemon' \in Flags
    BY <1>a, <1>21 DEF FiveMinutesPass, Flags
  <2> QED
    BY <1>b, <1>21, <2>1 DEF FiveMinutesPass, TypeOK
<1>22. ASSUME NEW h \in Slots, HandlerWorks(h) PROVE TypeOK' /\ TodoOK'
  BY <1>a, <1>22, WorkTyped, WorkTodo DEF HandlerWorks, daemonVars, TypeOK
<1>23. ASSUME NEW h \in Slots, HandlerCrashes(h) PROVE TypeOK' /\ TodoOK'
  BY <1>a, <1>23, WorkTyped, WorkTodo, FaultTyped DEF HandlerCrashes, TypeOK
<1>24. CASE Reboot
  <2>1. job' \in [Slots -> Jobs] /\ TodoOK'
    <3>1. \A g \in Slots : job'[g] = NoJob \/ job'[g] = NewJob("rollback", EmptyPackage)
      BY <1>24 DEF Reboot
    <3>2. DOMAIN job' = Slots /\ job' = [g \in Slots |-> job'[g]]
      BY <1>24 DEF Reboot
    <3>3. \A g \in Slots : job'[g] \in Jobs
      BY <3>1, NewJobTyped, EmptyIsPackage
    <3>4. NoJob.todo = {} /\ NewJob("rollback", EmptyPackage).todo = {}
      BY DEF NoJob, NewJob
    <3> QED
      BY <3>1, <3>2, <3>3, <3>4 DEF TodoOK
  <2>2. daemon' \in Flags
    <3>0. 1 \in Slots
      BY JobAssumption DEF Slots
    <3>1. \A check \in BOOLEAN :
            /\ Boot(check) \in Flags
            /\ [Boot(check) EXCEPT !.updating = TRUE, !.watchdog = FALSE, !.pid = 1] \in Flags
      BY <3>0, BootTyped DEF Flags
    <3> DEFINE no == FALSE
               updated == status = "UPDATED"
    <3>2. no \in BOOLEAN /\ updated \in BOOLEAN
      OBVIOUS
    <3>3. \/ daemon' = Boot(no) \/ daemon' = Boot(updated)
          \/ daemon' = [Boot(no) EXCEPT !.updating = TRUE, !.watchdog = FALSE, !.pid = 1]
      BY <1>24 DEF Reboot
    <3> HIDE DEF no, updated
    <3> QED
      BY <3>1, <3>2, <3>3
  <2> QED
    BY <1>a, <1>24, <2>1, <2>2, FaultTyped, BootTyped DEF Reboot, TypeOK, HandlerTypeOK
<1>25. CASE UNCHANGED vars
  BY <1>25, <1>b DEF vars, daemonVars, TypeOK
<1> QED
  BY <1>1, <1>2, <1>3, <1>4, <1>5, <1>6, <1>7, <1>8, <1>9, <1>10, <1>11, <1>12, <1>13,
     <1>14, <1>15, <1>16, <1>17, <1>18, <1>19, <1>20, <1>21, <1>22, <1>23, <1>24, <1>25
     DEF Next, MonitorThread, MainThread, Environment

\* The daemon and its handlers keep their data typed, whatever is interrupted.
THEOREM SupervisorTyped == Spec => []TypeOK
<1>1. TypeInv => TypeOK
  BY DEF TypeInv
<1> QED
  BY <1>1, TypeInit, TypeStep, PTL DEF Spec

-----------------------------------------------------------------------------
(* One handler at a time.                                                  *)

Active(h) == job[h].step # "none"

\* The steps between two writes of the status file.
Live == {"verifying", "backup", "packing", "install"}

\* An update is under way in the main thread or in a handler.
UnderWay == main = "waiting" \/ \E h \in Slots : Active(h)

\* Unless handlers have overlapped: the one there is is the daemon's, is waited for
\* by both threads, and what it is about to replace is recorded.
OneHandler ==
    \A h \in Slots : Active(h) =>
        /\ daemon.pid = h /\ daemon.updating
        /\ main = "loop" /\ monitor # "starting"
        /\ job[h].step \in Live => status = "UPDATING"

\* While an accepted update waits for its handler no other is accepted.
Accepted == main = "waiting" => daemon.updating

\* Nothing under way is judged to be DONE: the watchdog is off, and if the five
\* minutes of an earlier update have passed, no process is there.
NotJudged ==
    UnderWay =>
        /\ (daemon.check \/ monitor = "starting") => ~daemon.watchdog
        /\ (daemon.check /\ daemon.settled /\ monitor # "starting") =>
                \A p \in Procs : child[p].pid = "none"

RollbackUnjudged == monitor \in {"stop", "fork"} => ~daemon.check

OneInv ==
    /\ RollbackUnjudged
    /\ ~overlapped => OneHandler /\ Accepted /\ NotJudged

\* A step of a handler concerns its slot alone; what it leaves live is recorded.
LEMMA WorkOne ==
  ASSUME TypeInv, NEW h \in Slots, Work(h) \/ Crash(h),
         job[h].step \in Live => status = "UPDATING"
  PROVE  /\ Active(h)
         /\ \A g \in Slots \ {h} : job'[g] = job[g]
         /\ job'[h].step \in Live => status' = "UPDATING"
         /\ UNCHANGED overlapped
<1>0. job \in [Slots -> Jobs]
  BY DEF TypeInv, TypeOK, HandlerTypeOK
<1>a. job[h] \in [op : {"update", "rollback"}, step : Steps, package : Packages,
                  todo : SUBSET Files, ok : BOOLEAN]
  BY <1>0 DEF Jobs
<1> USE DEF Active, Live, Move
<1>b. ASSUME Fail(h)
      PROVE  job'[h].step \notin Live /\ \A g \in Slots \ {h} : job'[g] = job[g]
  BY <1>0, <1>a, <1>b DEF Fail
<1>1. CASE OpenStatus(h)
  BY <1>0, <1>a, <1>1 DEF OpenStatus
<1>2. CASE VerifyPackage(h)
  BY <1>0, <1>a, <1>2 DEF VerifyPackage
<1>3. CASE CreateBackupDir(h)
  BY <1>0, <1>a, <1>3 DEF CreateBackupDir
<1>4. CASE PackBackup(h)
  BY <1>0, <1>a, <1>4 DEF PackBackup
<1>5. CASE Refuse(h)
  BY <1>b, <1>5 DEF Refuse
<1>6. CASE RemoveOld(h)
  BY <1>6 DEF RemoveOld
<1>7. CASE CopyNew(h)
  BY <1>0, <1>a, <1>7 DEF CopyNew
<1>8. CASE SkipFile(h)
  BY <1>0, <1>a, <1>8 DEF SkipFile
<1>9. CASE Succeed(h)
  BY <1>0, <1>a, <1>9 DEF Succeed
<1>10. CASE FailInstall(h)
  BY <1>b, <1>10 DEF FailInstall
<1>11. CASE RollbackClicked(h)
  BY <1>0, <1>a, <1>11 DEF RollbackClicked, NewJob, NoJob
<1>12. CASE CloseWindow(h)
  BY <1>0, <1>a, <1>12 DEF CloseWindow
<1>13. CASE Crash(h)
  BY <1>0, <1>a, <1>13 DEF Crash, Running
<1> QED
  BY <1>1, <1>2, <1>3, <1>4, <1>5, <1>6, <1>7, <1>8, <1>9, <1>10, <1>11, <1>12, <1>13
     DEF Work

\* Where no handler but the daemon's own exists, a fork leaves the new one alone.
LEMMA ForkOne ==
  ASSUME TypeInv, NEW h \in Slots, NEW op, NEW k, Fork(h, daemon.pid, op, k), ~HandlerAtWork,
         \A g \in Slots : Active(g) => daemon.pid = g
  PROVE  /\ \A g \in Slots \ {h} : job'[g].step = "none"
         /\ job'[h].step = "started"
<1>1. job'[h] = NewJob(op, k) /\ NewJob(op, k).step = "started" /\ NoJob.step = "none"
  BY DEF Fork, NewJob, NoJob
<1>2. ASSUME NEW g \in Slots \ {h} PROVE job'[g].step = "none"
  <2>1. CASE Active(g)
    <3>1. g = daemon.pid /\ job[g].step \notin Running
      BY <2>1 DEF HandlerAtWork
    <3>2. job'[g] = NoJob
      BY <3>1 DEF Fork
    <3> QED
      BY <1>1, <3>2
  <2>2. CASE ~Active(g)
    <3>1. job'[g] = NoJob \/ job'[g] = job[g]
      BY DEF Fork
    <3> QED
      BY <1>1, <2>2, <3>1 DEF Active
  <2> QED
    BY <2>1, <2>2
<1> QED
  BY <1>1, <1>2

\* Taking the heartbeats gives no process an entry.
LEMMA DrainNone ==
  ASSUME TypeInv, DrainWatchdogs, NEW p \in Procs, child[p].pid = "none"
  PROVE  child'[p].pid = "none"
<1>1. child[p] \in [pid : {"none", "up", "hung", "exited", "reaped"},
                   stray : {"no", "up", "hung"}, late : BOOLEAN,
                   restarts : 0 .. RestartLimit]
  BY DEF TypeInv, TypeOK, Children
<1> QED
  BY <1>1 DEF DrainWatchdogs

\* There is a first business process.
LEMMA SomeProcess == 1 \in Procs
  BY ProcessAssumption DEF Procs

\* The daemon boots with the judgement as told, and without a handler.
LEMMA BootFlags ==
  ASSUME NEW check
  PROVE  Boot(check).check = check /\ Boot(check).pid = 0
  BY DEF Boot

\* At the start there is no handler.
LEMMA OneInit == Init => OneInv
<1> SUFFICES ASSUME Init PROVE OneInv
  OBVIOUS
<1>1. \A h \in Slots : ~Active(h)
  BY DEF Init, HandlerInit, NoJob, Active
<1>2. main = "loop" /\ monitor = "top"
  BY DEF Init
<1> QED
  BY <1>1, <1>2 DEF OneInv, RollbackUnjudged, OneHandler, Accepted, NotJudged, UnderWay

\* Every step keeps one handler at a time.
LEMMA OneStep == TypeInv /\ OneInv /\ [Next]_vars => OneInv'
<1> SUFFICES ASSUME TypeInv, OneInv, [Next]_vars
             PROVE  OneInv'
  OBVIOUS
<1>t. /\ job \in [Slots -> Jobs] /\ child \in [Procs -> Children]
      /\ daemon \in [updating : BOOLEAN, watchdog : BOOLEAN, check : BOOLEAN,
                      timeout : BOOLEAN, settled : BOOLEAN, pid : Slots \cup {0}]
  BY DEF TypeInv, TypeOK, HandlerTypeOK, Flags
<1>r. RollbackUnjudged
  BY DEF OneInv
<1> USE DEF RollbackUnjudged, handlerVars
<1>s. ASSUME UNCHANGED <<job, overlapped, status, main, monitor>>,
             daemon'.updating = daemon.updating, daemon'.pid = daemon.pid,
             daemon'.check = daemon.check, daemon'.watchdog = daemon.watchdog,
             daemon'.settled => daemon.settled,
             \A p \in Procs : child[p].pid = "none" => child'[p].pid = "none"
      PROVE  OneInv'
  BY <1>s, <1>r DEF OneInv, OneHandler, Accepted, NotJudged, UnderWay, Active
<1>m. ASSUME UNCHANGED <<job, overlapped, status, main>>,
             monitor # "starting", monitor' \notin {"starting", "stop", "fork"},
             daemon'.updating = daemon.updating, daemon'.pid = daemon.pid,
             daemon'.check = daemon.check, daemon'.watchdog = daemon.watchdog,
             daemon'.settled => daemon.settled,
             \A p \in Procs : child[p].pid = "none" => child'[p].pid = "none"
      PROVE  OneInv'
  BY <1>m DEF OneInv, OneHandler, Accepted, NotJudged, UnderWay, Active
<1>1. CASE NoHandlerExit
  BY <1>1, <1>m, DrainNone DEF NoHandlerExit
<1>e. ASSUME daemon.pid # 0, job[daemon.pid].step \in {"exit0", "exit1"}, Reap(daemon.pid),
             UNCHANGED overlapped, UNCHANGED main, ~overlapped
      PROVE  main' = "loop" /\ \A g \in Slots : ~Active(g)'
  <2>1. daemon.pid \in Slots /\ Active(daemon.pid)
    BY <1>t, <1>e DEF Active
  <2>2. main = "loop" /\ \A g \in Slots : Active(g) => g = daemon.pid
    BY <1>e, <2>1 DEF OneInv, OneHandler
  <2>3. \A g \in Slots : job'[g] = IF g = daemon.pid THEN NoJob ELSE job[g]
    BY <1>t, <1>e DEF Reap
  <2> QED
    BY <1>e, <2>2, <2>3 DEF Active, NoJob
<1>2. CASE HandlerSucceeded
  <2>1. UNCHANGED <<main, overlapped>> /\ monitor' = "starting"
    BY <1>2 DEF HandlerSucceeded
  <2>2. CASE overlapped
    BY <2>1, <2>2 DEF OneInv
  <2>3. CASE ~overlapped
    <3>1. main' = "loop" /\ \A g \in Slots : ~Active(g)'
      BY <1>2, <1>e, <2>3 DEF HandlerSucceeded
    <3> QED
      BY <2>1, <3>1 DEF OneInv, OneHandler, Accepted, NotJudged, UnderWay
  <2> QED
    BY <2>2, <2>3
<1>3. CASE HandlerFailed
  <2>1. UNCHANGED <<main, overlapped>> /\ monitor' = "judge"
    BY <1>3 DEF HandlerFailed
  <2>2. CASE overlapped
    BY <2>1, <2>2 DEF OneInv
  <2>3. CASE ~overlapped
    <3>1. main' = "loop" /\ \A g \in Slots : ~Active(g)'
      BY <1>3, <1>e, <2>3 DEF HandlerFailed
    <3> QED
      BY <2>1, <3>1 DEF OneInv, OneHandler, Accepted, NotJudged, UnderWay
  <2> QED
    BY <2>2, <2>3
<1>4. CASE StartNext
  BY <1>4 DEF StartNext, OneInv, OneHandler, Accepted, NotJudged, UnderWay, Active
<1>5. CASE StartedAll
  <2>1. /\ ~daemon'.settled /\ daemon'.check /\ monitor' = "judge"
        /\ daemon'.watchdog = daemon.watchdog /\ daemon'.updating = daemon.updating
        /\ UNCHANGED <<job, main, overlapped>>
    BY <1>t, <1>5 DEF StartedAll
  <2>2. CASE overlapped
    BY <2>1, <2>2 DEF OneInv
  <2>3. CASE ~overlapped
    <3>1. \A h \in Slots : ~Active(h)
      BY <1>5, <2>3 DEF OneInv, OneHandler, StartedAll
    <3>2. main = "waiting" => ~daemon.watchdog
      BY <1>5, <2>3 DEF OneInv, NotJudged, UnderWay, StartedAll
    <3> QED
      BY <2>1, <3>1, <3>2 DEF OneInv, OneHandler, Accepted, NotJudged, UnderWay, Active
  <2> QED
    BY <2>2, <2>3
<1>6. CASE SkipJudgement
  BY <1>6, <1>m DEF SkipJudgement
<1>7. CASE JudgeNormal
  <2>1. \E p \in Procs : child[p].pid # "none"
    BY <1>7, SomeProcess DEF JudgeNormal, AllNormal, Abnormal
  <2>2. CASE overlapped
    BY <1>t, <1>7, <2>2 DEF JudgeNormal, OneInv
  <2>3. CASE ~overlapped
    <3>1. daemon.settled => ~UnderWay
      BY <1>7, <2>1, <2>3 DEF JudgeNormal, OneInv, NotJudged
    <3>2. CASE daemon.settled
      BY <1>7, <3>1, <3>2 DEF JudgeNormal, OneInv, OneHandler, Accepted, NotJudged, UnderWay, Active
    <3>3. CASE ~daemon.settled
      <4>1. UNCHANGED <<job, overlapped, status, main, child>> /\ monitor' = "test"
            /\ daemon' = [daemon EXCEPT !.timeout = FALSE, !.check = TRUE]
        BY <1>7, <3>3 DEF JudgeNormal
      <4>2. daemon.check /\ monitor = "judge"
        BY <1>7 DEF JudgeNormal
      <4> QED
        BY <1>t, <1>m, <4>1, <4>2
    <3> QED
      BY <3>2, <3>3
  <2> QED
    BY <2>2, <2>3
<1>8. CASE JudgeTimeout
  BY <1>t, <1>8 DEF JudgeTimeout, OneInv, OneHandler, Accepted, NotJudged, UnderWay, Active
<1>9. CASE JudgeExpired
  BY <1>t, <1>9, <1>m DEF JudgeExpired
<1>10. CASE JudgeAbnormal
  <2>1. \A p \in Procs : child[p].pid = "none" => child'[p].pid = "none"
    BY <1>t, <1>10 DEF JudgeAbnormal, Children
  <2> QED
    BY <1>t, <1>10, <1>m, <2>1 DEF JudgeAbnormal
<1>11. CASE StopForRollback
  BY <1>t, <1>11 DEF StopForRollback, OneInv, OneHandler, Accepted, NotJudged, UnderWay, Active
<1>12. CASE StartRollback
  <2>1. PICK h \in Slots : /\ Fork(h, daemon.pid, "rollback", EmptyPackage)
                           /\ daemon' = [daemon EXCEPT !.updating = TRUE, !.pid = h]
    BY <1>12 DEF StartRollback
  <2>2. /\ ~daemon'.check /\ daemon'.updating /\ daemon'.pid = h
        /\ monitor' = "test" /\ main' = main
    BY <1>t, <1>r, <1>12, <2>1 DEF StartRollback
  <2>3. CASE overlapped'
    BY <2>2, <2>3 DEF OneInv
  <2>4. CASE ~overlapped'
    <3>1. ~overlapped /\ ~HandlerAtWork /\ main # "waiting"
      BY <1>12, <2>4 DEF StartRollback
    <3>2. main' = "loop"
      BY <2>2, <3>1 DEF TypeInv, TypeOK
    <3>3. \A g \in Slots : Active(g) => daemon.pid = g
      BY <3>1 DEF OneInv, OneHandler
    <3>4. /\ \A g \in Slots \ {h} : job'[g].step = "none"
          /\ job'[h].step = "started"
      BY <2>1, <3>1, <3>3, ForkOne
    <3> QED
      BY <2>2, <3>2, <3>4 DEF OneInv, OneHandler, Accepted, NotJudged, UnderWay, Active, Live
  <2> QED
    BY <2>3, <2>4
<1>13. CASE StartRollbackFails
  BY <1>t, <1>r, <1>13
     DEF StartRollbackFails, OneInv, OneHandler, Accepted, NotJudged, UnderWay, Active
<1>14. CASE TestFlags
  BY <1>14, <1>m DEF TestFlags
<1>15. CASE CheckProcesses
  <2>1. /\ UNCHANGED <<job, overlapped, status, main>>
        /\ monitor # "starting" /\ monitor' = "top"
        /\ daemon'.updating = daemon.updating /\ daemon'.pid = daemon.pid
        /\ daemon'.check = daemon.check /\ daemon'.watchdog = daemon.watchdog
        /\ daemon'.settled => daemon.settled
    BY <1>t, <1>15 DEF CheckProcesses
  <2>2. daemon'.settled /\ daemon.check => ~ \E p \in Procs : child[p].pid \in {"none", "exited"}
    BY <1>t, <1>15 DEF CheckProcesses
  <2>3. ~(daemon'.settled /\ daemon.check /\ \A p \in Procs : child[p].pid = "none")
    BY <2>2, SomeProcess
  <2> QED
    BY <2>1, <2>3 DEF OneInv, OneHandler, Accepted, NotJudged, UnderWay, Active
<1>16. CASE AcceptUpdate
  <2>1. /\ UNCHANGED <<job, overlapped, status, monitor>>
        /\ main' = "waiting" /\ ~daemon.updating /\ daemon'.watchdog = FALSE
        /\ daemon'.updating /\ daemon'.check = daemon.check
    BY <1>t, <1>16 DEF AcceptUpdate
  <2>2. \A p \in Procs : child'[p].pid = "none"
    BY <1>t, <1>16 DEF AcceptUpdate, AllStopped, Stopped, Children
  <2> QED
    BY <1>r, <2>1, <2>2 DEF OneInv, OneHandler, Accepted, NotJudged, UnderWay, Active
<1>17. CASE StartUpdate
  <2>1. PICK h \in Slots : /\ Fork(h, daemon.pid, "update", [f \in Files |-> requests])
                           /\ daemon' = [daemon EXCEPT !.pid = h]
    BY <1>17 DEF StartUpdate
  <2>2. /\ daemon'.pid = h /\ daemon'.updating = daemon.updating
        /\ daemon'.check = daemon.check /\ daemon'.watchdog = daemon.watchdog
        /\ daemon'.settled = daemon.settled
        /\ status' = "UPDATING" /\ main = "waiting" /\ main' = "loop"
        /\ UNCHANGED <<child, monitor>> /\ monitor \notin {"starting", "stop", "fork"}
    BY <1>t, <1>17, <2>1 DEF StartUpdate, Waited
  <2>3. CASE overlapped'
    BY <2>2, <2>3 DEF OneInv
  <2>4. CASE ~overlapped'
    <3>1. ~overlapped /\ ~HandlerAtWork
      BY <1>17, <2>4 DEF StartUpdate
    <3>2. \A g \in Slots : ~Active(g)
      BY <2>2, <3>1 DEF OneInv, OneHandler
    <3>3. /\ \A g \in Slots \ {h} : job'[g].step = "none"
          /\ job'[h].step = "started"
      BY <2>1, <3>1, <3>2, ForkOne
    <3>4. daemon'.updating
      BY <2>2, <3>1 DEF OneInv, Accepted
    <3> QED
      BY <2>2, <3>1, <3>3, <3>4 DEF OneInv, OneHandler, Accepted, NotJudged, UnderWay, Active, Live
  <2> QED
    BY <2>3, <2>4
<1>18. CASE StartUpdateFails
  <2>1. /\ UNCHANGED <<job, overlapped, monitor>> /\ main = "waiting" /\ main' = "loop"
    BY <1>18 DEF StartUpdateFails, Waited
  <2> QED
    BY <1>18, <2>1
       DEF StartUpdateFails, Waited, OneInv, OneHandler, Accepted, NotJudged, UnderWay, Active
<1>19. ASSUME NEW p \in Procs, ProcessHangs(p) \/ ProcessExits(p) \/ WatchdogExpires(p)
       PROVE  OneInv'
  <2>1. \A q \in Procs : child[q].pid = "none" => child'[q].pid = "none"
    BY <1>t, <1>19 DEF ProcessHangs, ProcessExits, WatchdogExpires, Children
  <2> QED
    BY <1>19, <1>s, <2>1 DEF ProcessHangs, ProcessExits, WatchdogExpires
<1>20. CASE FiveMinutesPass
  BY <1>t, <1>20
     DEF FiveMinutesPass, OneInv, OneHandler, Accepted, NotJudged, UnderWay, Active
<1>21. ASSUME NEW h \in Slots, Work(h) \/ Crash(h),
              UNCHANGED <<child, daemon, main, monitor>>
       PROVE  OneInv'
  <2>1. CASE overlapped
    <3>1. overlapped'
      BY <1>21, <2>1 DEF Work, OpenStatus, VerifyPackage, CreateBackupDir, PackBackup, Refuse,
         RemoveOld, CopyNew, SkipFile, Succeed, FailInstall, RollbackClicked, CloseWindow, Crash
    <3> QED
      BY <1>21, <3>1 DEF OneInv
  <2>2. CASE ~overlapped
    <3>1. job[h].step \in Live => status = "UPDATING"
      BY <2>2 DEF OneInv, OneHandler, Active, Live
    <3>2. /\ Active(h) /\ \A g \in Slots \ {h} : job'[g] = job[g]
          /\ job'[h].step \in Live => status' = "UPDATING"
      BY <1>21, <3>1, WorkOne
    <3>3. \A g \in Slots \ {h} : ~Active(g)
      BY <2>2, <3>2 DEF OneInv, OneHandler
    <3> QED
      BY <1>21, <2>2, <3>2, <3>3 DEF OneInv, OneHandler, Accepted, NotJudged, UnderWay, Active
  <2> QED
    BY <2>1, <2>2
<1>22. ASSUME NEW h \in Slots, HandlerWorks(h) \/ HandlerCrashes(h) PROVE OneInv'
  BY <1>21, <1>22 DEF HandlerWorks, HandlerCrashes, daemonVars
<1>23. CASE Reboot
  <2>1. monitor' = "top" /\ main' = "loop" /\ UNCHANGED <<overlapped, status>>
    BY <1>23 DEF Reboot
  <2>2. CASE status = "UPDATING"
    <3>1. PICK started \in BOOLEAN :
            /\ daemon' = IF started
                         THEN [Boot(FALSE) EXCEPT !.updating = TRUE,
                                                  !.watchdog = FALSE, !.pid = 1]
                         ELSE Boot(FALSE)
            /\ job' = [h \in Slots |-> IF h = 1 /\ started
                                       THEN NewJob("rollback", EmptyPackage)
                                       ELSE NoJob]
      BY <1>23, <2>2 DEF Reboot
    <3>2. ~daemon'.check
      BY <3>1 DEF Boot
    <3>3. \A h \in Slots : Active(h)' => h = 1 /\ started
      BY <3>1 DEF Active, NoJob
    <3>4. started => daemon'.pid = 1 /\ daemon'.updating
      BY <3>1 DEF Boot
    <3> QED
      BY <2>1, <2>2, <3>2, <3>3, <3>4 DEF OneInv, OneHandler, Accepted, NotJudged, UnderWay
  <2>3. CASE status # "UPDATING"
    <3>1. \A h \in Slots : ~Active(h)'
      BY <1>23, <2>3 DEF Reboot, Active, NoJob
    <3> QED
      BY <2>1, <3>1 DEF OneInv, OneHandler, Accepted, NotJudged, UnderWay
  <2> QED
    BY <2>2, <2>3
<1>24. CASE UNCHANGED vars
  BY <1>24, <1>s DEF vars, daemonVars
<1> QED
  BY <1>1, <1>2, <1>3, <1>4, <1>5, <1>6, <1>7, <1>8, <1>9, <1>10, <1>11, <1>12, <1>13,
     <1>14, <1>15, <1>16, <1>17, <1>18, <1>19, <1>20, <1>22, <1>23, <1>24
     DEF Next, MonitorThread, MainThread, Environment

\* Unless handlers overlapped, a power cut in the middle of an installation finds
\* UPDATING in the status file, whatever the judgement of an earlier update does.
THEOREM InstallRecorded == Spec => []InstallIsRecorded
<1>1. OneInv => InstallIsRecorded
  BY DEF OneInv, OneHandler, InstallIsRecorded, Alone, Active, Live
<1> QED
  BY <1>1, TypeInit, TypeStep, OneInit, OneStep, PTL DEF Spec

-----------------------------------------------------------------------------
(* A rollback restores.                                                    *)

\* A rollback package that can be used holds what the last update replaced.
BackupIsReplaced == CanRollBack => backup.package = BackupOf(replaced)

\* Unless handlers have overlapped: a rollback works on that package, and what a
\* handler has copied without a failure is there.
Copied ==
    \A h \in Slots :
        /\ (job[h].op = "rollback" /\ job[h].step \in {"backup", "packing", "install"})
              => job[h].package = BackupOf(replaced)
        /\ (job[h].step = "install" /\ job[h].ok)
              => \A f \in DOMAIN job[h].package \ job[h].todo :
                    files[f] = job[h].package[f]

RollInv == BackupIsReplaced /\ (~overlapped => Copied)

\* A step is one of a handler, or leaves the files and the backup alone and starts
\* or forgets handlers.
LEMMA StepKinds ==
  ASSUME TypeInv, [Next]_vars
  PROVE  \/ \E h \in Slots : Work(h) \/ Crash(h)
         \/ /\ UNCHANGED <<files, backup, replaced>>
            /\ overlapped => overlapped'
            /\ \A g \in Slots : job'[g] = job[g] \/ job'[g].step \in {"none", "started"}
<1> DEFINE Idle == /\ UNCHANGED <<files, backup, replaced>>
                   /\ overlapped => overlapped'
                   /\ \A g \in Slots : \/ job'[g] = job[g]
                                       \/ job'[g].step \in {"none", "started"}
<1>t. job \in [Slots -> Jobs]
  BY DEF TypeInv, TypeOK, HandlerTypeOK
<1>n. NoJob.step = "none" /\ \A op, k : NewJob(op, k).step = "started"
  BY DEF NoJob, NewJob
<1>u. UNCHANGED handlerVars => Idle
  BY DEF handlerVars
<1>k. UNCHANGED <<files, backup, job, replaced, overlapped>> => Idle
  OBVIOUS
<1>r. ASSUME Reap(daemon.pid), UNCHANGED <<files, backup, replaced, overlapped>> PROVE Idle
  BY <1>t, <1>n, <1>r DEF Reap
<1>f. ASSUME NEW h \in Slots, NEW op, NEW k, Fork(h, daemon.pid, op, k), overlapped => overlapped'
      PROVE  Idle
  <2>1. \A g \in Slots : job'[g] = NewJob(op, k) \/ job'[g] = NoJob \/ job'[g] = job[g]
    BY <1>f DEF Fork
  <2> QED
    BY <1>n, <1>f, <2>1 DEF Fork
<1> SUFFICES (\E h \in Slots : Work(h) \/ Crash(h)) \/ Idle
  OBVIOUS
<1> HIDE DEF Idle
<1>1. CASE MonitorThread
  <2>1. CASE HandlerSucceeded \/ HandlerFailed
    BY <1>r, <2>1 DEF HandlerSucceeded, HandlerFailed
  <2>2. CASE JudgeNormal
    BY <1>k, <2>2 DEF JudgeNormal
  <2>3. CASE StartRollback
    BY <1>f, <2>3 DEF StartRollback
  <2>4. CASE NoHandlerExit \/ StartNext \/ StartedAll \/ SkipJudgement \/ JudgeTimeout
             \/ JudgeExpired \/ JudgeAbnormal \/ StopForRollback \/ StartRollbackFails
             \/ TestFlags \/ CheckProcesses
    BY <1>u, <2>4 DEF NoHandlerExit, StartNext, StartedAll, SkipJudgement, JudgeTimeout,
       JudgeExpired, JudgeAbnormal, StopForRollback, StartRollbackFails, TestFlags,
       CheckProcesses
  <2> QED
    BY <1>1, <2>1, <2>2, <2>3, <2>4 DEF MonitorThread
<1>2. CASE MainThread
  <2>1. CASE AcceptUpdate
    BY <1>u, <2>1 DEF AcceptUpdate
  <2>2. CASE StartUpdate
    BY <1>f, <2>2 DEF StartUpdate
  <2>3. CASE StartUpdateFails
    BY <1>k, <2>3 DEF StartUpdateFails
  <2> QED
    BY <1>2, <2>1, <2>2, <2>3 DEF MainThread
<1>3. CASE Environment
  <2>1. ASSUME NEW p \in Procs, ProcessHangs(p) \/ ProcessExits(p) \/ WatchdogExpires(p)
        PROVE  Idle
    BY <1>u, <2>1 DEF ProcessHangs, ProcessExits, WatchdogExpires
  <2>2. CASE FiveMinutesPass
    BY <1>u, <2>2 DEF FiveMinutesPass
  <2>3. ASSUME NEW h \in Slots, HandlerWorks(h) \/ HandlerCrashes(h)
        PROVE  Work(h) \/ Crash(h)
    BY <2>3 DEF HandlerWorks, HandlerCrashes
  <2>4. CASE Reboot
    <3>1. UNCHANGED <<files, backup, replaced, overlapped>>
      BY <2>4 DEF Reboot
    <3>2. \A g \in Slots : job'[g] = NoJob \/ job'[g] = NewJob("rollback", EmptyPackage)
      BY <2>4 DEF Reboot
    <3> QED
      BY <1>n, <3>1, <3>2 DEF Idle
  <2> QED
    BY <1>3, <2>1, <2>2, <2>3, <2>4 DEF Environment
<1>4. CASE UNCHANGED vars
  BY <1>u, <1>4 DEF vars
<1> QED
  BY <1>1, <1>2, <1>3, <1>4 DEF Next

\* At the start there is no backup and no handler.
LEMMA RollInit == Init => RollInv
<1> SUFFICES ASSUME Init PROVE RollInv
  OBVIOUS
<1>1. \A h \in Slots : job[h].step = "none"
  BY DEF Init, HandlerInit, NoJob
<1>2. ~CanRollBack
  BY DEF Init, HandlerInit, CanRollBack
<1> QED
  BY <1>1, <1>2 DEF RollInv, BackupIsReplaced, Copied

\* A step of the only handler keeps what it has copied, and the backup what it is.
LEMMA WorkRoll ==
  ASSUME TypeInv, RollInv, NEW h \in Slots, Work(h) \/ Crash(h),
         ~overlapped => \A g \in Slots \ {h} : job[g].step = "none"
  PROVE  RollInv'
<1>0. /\ job \in [Slots -> Jobs] /\ files \in [Files -> Versions \cup {Missing}]
      /\ \A g \in Slots : job[g].todo \subseteq DOMAIN job[g].package
  BY DEF TypeInv, TypeOK, HandlerTypeOK, TodoOK
<1>a. job[h] \in [op : {"update", "rollback"}, step : Steps, package : Packages,
                  todo : SUBSET Files, ok : BOOLEAN]
  BY <1>0 DEF Jobs
<1>b. BackupIsReplaced /\ (~overlapped => Copied)
  BY DEF RollInv
<1> USE DEF Move
\* Steps that move the handler out of the installation or not into it.
<1>m. ASSUME NEW step \in Steps, Move(h, step), step # "install",
             step = "packing" => job[h].step = "backup", step # "backup",
             UNCHANGED <<files, replaced, overlapped>>,
             UNCHANGED backup \/ ~CanRollBack'
      PROVE  RollInv'
  <2>1. job'[h] = [job[h] EXCEPT !.step = step] /\ \A g \in Slots \ {h} : job'[g] = job[g]
    BY <1>0, <1>m
  <2>2. BackupIsReplaced'
    BY <1>b, <1>m DEF BackupIsReplaced, CanRollBack, BackupOf
  <2>3. ~overlapped => Copied'
    BY <1>a, <1>b, <1>m, <2>1 DEF Copied, BackupOf
  <2> QED
    BY <1>m, <2>2, <2>3 DEF RollInv
\* What has to be shown of the handler alone.
<1>c. ASSUME \A g \in Slots \ {h} : job'[g] = job[g],
             ~overlapped =>
               /\ (job'[h].op = "rollback" /\ job'[h].step \in {"backup", "packing", "install"})
                    => job'[h].package = BackupOf(replaced')
               /\ (job'[h].step = "install" /\ job'[h].ok)
                    => \A f \in DOMAIN job'[h].package \ job'[h].todo :
                          files'[f] = job'[h].package[f]
      PROVE  ~overlapped => Copied'
  BY <1>c DEF Copied, BackupOf
<1>s. {"verifying", "packing", "succeeded", "failed", "exit0", "exit1"} \subseteq Steps
  BY DEF Steps, Running
<1>1. CASE OpenStatus(h)
  BY <1>m, <1>s, <1>1 DEF OpenStatus
<1>2. CASE VerifyPackage(h)
  <2>1. /\ \A g \in Slots \ {h} : job'[g] = job[g]
        /\ job'[h].step = "backup" /\ job'[h].op = job[h].op
        /\ job[h].op = "rollback" => job'[h].package = backup.package /\ CanRollBack
    BY <1>0, <1>a, <1>2 DEF VerifyPackage
  <2>2. BackupIsReplaced'
    BY <1>b, <1>2 DEF VerifyPackage, BackupIsReplaced, CanRollBack, BackupOf
  <2>3. ~overlapped => Copied'
    <3>1. job'[h].op = "rollback" => job'[h].package = BackupOf(replaced')
      BY <1>b, <1>2, <2>1 DEF VerifyPackage, BackupIsReplaced
    <3> QED
      BY <1>c, <2>1, <3>1
  <2> QED
    BY <1>2, <2>2, <2>3 DEF VerifyPackage, RollInv
<1>3. CASE CreateBackupDir(h)
  BY <1>m, <1>s, <1>3 DEF CreateBackupDir, CanRollBack
<1>4. CASE PackBackup(h)
  <2>1. /\ \A g \in Slots \ {h} : job'[g] = job[g]
        /\ job'[h].step = "install" /\ job'[h].op = job[h].op
        /\ job'[h].package = job[h].package /\ job'[h].todo = DOMAIN job'[h].package
    BY <1>0, <1>a, <1>4 DEF PackBackup
  <2>2. BackupIsReplaced'
    BY <1>a, <1>4, EmptyIsPackage
       DEF PackBackup, BackupIsReplaced, CanRollBack, BackupFor, BackupOf
  <2>3. job[h].op = "rollback" => replaced' = replaced
    BY <1>4 DEF PackBackup
  <2>4. ~overlapped => Copied'
    <3>1. ASSUME ~overlapped, job'[h].op = "rollback"
          PROVE  job'[h].package = BackupOf(replaced')
      BY <1>b, <1>4, <2>1, <2>3, <3>1 DEF PackBackup, Copied
    <3> QED
      BY <1>c, <2>1, <3>1
  <2> QED
    BY <1>4, <2>2, <2>4 DEF PackBackup, RollInv
<1>5. CASE Refuse(h)
  BY <1>m, <1>s, <1>5 DEF Refuse, Fail
<1>6. CASE RemoveOld(h)
  <2>1. Current(h) \in job[h].todo
    BY <1>6 DEF RemoveOld, Current
  <2>2. \A f \in Files \ job[h].todo : files'[f] = files[f]
    BY <1>0, <1>6, <2>1 DEF RemoveOld
  <2>3. DOMAIN job[h].package \subseteq Files
    BY <1>a, PackageFiles
  <2>4. BackupIsReplaced'
    BY <1>b, <1>6 DEF RemoveOld, BackupIsReplaced, CanRollBack, BackupOf
  <2>5. ~overlapped => Copied'
    BY <1>b, <1>6, <2>2, <2>3 DEF RemoveOld, Copied, BackupOf
  <2> QED
    BY <1>6, <2>4, <2>5 DEF RemoveOld, RollInv
<1>7. CASE CopyNew(h)
  <2>0. Current(h) \in job[h].todo
    BY <1>7 DEF CopyNew, Current
  <2>1. DOMAIN job[h].package \subseteq Files
    BY <1>a, PackageFiles
  <2>2. /\ files'[Current(h)] = job[h].package[Current(h)]
        /\ \A f \in Files \ {Current(h)} : files'[f] = files[f]
    BY <1>0, <1>a, <1>7, <2>0 DEF CopyNew
  <2>3. /\ \A g \in Slots \ {h} : job'[g] = job[g]
        /\ job'[h].step = job[h].step /\ job'[h].op = job[h].op /\ job'[h].ok = job[h].ok
        /\ job'[h].package = job[h].package /\ job'[h].todo = job[h].todo \ {Current(h)}
    BY <1>0, <1>a, <1>7 DEF CopyNew
  <2>4. BackupIsReplaced'
    BY <1>b, <1>7 DEF CopyNew, BackupIsReplaced, CanRollBack, BackupOf
  <2>5. ~overlapped => Copied'
    BY <1>b, <1>7, <2>1, <2>2, <2>3 DEF CopyNew, Copied, BackupOf
  <2> QED
    BY <1>7, <2>4, <2>5 DEF CopyNew, RollInv
<1>8. CASE SkipFile(h)
  <2>1. /\ \A g \in Slots \ {h} : job'[g] = job[g]
        /\ job'[h].step = job[h].step /\ job'[h].op = job[h].op /\ ~job'[h].ok
        /\ job'[h].package = job[h].package
    BY <1>0, <1>a, <1>8 DEF SkipFile
  <2>2. BackupIsReplaced'
    BY <1>b, <1>8 DEF SkipFile, BackupIsReplaced, CanRollBack, BackupOf
  <2>3. ~overlapped => Copied'
    <3>1. ASSUME ~overlapped, job'[h].op = "rollback"
          PROVE  job'[h].package = BackupOf(replaced')
      BY <1>b, <1>8, <2>1, <3>1 DEF SkipFile, Copied
    <3> QED
      BY <1>c, <2>1, <3>1
  <2> QED
    BY <1>8, <2>2, <2>3 DEF SkipFile, RollInv
<1>9. CASE Succeed(h)
  BY <1>m, <1>s, <1>9 DEF Succeed
<1>10. CASE FailInstall(h)
  BY <1>m, <1>s, <1>10 DEF FailInstall, Fail
<1>11. CASE RollbackClicked(h)
  <2>1. /\ \A g \in Slots \ {h} : job'[g] = job[g]
        /\ job'[h].step = "started"
    BY <1>0, <1>11 DEF RollbackClicked, NewJob, NoJob
  <2> QED
    BY <1>b, <1>11, <2>1
       DEF RollbackClicked, RollInv, Copied, BackupIsReplaced, CanRollBack, BackupOf
<1>12. CASE CloseWindow(h)
  BY <1>m, <1>s, <1>12 DEF CloseWindow
<1>13. CASE Crash(h)
  BY <1>m, <1>s, <1>13 DEF Crash
<1> QED
  BY <1>1, <1>2, <1>3, <1>4, <1>5, <1>6, <1>7, <1>8, <1>9, <1>10, <1>11, <1>12, <1>13
     DEF Work

\* A handler at work is the only one, unless handlers overlapped.
LEMMA Unique ==
  ASSUME OneInv, ~overlapped, NEW h \in Slots, Active(h)
  PROVE  \A g \in Slots \ {h} : job[g].step = "none"
  BY DEF OneInv, OneHandler, Active

\* Every step keeps what a rollback rests on.
LEMMA RollStep == TypeInv /\ OneInv /\ RollInv /\ [Next]_vars => RollInv'
<1> SUFFICES ASSUME TypeInv, OneInv, RollInv, [Next]_vars
             PROVE  RollInv'
  OBVIOUS
<1>1. ASSUME NEW h \in Slots, Work(h) \/ Crash(h) PROVE RollInv'
  <2>1. ~overlapped => Active(h)
    BY <1>1, WorkOne DEF OneInv, OneHandler, Active, Live
  <2> QED
    BY <1>1, <2>1, Unique, WorkRoll
<1>2. CASE /\ UNCHANGED <<files, backup, replaced>>
           /\ overlapped => overlapped'
           /\ \A g \in Slots : job'[g] = job[g] \/ job'[g].step \in {"none", "started"}
  BY <1>2 DEF RollInv, BackupIsReplaced, CanRollBack, BackupOf, Copied
<1> QED
  BY <1>1, <1>2, StepKinds

\* A rollback succeeds only with everything copied: what the last update replaced
\* is there again.
LEMMA RollbackStep ==
  ASSUME TypeInv, OneInv, RollInv, [Next]_vars, NEW h \in Slots, ~overlapped,
         job[h].op = "rollback", job[h].step = "install", job'[h].step = "succeeded"
  PROVE  Restored
<1>1. PICK g \in Slots : Work(g) \/ Crash(g)
  BY StepKinds
<1>2. g = h
  <2>1. job[g].step \in Live => status = "UPDATING"
    BY DEF OneInv, OneHandler, Active, Live
  <2>2. Active(g)
    BY <1>1, <2>1, WorkOne
  <2> QED
    BY <2>2, Unique
<1>3. job[h].todo = {} /\ job[h].ok
  <2>1. job \in [Slots -> Jobs] /\ job[h] \in [op : {"update", "rollback"}, step : Steps,
            package : Packages, todo : SUBSET Files, ok : BOOLEAN]
    BY DEF TypeInv, TypeOK, HandlerTypeOK, Jobs
  <2>2. CASE Succeed(h)
    BY <2>2 DEF Succeed
  <2>3. CASE RemoveOld(h) \/ CopyNew(h) \/ SkipFile(h) \/ FailInstall(h) \/ Crash(h)
    BY <2>1, <2>3 DEF RemoveOld, CopyNew, SkipFile, FailInstall, Fail, Crash, Move
  <2> QED
    BY <1>1, <1>2, <2>2, <2>3 DEF Work, OpenStatus, VerifyPackage, CreateBackupDir, PackBackup,
       Refuse, RollbackClicked, CloseWindow
<1>4. /\ job[h].package = BackupOf(replaced)
      /\ \A f \in DOMAIN job[h].package : files[f] = job[h].package[f]
  BY <1>3 DEF RollInv, Copied
<1>5. replaced \in [Files -> Versions \cup {Missing}]
  BY DEF TypeInv, TypeOK, HandlerTypeOK
<1> QED
  BY <1>4, <1>5, BackupIsPackage DEF Restored

\* Unless handlers overlapped, a rollback that reports success has put back what the
\* last update replaced, however often updates and rollbacks were interrupted.
THEOREM RollbackIsFaithful == Spec => RollbackRestores
<1>1. TypeInv /\ OneInv /\ RollInv /\ [Next]_vars =>
        [\A h \in Slots :
           (/\ job[h].op = "rollback" /\ job[h].step = "install"
            /\ job'[h].step = "succeeded" /\ ~overlapped) => Restored]_handlerVars
  BY RollbackStep
<1> QED
  BY <1>1, TypeInit, TypeStep, OneInit, OneStep, RollInit, RollStep, PTL
     DEF Spec, RollbackRestores
=============================================================================
