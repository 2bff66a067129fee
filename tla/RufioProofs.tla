---------------------------- MODULE RufioProofs ----------------------------
(***************************************************************************)
(* Types, one Task at a time, and the actions in their order, for every    *)
(* number of Tasks, every list of actions and every bound.                 *)
(***************************************************************************)
EXTENDS RufioInvariants, KubeStoreProofs, FiniteSetTheorems, TLAPS

(***************************************************************************)
(* Types.                                                                  *)
(***************************************************************************)

\* A patch of the Job's status leaves a window of Jobs.
LEMMA PatchJobType ==
  ASSUME TypeOK, NEW base \in JobObject, NEW new \in JobObject,
         PatchJob(base, new)
  PROVE  jobVersions' \in Seq(JobObject) /\ Len(jobVersions') >= 1
<1>1. TheJob \in JobObject
  BY EndsOfWindow DEF TypeOK, ClusterTypeOK, TheJob
<1>2. [conds    |-> Merge(base.conds, new.conds, TheJob.conds),
       finished |-> Merge(base.finished, new.finished, TheJob.finished)]
        \in JobObject
  BY <1>1 DEF JobObject, Merge
<1>. QED
  BY <1>2, PutWindow DEF PatchJob, TypeOK, ClusterTypeOK

\* So does the creation of a Task or a patch of its status, for the Tasks.
LEMMA PutTaskType ==
  ASSUME TypeOK, NEW i \in Index, NEW task \in TaskObject, PutTask(i, task)
  PROVE  taskVersions' \in Seq([Index -> TaskObject]) /\ Len(taskVersions') >= 1
<1>1. TheTasks \in [Index -> TaskObject]
  BY EndsOfWindow DEF TypeOK, ClusterTypeOK, TheTasks
<1>2. [TheTasks EXCEPT ![i] = task] \in [Index -> TaskObject]
  BY <1>1
<1>. QED
  BY <1>2, PutWindow DEF PutTask, TypeOK, ClusterTypeOK

\* And the patch of a Task's status keeps the type of each of its fields.
LEMMA PatchTaskType ==
  ASSUME TypeOK, NEW i \in Index, NEW base \in TaskObject,
         NEW new \in TaskObject, PatchTask(i, base, new)
  PROVE  taskVersions' \in Seq([Index -> TaskObject]) /\ Len(taskVersions') >= 1
<1>1. TheTasks \in [Index -> TaskObject]
  BY EndsOfWindow DEF TypeOK, ClusterTypeOK, TheTasks
<1>2. [exists  |-> TheTasks[i].exists,
       started |-> Merge(base.started, new.started, TheTasks[i].started),
       conds   |-> Merge(base.conds, new.conds, TheTasks[i].conds)]
        \in TaskObject
  BY <1>1 DEF TaskObject, Merge
<1>. QED
  BY <1>2, PutTaskType DEF PatchTask

\* The index JobPicksNext computes is that of a Task of the Job.
LEMMA CountType ==
  /\ CompletedTasksCount \in 0..NumTasks
  /\ CompletedTasksCount # NumTasks => CompletedTasksCount \in Index
<1>. DEFINE C == {i \in Listed : HasCompleted(i)}
<1>1. C \in SUBSET Index
  BY DEF Listed
<1>2. IsFiniteSet(Index) /\ Cardinality(Index) = NumTasks
  BY FS_Interval, ClusterAssumption DEF Index
<1>3. Cardinality(C) \in Nat /\ Cardinality(C) <= NumTasks
  BY <1>1, <1>2, FS_Subset, FS_CardinalityType
<1>. QED
  BY <1>3, ClusterAssumption DEF CompletedTasksCount, Index

\* Every step of the Job controller preserves the types of its state.
LEMMA JobStepType == TypeOK /\ JobStep => TypeOK'
<1>. SUFFICES ASSUME TypeOK, JobStep PROVE TypeOK'
  OBVIOUS
<1>. USE DEF TypeOK, ClusterTypeOK, JobControllerTypeOK
<1>0. TaskControllerTypeOK'
  BY DEF JobStep, taskVars, history, TaskControllerTypeOK, BmcTypeOK
<1>a. IdleJobRecord \in JobRecord
  BY ClusterAssumption DEF IdleJobRecord, JobRecord, NewJob, JobObject, Index
<1>b. ASSUME NEW job \in JobObject, NEW c \in {"Running", "Completed", "Failed"}
      PROVE  JobStatusSet(job, c) \in JobObject
  BY DEF JobStatusSet, JobObject
<1>c. ASSUME NEW new \in JobObject, NEW withError \in BOOLEAN,
             JobWillPatch(new, withError)
      PROVE  jobRec' \in JobRecord
  <2>1. 0 \in Index
    BY ClusterAssumption DEF Index
  <2>. QED
    BY <1>c, <2>1 DEF JobWillPatch, JobRecord
<1>d. jobRec.new \in JobObject /\ jobRec.base \in JobObject
      /\ jobRec.index \in Index /\ jobRec.fails \in BOOLEAN
  BY DEF JobRecord
<1>e. NewTask \in TaskObject
  BY DEF NewTask, TaskObject
<1>1. CASE JobIgnored
  BY <1>0, <1>1 DEF JobIgnored
<1>2. CASE JobStarts
  <2>1. Cached(jobVersions) \in JobObject
    BY EndsOfWindow
  <2>. QED
    BY <1>0, <1>2, <1>b, <2>1 DEF JobStarts, JobRecord
<1>3. CASE JobWaits
  BY <1>0, <1>3, <1>a DEF JobWaits, JobReturns
<1>4. CASE JobSeesFailure
  BY <1>0, <1>4, <1>b, <1>c, <1>d DEF JobSeesFailure, clusterVars
<1>5. CASE JobCompletes
  <2>1. [JobStatusSet(jobRec.new, "Completed") EXCEPT !.finished = TRUE]
          \in JobObject
    BY <1>b, <1>d DEF JobObject
  <2>. QED
    BY <1>0, <1>5, <1>c, <2>1 DEF JobCompletes, clusterVars
<1>6. CASE JobPicksNext
  BY <1>0, <1>6, CountType DEF JobPicksNext, clusterVars, JobRecord
<1>7. CASE JobCreatesTask
  BY <1>0, <1>7, <1>c, <1>d, <1>e, PutTaskType DEF JobCreatesTask, TaskCreated
<1>8. CASE JobCreateConflicts
  BY <1>0, <1>8, <1>b, <1>c, <1>d DEF JobCreateConflicts, clusterVars
<1>9. CASE JobPatches
  BY <1>0, <1>9, <1>a, <1>d, PatchJobType DEF JobPatches, JobReturns
<1>10. CASE JobLookupFails
  BY <1>0, <1>10, <1>a, ClusterAssumption DEF JobLookupFails, JobReturns, Fault
<1>11. CASE JobCreateFails
  <2>1. taskVersions' \in Seq([Index -> TaskObject]) /\ Len(taskVersions') >= 1
    BY <1>11, <1>d, <1>e, PutTaskType DEF JobCreateFails, TaskCreated
  <2>2. jobRec' \in JobRecord
    BY <1>11, <1>b, <1>c, <1>d DEF JobCreateFails
  <2>. QED
    BY <1>0, <1>11, <2>1, <2>2, ClusterAssumption DEF JobCreateFails, Fault
<1>12. CASE JobPatchFails
  <2>1. jobVersions' \in Seq(JobObject) /\ Len(jobVersions') >= 1
    BY <1>12, <1>d, PatchJobType DEF JobPatchFails
  <2>. QED
    BY <1>0, <1>12, <1>a, <2>1, ClusterAssumption
       DEF JobPatchFails, JobReturns, Fault
<1>. QED
  BY <1>1, <1>2, <1>3, <1>4, <1>5, <1>6, <1>7, <1>8, <1>9, <1>10, <1>11, <1>12
     DEF JobStep, JobWork, JobFaults

\* Every step of the Task controller preserves the types of its state.
LEMMA TaskStepType ==
  ASSUME TypeOK, NEW i \in Index, TaskStep(i)
  PROVE  TypeOK'
<1>. USE DEF TypeOK, ClusterTypeOK, TaskControllerTypeOK
<1>0. JobControllerTypeOK'
  BY DEF TaskStep, JobControllerTypeOK
<1>a. ASSUME NEW again \in BOOLEAN, TaskReturns(i, again)
      PROVE  taskRec' \in [Index -> TaskRecord] /\ taskQueued' \in SUBSET Index
  BY <1>a DEF TaskReturns, IdleTaskRecord, TaskRecord, NoTask, TaskObject
<1>b. ASSUME NEW task \in TaskObject, NEW c \in {"Completed", "Failed"}
      PROVE  TaskStatusSet(task, c) \in TaskObject
  BY DEF TaskStatusSet, TaskObject
<1>c. ASSUME NEW new \in TaskObject, NEW withError \in BOOLEAN,
             TaskWillPatch(i, new, withError)
      PROVE  /\ taskRec' \in [Index -> TaskRecord]
             /\ UNCHANGED <<jobVersions, taskVersions, jobQueued, taskQueued>>
  <2>1. taskRec' = [taskRec EXCEPT ![i] = [taskRec[i] EXCEPT
                      !.step = "patch", !.new = new, !.fails = withError]]
    BY <1>c DEF TaskWillPatch
  <2>2. [taskRec[i] EXCEPT !.step = "patch", !.new = new, !.fails = withError]
          \in TaskRecord
    BY <1>c DEF TaskRecord
  <2>. QED
    BY <1>c, <2>1, <2>2 DEF TaskWillPatch
<1>d. taskRec[i].base \in TaskObject /\ taskRec[i].new \in TaskObject
      /\ taskRec[i].fails \in BOOLEAN
  BY DEF TaskRecord
<1>e. Cached(taskVersions) \in [Index -> TaskObject]
  BY EndsOfWindow
<1>f. Started(taskRec[i].base) \in TaskObject
  BY <1>d DEF Started, TaskObject
<1>g. ASSUME Fault PROVE faults' \in 0..MaxFaults
  BY <1>g, ClusterAssumption DEF Fault
<1>h. Effects(Action[i]) \subseteq Powers
  BY DEF Effects, Powers, BmcTypeOK
<1>i. ASSUME Sent(i) PROVE lastRun' \in Index /\ repeated' \in SUBSET Index
  BY <1>i DEF Sent
<1>j. ASSUME TaskPatched(i)
      PROVE  /\ taskVersions' \in Seq([Index -> TaskObject])
             /\ Len(taskVersions') >= 1
             /\ expired' \in SUBSET Index
  BY <1>d, <1>j, PatchTaskType DEF TaskPatched
<1>1. CASE TaskIgnored(i)
  BY <1>0, <1>1 DEF TaskIgnored, taskVars, history, BmcTypeOK
<1>2. CASE TaskStarts(i)
  <2>1. taskRec' \in [Index -> TaskRecord]
    BY <1>2, <1>e DEF TaskStarts, TaskRecord
  <2>. QED
    BY <1>0, <1>2, <2>1 DEF TaskStarts, history, BmcTypeOK
<1>3. CASE TaskTimesOut(i)
  BY <1>0, <1>3, <1>b, <1>c, <1>d DEF TaskTimesOut, history, BmcTypeOK
<1>4. CASE TaskStillPending(i)
  BY <1>0, <1>4, <1>a DEF TaskStillPending, history, BmcTypeOK
<1>5. CASE TaskCompletes(i)
  BY <1>0, <1>5, <1>b, <1>c, <1>d DEF TaskCompletes, history, BmcTypeOK
<1>6. CASE TaskRuns(i)
  BY <1>0, <1>6, <1>c, <1>f, <1>h, <1>i DEF TaskRuns, BmcTypeOK
<1>7. CASE TaskPatches(i)
  BY <1>0, <1>7, <1>a, <1>d, <1>j DEF TaskPatches, history, BmcTypeOK
<1>8. CASE TaskSecretFails(i)
  BY <1>0, <1>8, <1>a, <1>g DEF TaskSecretFails, history, BmcTypeOK
<1>9. CASE TaskConnectFails(i)
  BY <1>0, <1>9, <1>b, <1>c, <1>d, <1>g DEF TaskConnectFails, history, BmcTypeOK
<1>10. CASE TaskCheckFails(i)
  BY <1>0, <1>10, <1>a, <1>g DEF TaskCheckFails, history, BmcTypeOK
<1>11. CASE TaskRunFails(i)
  BY <1>0, <1>11, <1>b, <1>c, <1>f, <1>g, <1>h, <1>i DEF TaskRunFails, BmcTypeOK
<1>12. CASE TaskPatchFails(i)
  BY <1>0, <1>12, <1>a, <1>g, <1>j DEF TaskPatchFails, history, BmcTypeOK
<1>. QED
  BY <1>1, <1>2, <1>3, <1>4, <1>5, <1>6, <1>7, <1>8, <1>9, <1>10, <1>11, <1>12
     DEF TaskStep, TaskWork, TaskFaults

\* So does everything outside the program, and a restart of the manager.
LEMMA EnvironmentType == TypeOK /\ (Environment \/ Restart) => TypeOK'
<1>. SUFFICES ASSUME TypeOK, Environment \/ Restart PROVE TypeOK'
  OBVIOUS
<1>. USE DEF TypeOK, ClusterTypeOK, JobControllerTypeOK, TaskControllerTypeOK
<1>1. CASE DeliverJob /\ UNCHANGED <<jobRec, taskVars>>
  <2>1. Len(jobVersions) >= 2
    BY <1>1 DEF DeliverJob, Lag
  <2>. QED
    BY <1>1, <2>1, TailWindow DEF DeliverJob, taskVars, history, BmcTypeOK
<1>2. CASE DeliverTask /\ UNCHANGED <<jobRec, taskVars>>
  <2>1. Len(taskVersions) >= 2
    BY <1>2 DEF DeliverTask, Lag
  <2>2. taskQueued' \in SUBSET Index
    BY <1>2 DEF DeliverTask
  <2>. QED
    BY <1>2, <2>1, <2>2, TailWindow DEF DeliverTask, taskVars, history, BmcTypeOK
<1>3. CASE ResyncJob /\ UNCHANGED <<jobRec, taskVars>>
  BY <1>3 DEF ResyncJob, taskVars, history, BmcTypeOK
<1>4. ASSUME NEW i \in Index, ResyncTask(i) /\ UNCHANGED <<jobRec, taskVars>>
      PROVE  TypeOK'
  BY <1>4 DEF ResyncTask, taskVars, history, BmcTypeOK
<1>5. CASE BmcSettles /\ UNCHANGED <<clusterVars, jobRec, taskRec, expired, history>>
  BY <1>5 DEF BmcSettles, clusterVars, history, BmcTypeOK, Powers
<1>6. ASSUME NEW i \in Index, Expires(i) /\ UNCHANGED jobRec
      PROVE  TypeOK'
  BY <1>6 DEF Expires, clusterVars, history, BmcTypeOK
<1>7. CASE Restart
  <2>1. IdleJobRecord \in JobRecord
    BY ClusterAssumption DEF IdleJobRecord, JobRecord, NewJob, JobObject, Index
  <2>2. IdleTaskRecord \in TaskRecord
    BY DEF IdleTaskRecord, TaskRecord, NoTask, TaskObject
  <2>3. ClusterTypeOK'
    BY <1>7, RelistWindow, ClusterAssumption DEF Restart, RelistAll, Fault
  <2>. QED
    BY <1>7, <2>1, <2>2, <2>3 DEF Restart, history, BmcTypeOK
<1>. QED
  BY <1>1, <1>2, <1>3, <1>4, <1>5, <1>6, <1>7
     DEF Environment, ClusterStep, Deliveries

\* A Job that was just created has its types.
LEMMA TypeInit == Init => TypeOK
<1>. SUFFICES ASSUME Init PROVE TypeOK
  OBVIOUS
<1>1. 0 \in Index
  BY ClusterAssumption DEF Index
<1>2. ClusterTypeOK
  BY ClusterAssumption
     DEF Init, ClusterInit, ClusterTypeOK, JobObject, TaskObject, NewJob, NoTask
<1>3. JobControllerTypeOK
  BY <1>1 DEF Init, JobControllerInit, JobControllerTypeOK, IdleJobRecord,
              JobRecord, NewJob, JobObject
<1>4. TaskControllerTypeOK
  BY <1>1 DEF Init, TaskControllerInit, TaskControllerTypeOK, IdleTaskRecord,
              TaskRecord, NoTask, TaskObject, BmcInit, BmcTypeOK
<1>. QED
  BY <1>2, <1>3, <1>4 DEF TypeOK

\* Every step preserves the types.
LEMMA TypeStep == TypeOK /\ [Next]_vars => TypeOK'
<1>1. TypeOK /\ UNCHANGED vars => TypeOK'
  BY DEF vars, clusterVars, taskVars, history, TypeOK, ClusterTypeOK,
         JobControllerTypeOK, TaskControllerTypeOK, BmcTypeOK
<1>. QED
  BY <1>1, JobStepType, TaskStepType, EnvironmentType DEF Next

\* The state of the two controllers, of the API server and of the BMC always
\* has its type; in particular the index of the Task doReconcile creates is
\* within job.Spec.Tasks.
THEOREM TypeCorrect == Spec => []TypeOK
BY TypeInit, TypeStep, PTL DEF Spec

(***************************************************************************)
(* One Task at a time.                                                     *)
(***************************************************************************)

\* The List of the owned Tasks holds the first CompletedTasksCount ones, so
\* doReconcile is right to take the count for the index of the next.
LEMMA CountIsIndex ==
  ASSUME TypeOK, SnapshotsOrdered, \A i \in Listed : HasCompleted(i),
         NEW j \in Index, j < CompletedTasksCount
  PROVE  j \in Listed
<1>. SUFFICES ASSUME j \notin Listed PROVE FALSE
  OBVIOUS
<1>1. j \in Nat /\ Index \subseteq Nat
  BY ClusterAssumption DEF Index
<1>2. Cached(taskVersions) \in TaskSnapshots
  BY EndsOfWindow DEF TaskSnapshots, TypeOK, ClusterTypeOK
<1>3. Listed \in SUBSET (0..(j - 1))
  <2>. SUFFICES ASSUME NEW i \in Listed PROVE i \in 0..(j - 1)
    OBVIOUS
  <2>1. i \in Nat /\ i \in Index /\ Cached(taskVersions)[i].exists
    BY <1>1 DEF Listed
  <2>2. ~(j < i)
    BY <1>2, <2>1 DEF SnapshotsOrdered, Listed
  <2>3. i # j
    OBVIOUS
  <2>. QED
    BY <1>1, <2>1, <2>2, <2>3
<1>4. IsFiniteSet(0..(j - 1)) /\ Cardinality(0..(j - 1)) = j
  BY <1>1, FS_Interval
<1>5. IsFiniteSet(Listed) /\ Cardinality(Listed) <= j
  BY <1>3, <1>4, FS_Subset
<1>6. CompletedTasksCount = Cardinality(Listed)
  <2>1. {i \in Listed : HasCompleted(i)} = Listed
    OBVIOUS
  <2>. QED
    BY <2>1 DEF CompletedTasksCount
<1>7. Cardinality(Listed) \in Nat
  BY <1>5, FS_CardinalityType
<1>. QED
  BY <1>1, <1>5, <1>6, <1>7

VersionInv == SnapshotsOrdered /\ NothingForgotten /\ OneAtATime

\* Delivering an event, relisting and writing elsewhere leave the server's
\* Tasks as they are and put no version into the window.
LEMMA NoNewVersion ==
  ASSUME TypeOK, VersionInv,
         TaskSnapshots' \subseteq TaskSnapshots, TheTasks' = TheTasks
  PROVE  VersionInv'
BY DEF VersionInv, SnapshotsOrdered, NothingForgotten, OneAtATime

\* The snapshots after a write are the ones before it and the one written.
LEMMA SnapshotsAfterWrite ==
  ASSUME TypeOK, NEW i \in Index, NEW task \in TaskObject, PutTask(i, task)
  PROVE  /\ TheTasks' = [TheTasks EXCEPT ![i] = task]
         /\ TheTasks \in [Index -> TaskObject]
         /\ TaskSnapshots' \subseteq TaskSnapshots \cup {TheTasks'}
         /\ TheTasks \in TaskSnapshots
<1>1. /\ taskVersions \in Seq([Index -> TaskObject]) /\ Len(taskVersions) >= 1
      /\ TheTasks \in [Index -> TaskObject]
      /\ TheTasks \in TaskSnapshots
  BY EndsOfWindow DEF TypeOK, ClusterTypeOK, TheTasks, TaskSnapshots
<1>. DEFINE S == [Index -> TaskObject]
            version == [TheTasks EXCEPT ![i] = task]
            window == Put(taskVersions, version)
<1>2. version \in S /\ taskVersions' = window /\ taskVersions \in Seq(S)
  BY <1>1 DEF PutTask
<1>3. /\ TheTasks' = version
      /\ \A p \in DOMAIN window :
           window[p] = version \/ \E q \in DOMAIN taskVersions :
                                    window[p] = taskVersions[q]
  <2>. HIDE DEF S, version
  <2>1. /\ Latest(window) = version
        /\ \A p \in DOMAIN window :
           window[p] = version \/ \E q \in DOMAIN taskVersions :
                                    window[p] = taskVersions[q]
    BY <1>1, <1>2, PutWindow
  <2>. QED
    BY <1>2, <2>1 DEF TheTasks
<1>4. TaskSnapshots' \subseteq TaskSnapshots \cup {TheTasks'}
  BY <1>2, <1>3 DEF TaskSnapshots
<1>. QED
  BY <1>1, <1>3, <1>4

\* A write to a Task preserves the order of the Tasks if it leaves verdicts
\* standing and creates the Task only in its turn.
LEMMA WriteInTurn ==
  ASSUME TypeOK, VersionInv,
         NEW i \in Index, NEW task \in TaskObject, PutTask(i, task),
         task.exists,
         Terminal(TheTasks[i]) => Terminal(task),
         \/ TheTasks[i].exists
         \/ \A j \in Index : j < i => Terminal(TheTasks[j])
  PROVE  /\ VersionInv'
         /\ \A j \in Index : /\ TheTasks[j].exists => TheTasks'[j].exists
                             /\ Terminal(TheTasks[j]) => Terminal(TheTasks'[j])
<1>1. /\ TheTasks' = [TheTasks EXCEPT ![i] = task]
      /\ TheTasks \in [Index -> TaskObject]
      /\ TaskSnapshots' \subseteq TaskSnapshots \cup {TheTasks'}
      /\ TheTasks \in TaskSnapshots
  BY SnapshotsAfterWrite
<1>2. \A j \in Index : /\ j # i => TheTasks'[j] = TheTasks[j]
                       /\ j = i => TheTasks'[j] = task
  BY <1>1
<1>3. \A j \in Index : /\ TheTasks[j].exists => TheTasks'[j].exists
                       /\ Terminal(TheTasks[j]) => Terminal(TheTasks'[j])
  BY <1>2
<1>4. OneAtATime'
  <2>. SUFFICES ASSUME NEW j \in Index, NEW k \in Index, j < k,
                       TheTasks'[k].exists
                PROVE  Terminal(TheTasks'[j])
    BY DEF OneAtATime
  <2>1. CASE TheTasks[k].exists
    BY <1>3, <2>1 DEF VersionInv, OneAtATime
  <2>2. CASE ~TheTasks[k].exists
    BY <1>2, <1>3, <2>2
  <2>. QED
    BY <2>1, <2>2
<1>5. ASSUME NEW j \in Index
      PROVE  /\ Terminal(TheTasks'[j]) \/ TheTasks'[j].started =>
                  TheTasks'[j].exists
             /\ TheTasks'[j].exists =>
                  \A k \in Index : k < j => TheTasks'[k].exists
  <2>1. Terminal(TheTasks'[j]) \/ TheTasks'[j].started => TheTasks'[j].exists
    BY <1>1, <1>2 DEF VersionInv, SnapshotsOrdered
  <2>2. ASSUME TheTasks'[j].exists, NEW k \in Index, k < j
        PROVE  TheTasks'[k].exists
    <3>1. Terminal(TheTasks'[k])
      BY <1>4, <2>2 DEF OneAtATime
    <3>2. CASE k = i
      BY <1>2, <3>2
    <3>3. CASE k # i
      BY <1>1, <1>2, <3>1, <3>3 DEF VersionInv, SnapshotsOrdered
    <3>. QED
      BY <3>2, <3>3
  <2>. QED
    BY <2>1, <2>2
<1>6. SnapshotsOrdered'
  BY <1>1, <1>5 DEF VersionInv, SnapshotsOrdered
<1>7. NothingForgotten'
  BY <1>1, <1>3 DEF VersionInv, NothingForgotten
<1>. QED
  BY <1>3, <1>4, <1>6, <1>7 DEF VersionInv

\* The Job controller creates a Task only in its turn, although its list may
\* be stale: what it saw completed then is terminal now.
LEMMA JobStepOrder ==
  ASSUME TypeOK, OrderInv, JobStep
  PROVE  OrderInv'
<1>. USE DEF OrderInv
<1>a. VersionInv
  BY DEF VersionInv
<1>b. jobRec.index \in Index
  BY DEF TypeOK, JobControllerTypeOK, JobRecord
<1>c. taskRec' = taskRec
  BY DEF JobStep, taskVars
<1>d. ASSUME UNCHANGED taskVersions
      PROVE  /\ VersionInv' /\ TaskRecordsSound'
             /\ \A j \in Index : Terminal(TheTasks'[j]) <=> Terminal(TheTasks[j])
  BY <1>a, <1>c, <1>d DEF VersionInv, SnapshotsOrdered, NothingForgotten,
       OneAtATime, TaskRecordsSound, Busy, TheTasks, TaskSnapshots
<1>e. ASSUME jobRec.step = "create", ~TheTasks[jobRec.index].exists,
             TaskCreated(jobRec.index)
      PROVE  VersionInv' /\ TaskRecordsSound'
  <2>1. NewTask \in TaskObject /\ NewTask.exists
    BY DEF NewTask, TaskObject
  <2>2. TheTasks \in TaskSnapshots
    BY <1>b, <1>e, <2>1, SnapshotsAfterWrite DEF TaskCreated
  <2>3. ~Terminal(TheTasks[jobRec.index])
    BY <1>b, <1>e, <2>2 DEF SnapshotsOrdered
  <2>4. \A j \in Index : j < jobRec.index => Terminal(TheTasks[j])
    BY <1>e DEF CreatesInTurn
  <2>5. /\ VersionInv'
        /\ \A j \in Index : TheTasks[j].exists => TheTasks'[j].exists
    BY <1>a, <1>b, <1>e, <2>1, <2>3, <2>4, WriteInTurn DEF TaskCreated
  <2>6. TaskRecordsSound'
    BY <1>c, <2>5 DEF TaskRecordsSound, Busy
  <2>. QED
    BY <2>5, <2>6
<1>1. CASE JobPicksNext
  <2>1. \A j \in Index : j < CompletedTasksCount => Terminal(TheTasks[j])
    <3>. SUFFICES ASSUME NEW j \in Index, j < CompletedTasksCount
                  PROVE  Terminal(TheTasks[j])
      OBVIOUS
    <3>1. j \in Listed /\ HasCompleted(j)
      BY <1>1, CountIsIndex DEF JobPicksNext
    <3>2. Terminal(Cached(taskVersions)[j])
      BY <3>1 DEF HasCompleted, Terminal
    <3>3. Cached(taskVersions) \in TaskSnapshots
      BY EndsOfWindow DEF TaskSnapshots, TypeOK, ClusterTypeOK
    <3>. QED
      BY <3>2, <3>3 DEF NothingForgotten
  <2>2. UNCHANGED taskVersions
    BY <1>1 DEF JobPicksNext, clusterVars
  <2>3. jobRec'.index = CompletedTasksCount
    BY <1>1 DEF JobPicksNext, TypeOK, JobControllerTypeOK, JobRecord
  <2>4. CreatesInTurn'
    BY <1>d, <2>1, <2>2, <2>3 DEF CreatesInTurn
  <2>. QED
    BY <1>d, <2>2, <2>4 DEF VersionInv
<1>2. ASSUME jobRec'.step # "create" PROVE CreatesInTurn'
  BY <1>2 DEF CreatesInTurn
<1>3. CASE JobCreatesTask \/ JobCreateFails
  <2>1. VersionInv' /\ TaskRecordsSound'
    BY <1>3, <1>d, <1>e DEF JobCreatesTask, JobCreateFails
  <2>2. jobRec'.step = "patch"
    BY <1>3 DEF JobCreatesTask, JobCreateFails, JobWillPatch, TypeOK,
                JobControllerTypeOK, JobRecord
  <2>. QED
    BY <1>2, <2>1, <2>2 DEF VersionInv
<1>4. CASE JobStarts \/ JobSeesFailure \/ JobCompletes \/ JobCreateConflicts
  <2>1. UNCHANGED taskVersions
    BY <1>4 DEF JobStarts, JobSeesFailure, JobCompletes, JobCreateConflicts,
                clusterVars
  <2>2. jobRec'.step # "create"
    BY <1>4 DEF JobStarts, JobSeesFailure, JobCompletes, JobCreateConflicts,
                JobWillPatch, TypeOK, JobControllerTypeOK, JobRecord
  <2>. QED
    BY <1>2, <1>d, <2>1, <2>2 DEF VersionInv
<1>5. CASE JobIgnored \/ JobWaits \/ JobPatches \/ JobLookupFails \/ JobPatchFails
  <2>1. UNCHANGED taskVersions
    BY <1>5 DEF JobIgnored, JobWaits, JobPatches, JobLookupFails, JobPatchFails
  <2>2. jobRec'.step # "create"
    BY <1>5 DEF JobIgnored, JobWaits, JobPatches, JobLookupFails, JobPatchFails,
                JobReturns, IdleJobRecord
  <2>. QED
    BY <1>2, <1>d, <2>1, <2>2 DEF VersionInv
<1>. QED
  BY <1>1, <1>3, <1>4, <1>5 DEF JobStep, JobWork, JobFaults

\* A reconciliation of a Task writes nothing but that Task, and never takes a
\* verdict back, although it may replace one by the other.
LEMMA TaskStepOrder ==
  ASSUME TypeOK, OrderInv, NEW i \in Index, TaskStep(i)
  PROVE  OrderInv'
<1>. USE DEF OrderInv
<1>a. VersionInv /\ taskRec \in [Index -> TaskRecord]
  BY DEF VersionInv, TypeOK, TaskControllerTypeOK
<1>b. jobRec' = jobRec
  BY DEF TaskStep
<1>c. ASSUME UNCHANGED taskVersions, taskRec'[i].step = "idle" \/
                /\ TheTasks[i].exists
                /\ taskRec'[i].base.conds = {}
                /\ taskRec'[i].new.conds \in {{}, {"Completed"}, {"Failed"}},
             \A j \in Index \ {i} : taskRec'[j] = taskRec[j]
      PROVE  OrderInv'
  <2>1. VersionInv' /\ CreatesInTurn' /\ TheTasks' = TheTasks
    BY <1>a, <1>b, <1>c DEF VersionInv, SnapshotsOrdered, NothingForgotten,
       OneAtATime, TheTasks, TaskSnapshots, CreatesInTurn
  <2>2. TaskRecordsSound'
    BY <1>c, <2>1 DEF TaskRecordsSound, Busy
  <2>. QED
    BY <2>1, <2>2 DEF VersionInv
<1>d. ASSUME NEW again, TaskReturns(i, again)
      PROVE  /\ taskRec'[i].step = "idle"
             /\ \A j \in Index \ {i} : taskRec'[j] = taskRec[j]
  BY <1>a, <1>d DEF TaskReturns, IdleTaskRecord
<1>e. ASSUME NEW new, NEW withError, TaskWillPatch(i, new, withError), Busy(i),
             new.conds \in {{}, {"Completed"}, {"Failed"}}
      PROVE  OrderInv'
  <2>1. /\ UNCHANGED taskVersions
        /\ taskRec'[i].base = taskRec[i].base /\ taskRec'[i].new = new
        /\ \A j \in Index \ {i} : taskRec'[j] = taskRec[j]
    BY <1>a, <1>e DEF TaskWillPatch, TaskRecord
  <2>2. TheTasks[i].exists /\ taskRec[i].base.conds = {}
    BY <1>e DEF TaskRecordsSound
  <2>. QED
    BY <1>c, <1>e, <2>1, <2>2
<1>f. ASSUME Busy(i), NEW c \in {"Completed", "Failed"}
      PROVE  /\ taskRec[i].base.conds = {}
             /\ TaskStatusSet(taskRec[i].base, c).conds = {c}
             /\ Started(taskRec[i].base).conds = {}
             /\ TaskStatusSet(Started(taskRec[i].base), c).conds = {c}
  <2>1. taskRec[i].base.conds = {} /\ taskRec[i].base \in TaskObject
    BY <1>a, <1>f DEF TaskRecordsSound, TaskRecord
  <2>. QED
    BY <2>1 DEF TaskStatusSet, Started, TaskObject
<1>g. ASSUME Busy(i), TaskPatched(i), NEW again, TaskReturns(i, again)
      PROVE  OrderInv'
  <2>. DEFINE base == taskRec[i].base
              new  == taskRec[i].new
              task == [exists  |-> TheTasks[i].exists,
                       started |-> Merge(base.started, new.started,
                                         TheTasks[i].started),
                       conds   |-> Merge(base.conds, new.conds, TheTasks[i].conds)]
  <2>1. /\ TheTasks[i].exists /\ base.conds = {}
        /\ new.conds \in {{}, {"Completed"}, {"Failed"}}
        /\ base \in TaskObject /\ new \in TaskObject
    BY <1>a, <1>g DEF TaskRecordsSound, TaskRecord
  <2>2. PutTask(i, task)
    BY <1>g DEF TaskPatched, PatchTask
  <2>3. TheTasks[i] \in TaskObject
    <3>1. TheTasks \in [Index -> TaskObject]
      BY EndsOfWindow DEF TypeOK, ClusterTypeOK, TheTasks
    <3>. QED
      BY <3>1
  <2>4. task \in TaskObject /\ task.exists
    BY <2>1, <2>3 DEF TaskObject, Merge
  <2>5. Terminal(TheTasks[i]) => Terminal(task)
    BY <2>1 DEF Terminal, Merge
  <2>6. /\ VersionInv'
        /\ \A j \in Index : /\ TheTasks[j].exists => TheTasks'[j].exists
                            /\ Terminal(TheTasks[j]) => Terminal(TheTasks'[j])
    <3>. HIDE DEF task
    <3>. QED
      BY <1>a, <2>1, <2>2, <2>4, <2>5, WriteInTurn
  <2>7. TaskRecordsSound'
    BY <1>d, <1>g, <2>6 DEF TaskRecordsSound, Busy
  <2>8. CreatesInTurn'
    BY <1>b, <2>6 DEF CreatesInTurn
  <2>. QED
    BY <2>6, <2>7, <2>8 DEF VersionInv
<1>1. CASE TaskIgnored(i)
  <2>1. UNCHANGED <<taskVersions, taskRec>>
    BY <1>1 DEF TaskIgnored, taskVars
  <2>. QED
    BY <1>1, <1>c, <2>1 DEF TaskIgnored
<1>2. CASE TaskStarts(i)
  <2>1. Cached(taskVersions) \in TaskSnapshots
        /\ Cached(taskVersions) \in [Index -> TaskObject]
    BY EndsOfWindow DEF TypeOK, ClusterTypeOK, TaskSnapshots
  <2>2. TheTasks[i].exists /\ Cached(taskVersions)[i].conds = {}
    BY <1>2, <2>1 DEF TaskStarts, NothingForgotten, Terminal, TaskObject
  <2>3. /\ UNCHANGED taskVersions
        /\ taskRec'[i].base.conds = {} /\ taskRec'[i].new.conds = {}
        /\ \A j \in Index \ {i} : taskRec'[j] = taskRec[j]
    BY <1>2, <1>a, <2>2 DEF TaskStarts, TaskRecord
  <2>. QED
    BY <1>c, <2>2, <2>3
<1>3. CASE TaskTimesOut(i) \/ TaskConnectFails(i)
  BY <1>3, <1>e, <1>f DEF TaskTimesOut, TaskConnectFails, Checking, Busy
<1>4. CASE TaskCompletes(i)
  BY <1>4, <1>e, <1>f DEF TaskCompletes, Checking, Busy
<1>5. CASE TaskRuns(i)
  BY <1>5, <1>e, <1>f DEF TaskRuns, NewRun, Busy
<1>6. CASE TaskRunFails(i)
  BY <1>6, <1>e, <1>f DEF TaskRunFails, NewRun, Busy
<1>7. CASE TaskStillPending(i) \/ TaskSecretFails(i) \/ TaskCheckFails(i)
  BY <1>7, <1>c, <1>d DEF TaskStillPending, TaskSecretFails, TaskCheckFails
<1>8. CASE TaskPatches(i)
  BY <1>8, <1>g DEF TaskPatches, Busy
<1>9. CASE TaskPatchFails(i)
  BY <1>9, <1>c, <1>d, <1>g DEF TaskPatchFails, Busy
<1>. QED
  BY <1>1, <1>2, <1>3, <1>4, <1>5, <1>6, <1>7, <1>8, <1>9
     DEF TaskStep, TaskWork, TaskFaults

\* Watch events, the clock, the machine and a restart change no Task.
LEMMA EnvironmentOrder ==
  ASSUME TypeOK, OrderInv, Environment \/ Restart
  PROVE  OrderInv'
<1>1. ASSUME TaskSnapshots' \subseteq TaskSnapshots, TheTasks' = TheTasks,
             UNCHANGED <<jobRec, taskRec>>
      PROVE  OrderInv'
  <2>1. VersionInv'
    BY <1>1, NoNewVersion DEF OrderInv, VersionInv
  <2>. QED
    BY <1>1, <2>1 DEF OrderInv, VersionInv, TaskRecordsSound, CreatesInTurn, Busy
<1>2. ASSUME UNCHANGED <<taskVersions, jobRec, taskRec>>
      PROVE  OrderInv'
  BY <1>1, <1>2 DEF TaskSnapshots, TheTasks
<1>3. CASE DeliverTask /\ UNCHANGED <<jobRec, taskVars>>
  <2>1. Len(taskVersions) >= 2
    BY <1>3 DEF DeliverTask, Lag, TypeOK, ClusterTypeOK
  <2>2. TaskSnapshots' \subseteq TaskSnapshots /\ TheTasks' = TheTasks
    BY <1>3, <2>1, TailWindow
       DEF DeliverTask, TaskSnapshots, TheTasks, TypeOK, ClusterTypeOK
  <2>. QED
    BY <1>1, <1>3, <2>2 DEF taskVars
<1>4. CASE Restart
  <2>1. TaskSnapshots' \subseteq TaskSnapshots /\ TheTasks' = TheTasks
    BY <1>4, RelistWindow, EndsOfWindow
       DEF Restart, RelistAll, TaskSnapshots, TheTasks, TypeOK, ClusterTypeOK
  <2>2. VersionInv'
    BY <2>1, NoNewVersion DEF OrderInv, VersionInv
  <2>3. TaskRecordsSound' /\ CreatesInTurn'
    BY <1>4 DEF Restart, IdleTaskRecord, IdleJobRecord, TaskRecordsSound,
                CreatesInTurn, Busy
  <2>. QED
    BY <2>2, <2>3 DEF OrderInv, VersionInv
<1>5. CASE DeliverJob /\ UNCHANGED <<jobRec, taskVars>>
  BY <1>2, <1>5 DEF DeliverJob, taskVars
<1>6. CASE (ResyncJob \/ \E i \in Index : ResyncTask(i)) /\ UNCHANGED <<jobRec, taskVars>>
  BY <1>2, <1>6 DEF ResyncJob, ResyncTask, taskVars
<1>7. CASE BmcSettles /\ UNCHANGED <<clusterVars, jobRec, taskRec, expired, history>>
  BY <1>2, <1>7 DEF clusterVars
<1>8. CASE \E i \in Index : Expires(i) /\ UNCHANGED jobRec
  BY <1>2, <1>8 DEF Expires, clusterVars
<1>. QED
  BY <1>3, <1>4, <1>5, <1>6, <1>7, <1>8 DEF Environment, ClusterStep, Deliveries

\* At the start no Task is there.
LEMMA OrderInit == Init => OrderInv
<1>. SUFFICES ASSUME Init PROVE OrderInv
  OBVIOUS
<1>1. /\ TheTasks = [i \in Index |-> NoTask]
      /\ TaskSnapshots = {[i \in Index |-> NoTask]}
  BY DEF Init, ClusterInit, TheTasks, TaskSnapshots, Latest
<1>. QED
  BY <1>1 DEF Init, JobControllerInit, TaskControllerInit, IdleJobRecord,
     IdleTaskRecord, NoTask, OrderInv, SnapshotsOrdered, NothingForgotten,
     TaskRecordsSound, CreatesInTurn, OneAtATime, Terminal, Busy

\* Every step preserves the order of the Tasks.
LEMMA OrderStep == TypeOK /\ OrderInv /\ [Next]_vars => OrderInv'
<1>1. OrderInv /\ UNCHANGED vars => OrderInv'
  BY DEF vars, clusterVars, taskVars, OrderInv, SnapshotsOrdered,
     NothingForgotten, TaskRecordsSound, CreatesInTurn, OneAtATime, Busy,
     TheTasks, TaskSnapshots
<1>. QED
  BY <1>1, JobStepOrder, TaskStepOrder, EnvironmentOrder DEF Next

\* OrderInv, of which OneAtATime is a part, is an invariant of the system.
THEOREM OrderInvariant == Spec => []OrderInv
BY OrderInit, OrderStep, TypeCorrect, PTL DEF Spec

\* "Controller waits for one task to complete before executing the next":
\* for every number of Tasks, a Task exists only when those before it have
\* reached a verdict, however late the watches are and whatever fails.
THEOREM TasksOneAtATime == Spec => []OneAtATime
<1>1. OrderInv => OneAtATime
  BY DEF OrderInv
<1>. QED
  BY <1>1, OrderInvariant, PTL

(***************************************************************************)
(* The BMC gets the actions in the order of the Job's list.                *)
(***************************************************************************)

\* What a write leaves of the cache and of the order of the versions.
LEMMA StartsAfterWrite ==
  ASSUME TypeOK, StartsKept,
         NEW i \in Index, NEW task \in TaskObject, PutTask(i, task),
         TheTasks[i].started => task.started
  PROVE  /\ Cached(taskVersions') = Cached(taskVersions)
         /\ \A p, q \in DOMAIN taskVersions' :
              p <= q => \A j \in Index :
                taskVersions'[p][j].started => taskVersions'[q][j].started
<1>. DEFINE S == [Index -> TaskObject]
            version == [TheTasks EXCEPT ![i] = task]
            window == Put(taskVersions, version)
<1>1. taskVersions \in Seq(S) /\ Len(taskVersions) >= 1
  BY DEF TypeOK, ClusterTypeOK
<1>0. /\ TheTasks \in S /\ TheTasks = taskVersions[Len(taskVersions)]
      /\ DOMAIN taskVersions = 1..Len(taskVersions)
      /\ Len(taskVersions) \in DOMAIN taskVersions
  BY <1>1, EndsOfWindow DEF TheTasks
<1>2. version \in S /\ taskVersions' = window
  BY <1>0 DEF PutTask
<1>3. /\ Cached(window) = Cached(taskVersions)
      /\ Latest(window) = version
      /\ \A p \in DOMAIN window :
           window[p] = version \/ \E q \in DOMAIN taskVersions :
                                    window[p] = taskVersions[q]
  <2>. HIDE DEF S, version
  <2>. QED
    BY <1>1, <1>2, PutWindow
<1>4. \A q \in DOMAIN taskVersions, j \in Index :
        taskVersions[q][j].started => TheTasks[j].started
  BY <1>0 DEF StartsKept
<1>5. \A j \in Index : TheTasks[j].started => version[j].started
  BY <1>0
<1>6. ASSUME NEW p \in DOMAIN window, NEW q \in DOMAIN window, p <= q,
             NEW j \in Index, window[p][j].started
      PROVE  window[q][j].started
  <2>a. window[q] = version \/
          /\ p \in DOMAIN taskVersions /\ window[p] = taskVersions[p]
          /\ q \in DOMAIN taskVersions /\ window[q] = taskVersions[q]
    <3>. HIDE DEF S, version
    <3>. QED
      BY <1>1, <1>2, <1>6, PutOrder
  <2>. HIDE DEF S, version, window
  <2>1. CASE window[q] = version
    BY <1>3, <1>4, <1>5, <1>6, <2>1
  <2>2. CASE window[q] # version
    BY <1>6, <2>a, <2>2 DEF StartsKept
  <2>. QED
    BY <2>1, <2>2
<1>. QED
  BY <1>2, <1>3, <1>6

\* The Job controller picks the next Task from a list in which the earlier
\* ones are Completed, and so started for whoever reads them.
LEMMA JobStepSequence ==
  ASSUME TypeOK, OrderInv, SequenceInv, JobStep
  PROVE  SequenceInv'
<1>. USE DEF SequenceInv
<1>a. UNCHANGED <<taskRec, lastRun>>
  BY DEF JobStep, taskVars, history
<1>b. jobRec.index \in Index
  BY DEF TypeOK, JobControllerTypeOK, JobRecord
<1>c. ASSUME UNCHANGED taskVersions
      PROVE  /\ StartsKept' /\ CompletedAreDone' /\ LastRunExists'
             /\ TheTasks' = TheTasks
             /\ \A i \in Index : Done(i)' <=> Done(i)
  BY <1>a, <1>c DEF StartsKept, CompletedAreDone, LastRunExists, Done, Busy,
     TheTasks, TaskSnapshots
<1>d. ASSUME UNCHANGED taskVersions,
             jobRec'.step = "create" =>
               jobRec.step = "create" /\ jobRec'.index = jobRec.index
      PROVE  SequenceInv'
  BY <1>c, <1>d DEF EarlierAreDone
<1>e. ASSUME jobRec.step = "create", ~TheTasks[jobRec.index].exists,
             TaskCreated(jobRec.index), jobRec'.step = "patch"
      PROVE  SequenceInv'
  <2>1. NewTask \in TaskObject
    BY DEF NewTask, TaskObject
  <2>2. /\ TheTasks' = [TheTasks EXCEPT ![jobRec.index] = NewTask]
        /\ TheTasks \in [Index -> TaskObject]
        /\ TaskSnapshots' \subseteq TaskSnapshots \cup {TheTasks'}
        /\ TheTasks \in TaskSnapshots
    BY <1>b, <1>e, <2>1, SnapshotsAfterWrite DEF TaskCreated
  <2>3. ~TheTasks[jobRec.index].started
    BY <1>b, <1>e, <2>2 DEF OrderInv, SnapshotsOrdered
  <2>4. /\ Cached(taskVersions') = Cached(taskVersions)
        /\ \A p, q \in DOMAIN taskVersions' :
             p <= q => \A j \in Index :
               taskVersions'[p][j].started => taskVersions'[q][j].started
    BY <1>b, <1>e, <2>1, <2>3, StartsAfterWrite DEF TaskCreated
  <2>5. \A i \in Index : Done(i) => Done(i)'
    BY <1>a, <2>4 DEF Done, Busy
  <2>6. StartsKept'
    BY <1>a, <2>4 DEF StartsKept, Busy
  <2>7. CompletedAreDone'
    BY <1>b, <2>2, <2>5 DEF CompletedAreDone, NewTask
  <2>8. EarlierAreDone'
    BY <1>b, <1>e, <2>2, <2>5 DEF EarlierAreDone
  <2>9. LastRunExists'
    <3>1. lastRun \in Index
      BY DEF TypeOK, TaskControllerTypeOK
    <3>. QED
      BY <1>a, <1>b, <2>2, <3>1 DEF LastRunExists, NewTask
  <2>. QED
    BY <2>6, <2>7, <2>8, <2>9
<1>1. CASE JobPicksNext
  <2>1. UNCHANGED taskVersions /\ jobRec'.index = CompletedTasksCount
    BY <1>1 DEF JobPicksNext, clusterVars, TypeOK, JobControllerTypeOK, JobRecord
  <2>2. Cached(taskVersions) \in TaskSnapshots
    BY EndsOfWindow DEF TaskSnapshots, TypeOK, ClusterTypeOK
  <2>3. \A i \in Index : i < CompletedTasksCount => Done(i)
    BY <1>1, <2>2, CountIsIndex
       DEF OrderInv, JobPicksNext, HasCompleted, CompletedAreDone
  <2>4. EarlierAreDone'
    BY <1>c, <2>1, <2>3 DEF EarlierAreDone
  <2>. QED
    BY <1>c, <2>1, <2>4
<1>2. CASE JobCreatesTask
  <2>1. jobRec'.step = "patch"
    BY <1>2 DEF JobCreatesTask, JobWillPatch, TypeOK, JobControllerTypeOK, JobRecord
  <2>. QED
    BY <1>2, <1>e, <2>1 DEF JobCreatesTask
<1>3. CASE JobCreateFails
  <2>1. jobRec'.step = "patch"
    BY <1>3 DEF JobCreateFails, JobWillPatch, TypeOK, JobControllerTypeOK, JobRecord
  <2>. QED
    BY <1>3, <1>d, <1>e, <2>1 DEF JobCreateFails
<1>4. CASE JobStarts \/ JobSeesFailure \/ JobCompletes \/ JobCreateConflicts
  <2>1. UNCHANGED taskVersions /\ jobRec'.step # "create"
    BY <1>4 DEF JobStarts, JobSeesFailure, JobCompletes, JobCreateConflicts,
       clusterVars, JobWillPatch, TypeOK, JobControllerTypeOK, JobRecord
  <2>. QED
    BY <1>d, <2>1
<1>5. CASE JobIgnored \/ JobWaits \/ JobPatches \/ JobLookupFails \/ JobPatchFails
  <2>1. UNCHANGED taskVersions /\ jobRec'.step # "create"
    BY <1>5 DEF JobIgnored, JobWaits, JobPatches, JobLookupFails, JobPatchFails,
                JobReturns, IdleJobRecord
  <2>. QED
    BY <1>d, <2>1
<1>. QED
  BY <1>1, <1>2, <1>3, <1>4, <1>5 DEF JobStep, JobWork, JobFaults

\* The Task controller never makes a started Task look new again, and marks
\* Completed only a Task that its reconciliation found started.
LEMMA TaskStepSequence ==
  ASSUME TypeOK, OrderInv, SequenceInv, NEW i \in Index, TaskStep(i)
  PROVE  SequenceInv'
<1>. USE DEF SequenceInv
<1>a. /\ taskRec \in [Index -> TaskRecord]
      /\ taskRec[i].base \in TaskObject /\ taskRec[i].new \in TaskObject
      /\ UNCHANGED jobRec
  BY DEF TypeOK, TaskControllerTypeOK, TaskRecord, TaskStep
<1>b. ASSUME UNCHANGED taskVersions,
             lastRun' \in {lastRun, i}, Busy(i) \/ lastRun' = lastRun,
             \A j \in Index \ {i} : taskRec'[j] = taskRec[j],
             \/ taskRec'[i].step = "idle"
             \/ /\ taskRec'[i].base.started => Cached(taskVersions)[i].started
                /\ taskRec'[i].base.started => taskRec'[i].new.started
                /\ "Completed" \in taskRec'[i].new.conds =>
                     taskRec'[i].base.started
                /\ Done(i) => taskRec'[i].base.started
      PROVE  SequenceInv'
  <2>1. TheTasks' = TheTasks /\ TaskSnapshots' = TaskSnapshots
    BY <1>b DEF TheTasks, TaskSnapshots
  <2>2. \A j \in Index : Done(j) => Done(j)'
    BY <1>b DEF Done, Busy
  <2>3. StartsKept'
    BY <1>b DEF StartsKept, Busy
  <2>4. CompletedAreDone' /\ EarlierAreDone'
    BY <1>a, <2>1, <2>2 DEF CompletedAreDone, EarlierAreDone
  <2>5. LastRunExists'
    BY <1>b, <2>1 DEF LastRunExists, OrderInv, TaskRecordsSound
  <2>. QED
    BY <2>3, <2>4, <2>5
<1>c. ASSUME NEW again, TaskReturns(i, again)
      PROVE  /\ taskRec'[i].step = "idle"
             /\ \A j \in Index \ {i} : taskRec'[j] = taskRec[j]
  BY <1>a, <1>c DEF TaskReturns, IdleTaskRecord
<1>d. ASSUME NEW new, NEW withError, TaskWillPatch(i, new, withError), Busy(i),
             lastRun' \in {lastRun, i},
             taskRec[i].base.started => new.started,
             "Completed" \in new.conds => taskRec[i].base.started
      PROVE  SequenceInv'
  <2>1. /\ UNCHANGED taskVersions
        /\ taskRec'[i].base = taskRec[i].base /\ taskRec'[i].new = new
        /\ \A j \in Index \ {i} : taskRec'[j] = taskRec[j]
    BY <1>a, <1>d DEF TaskWillPatch, TaskRecord
  <2>. QED
    BY <1>b, <1>d, <2>1 DEF StartsKept, Done
<1>e. ASSUME Busy(i), NEW c \in {"Completed", "Failed"}
      PROVE  /\ TaskStatusSet(taskRec[i].base, c).conds = {c}
             /\ TaskStatusSet(taskRec[i].base, c).started = taskRec[i].base.started
             /\ Started(taskRec[i].base).conds = {}
             /\ Started(taskRec[i].base).started
             /\ TaskStatusSet(Started(taskRec[i].base), c).conds = {c}
             /\ TaskStatusSet(Started(taskRec[i].base), c).started
  <2>1. taskRec[i].base.conds = {}
    BY <1>e DEF OrderInv, TaskRecordsSound
  <2>. QED
    BY <1>a, <2>1 DEF TaskStatusSet, Started, TaskObject
<1>f. ASSUME Busy(i), TaskPatched(i), NEW again, TaskReturns(i, again),
             lastRun' = lastRun
      PROVE  SequenceInv'
  <2>. DEFINE base == taskRec[i].base
              new  == taskRec[i].new
              task == [exists  |-> TheTasks[i].exists,
                       started |-> Merge(base.started, new.started,
                                         TheTasks[i].started),
                       conds   |-> Merge(base.conds, new.conds, TheTasks[i].conds)]
  <2>1. TheTasks \in [Index -> TaskObject] /\ TheTasks \in TaskSnapshots
    BY EndsOfWindow DEF TypeOK, ClusterTypeOK, TheTasks, TaskSnapshots
  <2>2. task \in TaskObject /\ PutTask(i, task)
    BY <1>a, <1>f, <2>1 DEF TaskObject, Merge, TaskPatched, PatchTask
  <2>3. base.started => new.started
    BY <1>f DEF StartsKept
  <2>4. TheTasks[i].started => task.started
    BY <1>a, <2>1, <2>3 DEF Merge, TaskObject
  <2>5. "Completed" \in task.conds => Done(i)
    <3>1. CASE "Completed" \in TheTasks[i].conds
      BY <2>1, <3>1 DEF CompletedAreDone
    <3>2. CASE "Completed" \in new.conds
      BY <1>f, <3>2 DEF StartsKept, Done
    <3>. QED
      BY <3>1, <3>2 DEF Merge
  <2>6. task.exists = TheTasks[i].exists
    OBVIOUS
  <2>. HIDE DEF task
  <2>7. /\ TheTasks' = [TheTasks EXCEPT ![i] = task]
        /\ TaskSnapshots' \subseteq TaskSnapshots \cup {TheTasks'}
    BY <2>2, SnapshotsAfterWrite
  <2>8. /\ Cached(taskVersions') = Cached(taskVersions)
        /\ \A p, q \in DOMAIN taskVersions' :
             p <= q => \A j \in Index :
               taskVersions'[p][j].started => taskVersions'[q][j].started
    BY <2>2, <2>4, StartsAfterWrite
  <2>9. \A j \in Index : Done(j) => Done(j)'
    BY <1>c, <1>f, <2>8 DEF Done, Busy
  <2>10. StartsKept'
    BY <1>c, <1>f, <2>8 DEF StartsKept, Busy
  <2>11. CompletedAreDone'
    BY <2>1, <2>5, <2>7, <2>9 DEF CompletedAreDone
  <2>12. \A j \in Index : TheTasks'[j].exists = TheTasks[j].exists
    BY <2>1, <2>6, <2>7
  <2>13. EarlierAreDone'
    BY <1>a, <2>9, <2>12 DEF EarlierAreDone
  <2>14. LastRunExists'
    BY <1>f, <2>12 DEF LastRunExists, TypeOK, TaskControllerTypeOK
  <2>. QED
    BY <2>10, <2>11, <2>13, <2>14
<1>1. CASE TaskIgnored(i)
  <2>1. UNCHANGED <<taskVersions, taskRec, lastRun>>
    BY <1>1 DEF TaskIgnored, taskVars, history
  <2>. QED
    BY <1>1, <1>b, <2>1 DEF TaskIgnored
<1>2. CASE TaskStarts(i)
  <2>1. /\ UNCHANGED <<taskVersions, lastRun>>
        /\ taskRec'[i].base = Cached(taskVersions)[i]
        /\ taskRec'[i].new = Cached(taskVersions)[i]
        /\ \A j \in Index \ {i} : taskRec'[j] = taskRec[j]
        /\ "Completed" \notin Cached(taskVersions)[i].conds
    BY <1>2, <1>a DEF TaskStarts, TaskRecord, history, Terminal
  <2>. QED
    BY <1>b, <2>1 DEF Done
<1>3. CASE TaskTimesOut(i) \/ TaskConnectFails(i)
  BY <1>3, <1>d, <1>e DEF TaskTimesOut, TaskConnectFails, Checking, Busy, history
<1>4. CASE TaskCompletes(i)
  BY <1>4, <1>d, <1>e DEF TaskCompletes, Checking, Busy, history
<1>5. CASE TaskRuns(i)
  BY <1>5, <1>d, <1>e DEF TaskRuns, NewRun, Busy, Sent
<1>6. CASE TaskRunFails(i)
  BY <1>6, <1>d, <1>e DEF TaskRunFails, NewRun, Busy, Sent
<1>7. CASE TaskStillPending(i) \/ TaskSecretFails(i) \/ TaskCheckFails(i)
  BY <1>7, <1>b, <1>c DEF TaskStillPending, TaskSecretFails, TaskCheckFails, history
<1>8. CASE TaskPatches(i)
  BY <1>8, <1>f DEF TaskPatches, Busy, history
<1>9. CASE TaskPatchFails(i)
  BY <1>9, <1>b, <1>c, <1>f DEF TaskPatchFails, Busy, history
<1>. QED
  BY <1>1, <1>2, <1>3, <1>4, <1>5, <1>6, <1>7, <1>8, <1>9
     DEF TaskStep, TaskWork, TaskFaults

\* A delivered event and a relist bring the cache to a later version, and a
\* restart ends the reconciliations.
LEMMA EnvironmentSequence ==
  ASSUME TypeOK, SequenceInv, Environment \/ Restart
  PROVE  SequenceInv'
<1>. USE DEF SequenceInv
<1>a. /\ taskVersions \in Seq([Index -> TaskObject]) /\ Len(taskVersions) >= 1
      /\ Cached(taskVersions) = taskVersions[1] /\ 1 \in DOMAIN taskVersions
      /\ TheTasks = taskVersions[Len(taskVersions)]
      /\ Len(taskVersions) \in DOMAIN taskVersions
  BY EndsOfWindow DEF TypeOK, ClusterTypeOK, TheTasks
<1>1. ASSUME lastRun' = lastRun, TheTasks' = TheTasks,
             TaskSnapshots' \subseteq TaskSnapshots,
             \A j \in Index : Cached(taskVersions)[j].started =>
                                Cached(taskVersions')[j].started,
             \A p, q \in DOMAIN taskVersions' :
               p <= q => \A j \in Index :
                 taskVersions'[p][j].started => taskVersions'[q][j].started,
             \/ UNCHANGED <<jobRec, taskRec>>
             \/ /\ jobRec' = IdleJobRecord
                /\ taskRec' = [i \in Index |-> IdleTaskRecord]
      PROVE  SequenceInv'
  <2>1. \A j \in Index : Done(j) => Done(j)'
    BY <1>1 DEF Done, Busy, IdleTaskRecord
  <2>2. StartsKept'
    BY <1>1 DEF StartsKept, Busy, IdleTaskRecord
  <2>3. CompletedAreDone' /\ LastRunExists'
    BY <1>1, <2>1 DEF CompletedAreDone, LastRunExists
  <2>4. EarlierAreDone'
    BY <1>1, <2>1 DEF EarlierAreDone, IdleJobRecord
  <2>. QED
    BY <2>2, <2>3, <2>4
<1>2. ASSUME UNCHANGED <<taskVersions, jobRec, taskRec, lastRun>>
      PROVE  SequenceInv'
  BY <1>1, <1>2 DEF TaskSnapshots, TheTasks, StartsKept
<1>3. CASE DeliverTask /\ UNCHANGED <<jobRec, taskVars>>
  <2>1. Len(taskVersions) >= 2 /\ taskVersions' = Tail(taskVersions)
    BY <1>3 DEF DeliverTask, Lag, TypeOK, ClusterTypeOK
  <2>2. /\ TheTasks' = TheTasks
        /\ Cached(taskVersions') = taskVersions[2] /\ 2 \in DOMAIN taskVersions
        /\ \A p \in DOMAIN taskVersions' :
             p + 1 \in DOMAIN taskVersions /\ taskVersions'[p] = taskVersions[p + 1]
    BY <1>a, <2>1, TailWindow DEF TheTasks
  <2>3. TaskSnapshots' \subseteq TaskSnapshots
    BY <2>2 DEF TaskSnapshots
  <2>4. \A j \in Index : Cached(taskVersions)[j].started =>
                           Cached(taskVersions')[j].started
    BY <1>a, <2>2 DEF StartsKept
  <2>5. ASSUME NEW p \in DOMAIN taskVersions', NEW q \in DOMAIN taskVersions', p <= q
        PROVE  \A j \in Index :
                 taskVersions'[p][j].started => taskVersions'[q][j].started
    <3>1. p \in Int /\ q \in Int
      BY <2>1, <1>a
    <3>2. p + 1 <= q + 1
      BY <2>5, <3>1
    <3>. QED
      BY <2>2, <3>2 DEF StartsKept
  <2>. QED
    BY <1>1, <1>3, <2>2, <2>3, <2>4, <2>5 DEF taskVars, history
<1>4. CASE Restart
  <2>1. taskVersions' = <<TheTasks>>
    BY <1>4 DEF Restart, RelistAll, Relist, TheTasks
  <2>2. TheTasks' = TheTasks /\ Cached(taskVersions') = TheTasks
        /\ \A p \in DOMAIN taskVersions' : taskVersions'[p] = TheTasks
    BY <2>1 DEF TheTasks, Latest, Cached
  <2>3. TaskSnapshots' \subseteq TaskSnapshots
    BY <1>a, <2>2 DEF TaskSnapshots
  <2>4. 1 <= Len(taskVersions)
    BY <1>a
  <2>5. \A j \in Index : Cached(taskVersions)[j].started => TheTasks[j].started
    BY <1>a, <2>4 DEF StartsKept
  <2>. QED
    BY <1>1, <1>4, <2>2, <2>3, <2>5 DEF Restart, history
<1>5. CASE DeliverJob /\ UNCHANGED <<jobRec, taskVars>>
  BY <1>2, <1>5 DEF DeliverJob, taskVars, history
<1>6. CASE (ResyncJob \/ \E i \in Index : ResyncTask(i)) /\ UNCHANGED <<jobRec, taskVars>>
  BY <1>2, <1>6 DEF ResyncJob, ResyncTask, taskVars, history
<1>7. CASE BmcSettles /\ UNCHANGED <<clusterVars, jobRec, taskRec, expired, history>>
  BY <1>2, <1>7 DEF clusterVars, history
<1>8. CASE \E i \in Index : Expires(i) /\ UNCHANGED jobRec
  BY <1>2, <1>8 DEF Expires, clusterVars, history
<1>. QED
  BY <1>3, <1>4, <1>5, <1>6, <1>7, <1>8 DEF Environment, ClusterStep, Deliveries

\* At the start no action has been sent.
LEMMA SequenceInit == Init => SequenceInv
<1>. SUFFICES ASSUME Init PROVE SequenceInv
  OBVIOUS
<1>1. /\ TheTasks = [i \in Index |-> NoTask]
      /\ TaskSnapshots = {[i \in Index |-> NoTask]}
      /\ \A p \in DOMAIN taskVersions : taskVersions[p] = [i \in Index |-> NoTask]
  BY DEF Init, ClusterInit, TheTasks, TaskSnapshots, Latest
<1>. QED
  BY <1>1 DEF Init, JobControllerInit, TaskControllerInit, IdleJobRecord,
     IdleTaskRecord, NoTask, SequenceInv, StartsKept, CompletedAreDone,
     EarlierAreDone, LastRunExists, Busy

\* Every step keeps the actions in their order.
LEMMA SequenceStep == TypeOK /\ OrderInv /\ SequenceInv /\ [Next]_vars => SequenceInv'
<1>1. SequenceInv /\ UNCHANGED vars => SequenceInv'
  BY DEF vars, clusterVars, taskVars, history, SequenceInv, StartsKept,
     CompletedAreDone, EarlierAreDone, LastRunExists, Done, Busy, TheTasks,
     TaskSnapshots
<1>. QED
  BY <1>1, JobStepSequence, TaskStepSequence, EnvironmentSequence DEF Next

\* SequenceInv is an invariant of the system.
THEOREM SequenceInvariant == Spec => []SequenceInv
BY SequenceInit, SequenceStep, TypeCorrect, OrderInvariant, PTL DEF Spec

\* runTask never sends the action of a Task once it has sent that of a later
\* one: repeated runs, which stale reads and restarts do cause, stay within
\* the Task the Job is at.
THEOREM ActionsSentInOrder == Spec => ActionsInOrder
<1>1. ASSUME TypeOK, OrderInv, SequenceInv, NEW i \in Index, NewRun(i)
      PROVE  i >= lastRun
  <2>. SUFFICES ASSUME ~(i >= lastRun) PROVE FALSE
    OBVIOUS
  <2>1. lastRun \in Index /\ Index \subseteq Nat
    BY <1>1 DEF TypeOK, TaskControllerTypeOK, Index
  <2>2. i < lastRun /\ lastRun # 0
    BY <2>1
  <2>3. TheTasks[lastRun].exists
    BY <1>1, <2>2 DEF SequenceInv, LastRunExists
  <2>4. Done(i)
    BY <1>1, <2>1, <2>2, <2>3 DEF SequenceInv, EarlierAreDone
  <2>. QED
    BY <1>1, <2>4 DEF Done, NewRun, Busy
<1>2. TypeOK /\ OrderInv /\ SequenceInv /\ [Next]_vars => lastRun' >= lastRun
  <2>. SUFFICES ASSUME TypeOK, OrderInv, SequenceInv, [Next]_vars
                PROVE  lastRun' >= lastRun
    OBVIOUS
  <2>1. lastRun >= lastRun
    BY ClusterAssumption DEF TypeOK, TaskControllerTypeOK, Index
  <2>2. ASSUME NEW i \in Index, TaskStep(i)
        PROVE  lastRun' >= lastRun
    <3>1. CASE TaskRuns(i) \/ TaskRunFails(i)
      BY <1>1, <3>1 DEF TaskRuns, TaskRunFails, Sent
    <3>2. CASE ~(TaskRuns(i) \/ TaskRunFails(i))
      <4>1. lastRun' = lastRun
        BY <2>2, <3>2 DEF TaskStep, TaskWork, TaskFaults, TaskIgnored, TaskStarts,
           TaskTimesOut, TaskStillPending, TaskCompletes, TaskPatches,
           TaskSecretFails, TaskConnectFails, TaskCheckFails, TaskPatchFails,
           taskVars, history
      <4>. QED
        BY <2>1, <4>1
    <3>. QED
      BY <3>1, <3>2
  <2>3. CASE Environment \/ JobStep \/ Restart \/ UNCHANGED vars
    <3>1. lastRun' = lastRun
      BY <2>3 DEF Environment, Expires, JobStep, Restart, vars, taskVars, history
    <3>. QED
      BY <2>1, <3>1
  <2>. QED
    BY <2>2, <2>3 DEF Next
<1>3. TypeOK /\ OrderInv /\ SequenceInv /\ [Next]_vars => [lastRun' >= lastRun]_vars
  BY <1>2
<1>. QED
  BY <1>3, TypeCorrect, OrderInvariant, SequenceInvariant, PTL
     DEF Spec, ActionsInOrder
=============================================================================
