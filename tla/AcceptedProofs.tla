--------------------------- MODULE AcceptedProofs --------------------------
(***************************************************************************)
(* A Completed Job had all its actions accepted, and a Job or a Task has   *)
(* one verdict at most.                                                    *)
(***************************************************************************)
EXTENDS RufioProofs

\* When doReconcile counts as many Completed Tasks as the Job has, it has
\* seen every one of them Completed.
LEMMA CountIsAll ==
  ASSUME CompletedTasksCount = NumTasks, NEW i \in Index
  PROVE  i \in Listed /\ HasCompleted(i)
<1>. DEFINE C == {j \in Listed : HasCompleted(j)}
<1>1. C \in SUBSET Index
  BY DEF Listed
<1>2. IsFiniteSet(Index) /\ Cardinality(Index) = NumTasks
  BY FS_Interval, ClusterAssumption DEF Index
<1>3. Cardinality(C) = Cardinality(Index)
  BY <1>2 DEF CompletedTasksCount
<1>4. Index = C
  <2>. HIDE DEF C
  <2>. QED
    BY <1>1, <1>2, <1>3, FS_Subset
<1>. QED
  BY <1>4

\* What the server holds after a patch of the Job's status.
LEMMA JobAfterPatch ==
  ASSUME TypeOK, NEW base \in JobObject, NEW new \in JobObject,
         PatchJob(base, new)
  PROVE  /\ TheJob'.conds = Merge(base.conds, new.conds, TheJob.conds)
         /\ TheJob'.finished = Merge(base.finished, new.finished, TheJob.finished)
<1>. DEFINE S == JobObject
            job == [conds    |-> Merge(base.conds, new.conds, TheJob.conds),
                    finished |-> Merge(base.finished, new.finished, TheJob.finished)]
<1>1. /\ jobVersions \in Seq(S) /\ Len(jobVersions) >= 1
      /\ TheJob \in JobObject
  BY EndsOfWindow DEF TypeOK, ClusterTypeOK, TheJob
<1>2. job \in S /\ jobVersions' = Put(jobVersions, job)
  BY <1>1 DEF PatchJob, Merge, JobObject
<1>3. TheJob' = job
  <2>. HIDE DEF S, job
  <2>. QED
    BY <1>1, <1>2, PutWindow DEF TheJob
<1>. QED
  BY <1>3

\* The Job controller completes a Job only on the word of Completed Tasks.
LEMMA JobStepAccepted ==
  ASSUME TypeOK, AcceptedInv, JobStep
  PROVE  AcceptedInv'
<1>a. UNCHANGED <<taskRec, accepted>>
  BY DEF JobStep, taskVars, history
<1>b. \A i \in Index : Busy(i)' =>
        Vouched(i, taskRec[i].base)' /\ Vouched(i, taskRec[i].new)'
  BY <1>a DEF AcceptedInv, Vouched, Busy
<1>c. ASSUME UNCHANGED taskVersions
      PROVE  \A t \in TaskSnapshots', i \in Index : Vouched(i, t[i])'
  BY <1>a, <1>c DEF AcceptedInv, Vouched, TaskSnapshots
<1>d. ASSUME UNCHANGED jobVersions
      PROVE  CompletedMeansAccepted'
  BY <1>a, <1>d DEF AcceptedInv, CompletedMeansAccepted, TheJob
<1>e. /\ jobRec.base \in JobObject /\ jobRec.new \in JobObject
      /\ jobRec.index \in Index
  BY DEF TypeOK, JobControllerTypeOK, JobRecord
<1>f. ASSUME PatchJob(jobRec.base, jobRec.new)
      PROVE  CompletedMeansAccepted'
  <2>1. "Completed" \in TheJob'.conds =>
           "Completed" \in jobRec.new.conds \/ "Completed" \in TheJob.conds
    BY <1>e, <1>f, JobAfterPatch DEF Merge
  <2>. QED
    BY <1>a, <2>1 DEF AcceptedInv, CompletedMeansAccepted
<1>g. ASSUME jobRec.step = "create", TaskCreated(jobRec.index)
      PROVE  \A t \in TaskSnapshots', i \in Index : Vouched(i, t[i])'
  <2>1. NewTask \in TaskObject
    BY DEF NewTask, TaskObject
  <2>2. /\ TheTasks' = [TheTasks EXCEPT ![jobRec.index] = NewTask]
        /\ TheTasks \in [Index -> TaskObject]
        /\ TaskSnapshots' \subseteq TaskSnapshots \cup {TheTasks'}
        /\ TheTasks \in TaskSnapshots
    BY <1>e, <1>g, <2>1, SnapshotsAfterWrite DEF TaskCreated
  <2>3. \A i \in Index : Vouched(i, TheTasks'[i])
    BY <2>2 DEF AcceptedInv, Vouched, NewTask
  <2>. QED
    BY <1>a, <2>2, <2>3 DEF AcceptedInv, Vouched
<1>h. ASSUME NEW job \in JobObject, "Completed" \notin job.conds,
             NEW c \in {"Running", "Failed"}
      PROVE  "Completed" \notin JobStatusSet(job, c).conds
  BY <1>h DEF JobStatusSet, JobObject
<1>i. ASSUME NEW new, NEW withError, JobWillPatch(new, withError)
      PROVE  jobRec'.new = new
  BY <1>i DEF JobWillPatch, TypeOK, JobControllerTypeOK, JobRecord
<1>j. "Completed" \in jobRec.new.conds => accepted = Index
  BY DEF AcceptedInv
<1>k. ASSUME NEW c \in {"Running", "Failed"}
      PROVE  "Completed" \in JobStatusSet(jobRec.new, c).conds =>
               accepted = Index
  BY <1>e, <1>h, <1>j
<1>1. CASE JobStarts
  <2>1. Cached(jobVersions) \in JobObject
    BY EndsOfWindow DEF TypeOK, ClusterTypeOK
  <2>2. "Completed" \notin Cached(jobVersions).conds
    BY <1>1 DEF JobStarts, Terminal
  <2>3. jobRec'.new = JobStatusSet(Cached(jobVersions), "Running")
    BY <1>1 DEF JobStarts, TypeOK, JobControllerTypeOK, JobRecord
  <2>4. UNCHANGED <<jobVersions, taskVersions>>
    BY <1>1 DEF JobStarts
  <2>. QED
    BY <1>b, <1>c, <1>d, <1>h, <2>1, <2>2, <2>3, <2>4 DEF AcceptedInv
<1>2. CASE JobSeesFailure \/ JobCreateConflicts
  <2>1. jobRec'.new = JobStatusSet(jobRec.new, "Failed")
    BY <1>2, <1>i DEF JobSeesFailure, JobCreateConflicts
  <2>2. UNCHANGED <<jobVersions, taskVersions>>
    BY <1>2 DEF JobSeesFailure, JobCreateConflicts, clusterVars
  <2>. QED
    BY <1>a, <1>b, <1>c, <1>d, <1>k, <2>1, <2>2 DEF AcceptedInv
<1>3. CASE JobCompletes
  <2>1. accepted = Index
    <3>1. Cached(taskVersions) \in TaskSnapshots
      BY EndsOfWindow DEF TaskSnapshots, TypeOK, ClusterTypeOK
    <3>2. \A i \in Index : HasCompleted(i)
      BY <1>3, CountIsAll DEF JobCompletes
    <3>3. accepted \subseteq Index
      BY DEF TypeOK, TaskControllerTypeOK
    <3>. QED
      BY <3>1, <3>2, <3>3 DEF AcceptedInv, Vouched, HasCompleted
  <2>2. UNCHANGED <<jobVersions, taskVersions>>
    BY <1>3 DEF JobCompletes, clusterVars
  <2>. QED
    BY <1>a, <1>b, <1>c, <1>d, <2>1, <2>2 DEF AcceptedInv
<1>4. CASE JobPicksNext
  <2>1. UNCHANGED <<jobVersions, taskVersions>> /\ jobRec'.new = jobRec.new
    BY <1>4 DEF JobPicksNext, clusterVars, TypeOK, JobControllerTypeOK, JobRecord
  <2>. QED
    BY <1>a, <1>b, <1>c, <1>d, <1>j, <2>1 DEF AcceptedInv
<1>5. CASE JobCreatesTask
  <2>1. jobRec'.new = jobRec.new
    BY <1>5, <1>i DEF JobCreatesTask
  <2>. QED
    BY <1>5, <1>a, <1>b, <1>d, <1>g, <1>j, <2>1 DEF AcceptedInv, JobCreatesTask
<1>6. CASE JobCreateFails
  <2>1. jobRec'.new = JobStatusSet(jobRec.new, "Failed")
    BY <1>6, <1>i DEF JobCreateFails
  <2>2. \A t \in TaskSnapshots', i \in Index : Vouched(i, t[i])'
    BY <1>6, <1>c, <1>g DEF JobCreateFails
  <2>. QED
    BY <1>6, <1>a, <1>b, <1>d, <1>k, <2>1, <2>2 DEF AcceptedInv, JobCreateFails
<1>7. CASE JobIgnored
  <2>1. UNCHANGED <<jobVersions, taskVersions, jobRec>>
    BY <1>7 DEF JobIgnored
  <2>. QED
    BY <1>a, <1>b, <1>c, <1>d, <1>j, <2>1 DEF AcceptedInv
<1>8. CASE JobWaits \/ JobPatches \/ JobLookupFails \/ JobPatchFails
  <2>1. "Completed" \notin jobRec'.new.conds
    BY <1>8 DEF JobWaits, JobPatches, JobLookupFails, JobPatchFails, JobReturns,
                IdleJobRecord, NewJob
  <2>2. UNCHANGED taskVersions /\ CompletedMeansAccepted'
    BY <1>8, <1>d, <1>f DEF JobWaits, JobPatches, JobLookupFails, JobPatchFails
  <2>. QED
    BY <1>b, <1>c, <2>1, <2>2 DEF AcceptedInv
<1>. QED
  BY <1>1, <1>2, <1>3, <1>4, <1>5, <1>6, <1>7, <1>8
     DEF JobStep, JobWork, JobFaults

\* The Task controller writes nothing a copy of a Task could be caught lying
\* by: the StartTime of an accepted run, or one together with Failed.
LEMMA TaskStepAccepted ==
  ASSUME TypeOK, OrderInv, AcceptedInv, NEW i \in Index, TaskStep(i)
  PROVE  AcceptedInv'
<1>a. /\ taskRec \in [Index -> TaskRecord]
      /\ taskRec[i].base \in TaskObject /\ taskRec[i].new \in TaskObject
  BY DEF TypeOK, TaskControllerTypeOK, TaskRecord
<1>b. UNCHANGED jobRec
  BY DEF TaskStep
<1>c. accepted \subseteq accepted' /\ accepted' \in SUBSET Index
  BY TaskStepType DEF TaskStep, TaskWork, TaskFaults, TaskIgnored, TaskStarts,
     TaskTimesOut, TaskStillPending, TaskCompletes, TaskRuns, TaskPatches,
     TaskSecretFails, TaskConnectFails, TaskCheckFails, TaskRunFails,
     TaskPatchFails, taskVars, history, TypeOK, TaskControllerTypeOK
<1>d. UNCHANGED jobVersions
  BY DEF TaskStep, TaskWork, TaskFaults, TaskIgnored, TaskStarts,
     TaskTimesOut, TaskStillPending, TaskCompletes, TaskRuns, TaskPatches,
     TaskSecretFails, TaskConnectFails, TaskCheckFails, TaskRunFails,
     TaskPatchFails, TaskWillPatch
<1>e. /\ "Completed" \in jobRec'.new.conds => accepted' = Index
      /\ CompletedMeansAccepted'
  BY <1>b, <1>c, <1>d DEF AcceptedInv, CompletedMeansAccepted, TheJob
<1>f. ASSUME UNCHANGED taskVersions
      PROVE  \A t \in TaskSnapshots', j \in Index : Vouched(j, t[j])'
  BY <1>c, <1>f DEF AcceptedInv, Vouched, TaskSnapshots
<1>g. ASSUME \A j \in Index \ {i} : taskRec'[j] = taskRec[j],
             \/ taskRec'[i].step = "idle"
             \/ Vouched(i, taskRec[i].base)' /\ Vouched(i, taskRec[i].new)'
      PROVE  \A j \in Index : Busy(j)' =>
               Vouched(j, taskRec[j].base)' /\ Vouched(j, taskRec[j].new)'
  BY <1>c, <1>g DEF AcceptedInv, Vouched, Busy
<1>h. ASSUME NEW again, TaskReturns(i, again)
      PROVE  /\ taskRec'[i].step = "idle"
             /\ \A j \in Index \ {i} : taskRec'[j] = taskRec[j]
  BY <1>a, <1>h DEF TaskReturns, IdleTaskRecord
<1>i. ASSUME NEW new, NEW withError, TaskWillPatch(i, new, withError)
      PROVE  /\ UNCHANGED taskVersions
             /\ taskRec'[i].base = taskRec[i].base /\ taskRec'[i].new = new
             /\ \A j \in Index \ {i} : taskRec'[j] = taskRec[j]
  BY <1>a, <1>i DEF TaskWillPatch, TaskRecord
<1>j. ASSUME Busy(i)
      PROVE  /\ taskRec[i].base.conds = {}
             /\ taskRec[i].new.conds \in {{}, {"Completed"}, {"Failed"}}
             /\ Vouched(i, taskRec[i].base) /\ Vouched(i, taskRec[i].new)
  BY <1>j DEF OrderInv, TaskRecordsSound, AcceptedInv
<1>k. ASSUME Busy(i), TaskPatched(i), accepted' = accepted
      PROVE  \A t \in TaskSnapshots', j \in Index : Vouched(j, t[j])'
  <2>. DEFINE base == taskRec[i].base
              new  == taskRec[i].new
              task == [exists  |-> TheTasks[i].exists,
                       started |-> Merge(base.started, new.started,
                                         TheTasks[i].started),
                       conds   |-> Merge(base.conds, new.conds, TheTasks[i].conds)]
  <2>1. TheTasks \in [Index -> TaskObject]
    BY EndsOfWindow DEF TypeOK, ClusterTypeOK, TheTasks
  <2>2. task \in TaskObject /\ PutTask(i, task)
    BY <1>a, <1>k, <2>1 DEF TaskObject, Merge, TaskPatched, PatchTask
  <2>3. /\ TheTasks' = [TheTasks EXCEPT ![i] = task]
        /\ TaskSnapshots' \subseteq TaskSnapshots \cup {TheTasks'}
        /\ TheTasks \in TaskSnapshots
    <3>. HIDE DEF task
    <3>. QED
      BY <2>2, SnapshotsAfterWrite
  <2>4. Vouched(i, task)
    <3>1. Vouched(i, TheTasks[i])
      BY <2>3 DEF AcceptedInv
    <3>2. base.started \in BOOLEAN /\ new.started \in BOOLEAN
          /\ TheTasks[i].started \in BOOLEAN
      BY <1>a, <2>1 DEF TaskObject
    <3>3. CASE new.conds = {}
      BY <1>j, <1>k, <3>1, <3>2, <3>3 DEF Vouched, Merge
    <3>4. CASE new.conds = {"Completed"}
      BY <1>j, <1>k, <3>4 DEF Vouched
    <3>5. CASE new.conds = {"Failed"}
      BY <1>j, <1>k, <3>5 DEF Vouched, Merge
    <3>. QED
      BY <1>j, <1>k, <3>3, <3>4, <3>5
  <2>5. \A j \in Index : Vouched(j, TheTasks'[j])
    <3>. HIDE DEF task
    <3>. QED
      BY <2>1, <2>3, <2>4 DEF AcceptedInv
  <2>. QED
    BY <1>k, <2>3, <2>5 DEF AcceptedInv, Vouched
<1>l. ASSUME Busy(i), NEW c \in {"Completed", "Failed"}
      PROVE  /\ TaskStatusSet(taskRec[i].base, c).conds = {c}
             /\ TaskStatusSet(taskRec[i].base, c).started = taskRec[i].base.started
             /\ Started(taskRec[i].base).conds = {}
             /\ TaskStatusSet(Started(taskRec[i].base), c).conds = {c}
  BY <1>a, <1>j, <1>l DEF TaskStatusSet, Started, TaskObject
<1>1. CASE TaskIgnored(i)
  <2>1. UNCHANGED <<taskVersions, taskRec>>
    BY <1>1 DEF TaskIgnored, taskVars
  <2>2. \A j \in Index : Busy(j)' =>
          Vouched(j, taskRec[j].base)' /\ Vouched(j, taskRec[j].new)'
    BY <1>c, <2>1 DEF AcceptedInv, Vouched, Busy
  <2>. QED
    BY <1>e, <1>f, <2>1, <2>2 DEF AcceptedInv
<1>2. CASE TaskStarts(i)
  <2>1. Cached(taskVersions) \in TaskSnapshots
    BY EndsOfWindow DEF TypeOK, ClusterTypeOK, TaskSnapshots
  <2>2. /\ UNCHANGED taskVersions
        /\ taskRec'[i].base = Cached(taskVersions)[i]
        /\ taskRec'[i].new = Cached(taskVersions)[i]
        /\ \A j \in Index \ {i} : taskRec'[j] = taskRec[j]
    BY <1>2, <1>a DEF TaskStarts, TaskRecord
  <2>3. Vouched(i, taskRec[i].base)' /\ Vouched(i, taskRec[i].new)'
    BY <1>c, <2>1, <2>2 DEF AcceptedInv, Vouched
  <2>. QED
    BY <1>e, <1>f, <1>g, <2>2, <2>3 DEF AcceptedInv
<1>3. CASE TaskTimesOut(i) \/ TaskConnectFails(i)
  <2>. DEFINE new == TaskStatusSet(taskRec[i].base, "Failed")
  <2>1. Busy(i) /\ \E withError : TaskWillPatch(i, new, withError)
    BY <1>3 DEF TaskTimesOut, TaskConnectFails, Checking, Busy
  <2>2. Vouched(i, taskRec[i].base)' /\ Vouched(i, taskRec[i].new)'
    BY <1>c, <1>i, <1>j, <1>l, <2>1 DEF Vouched
  <2>. QED
    BY <1>e, <1>f, <1>g, <1>i, <2>1, <2>2 DEF AcceptedInv
<1>4. CASE TaskCompletes(i)
  <2>1. Busy(i) /\ taskRec[i].base.started
        /\ TaskWillPatch(i, TaskStatusSet(taskRec[i].base, "Completed"), FALSE)
    BY <1>4 DEF TaskCompletes, Checking, Busy
  <2>2. i \in accepted
    BY <1>j, <2>1 DEF Vouched
  <2>3. Vouched(i, taskRec[i].base)' /\ Vouched(i, taskRec[i].new)'
    BY <1>c, <2>2 DEF Vouched
  <2>. QED
    BY <1>e, <1>f, <1>g, <1>i, <2>1, <2>3 DEF AcceptedInv
<1>5. CASE TaskRuns(i)
  <2>1. TaskWillPatch(i, Started(taskRec[i].base), FALSE) /\ i \in accepted'
    BY <1>5 DEF TaskRuns
  <2>2. Vouched(i, taskRec[i].base)' /\ Vouched(i, taskRec[i].new)'
    BY <2>1 DEF Vouched
  <2>. QED
    BY <1>e, <1>f, <1>g, <1>i, <2>1, <2>2 DEF AcceptedInv
<1>6. CASE TaskRunFails(i)
  <2>1. Busy(i)
        /\ TaskWillPatch(i, TaskStatusSet(Started(taskRec[i].base), "Failed"), TRUE)
    BY <1>6 DEF TaskRunFails, NewRun, Busy
  <2>2. Vouched(i, taskRec[i].base)' /\ Vouched(i, taskRec[i].new)'
    BY <1>c, <1>i, <1>j, <1>l, <2>1 DEF Vouched
  <2>. QED
    BY <1>e, <1>f, <1>g, <1>i, <2>1, <2>2 DEF AcceptedInv
<1>7. CASE TaskStillPending(i) \/ TaskSecretFails(i) \/ TaskCheckFails(i)
  <2>1. UNCHANGED taskVersions /\ \E again : TaskReturns(i, again)
    BY <1>7 DEF TaskStillPending, TaskSecretFails, TaskCheckFails
  <2>. QED
    BY <1>e, <1>f, <1>g, <1>h, <2>1 DEF AcceptedInv
<1>8. CASE TaskPatches(i) \/ TaskPatchFails(i)
  <2>1. /\ Busy(i) /\ accepted' = accepted
        /\ UNCHANGED taskVersions \/ TaskPatched(i)
        /\ \E again : TaskReturns(i, again)
    BY <1>8 DEF TaskPatches, TaskPatchFails, Busy, history
  <2>2. \A t \in TaskSnapshots', j \in Index : Vouched(j, t[j])'
    BY <1>f, <1>k, <2>1
  <2>. QED
    BY <1>e, <1>g, <1>h, <2>1, <2>2 DEF AcceptedInv
<1>. QED
  BY <1>1, <1>2, <1>3, <1>4, <1>5, <1>6, <1>7, <1>8
     DEF TaskStep, TaskWork, TaskFaults

\* Watches, resyncs, the machine, the clock and a restart change nothing that a
\* copy of a Task vouches for.
LEMMA EnvironmentAccepted ==
  ASSUME TypeOK, AcceptedInv, Environment \/ Restart
  PROVE  AcceptedInv'
<1>1. /\ accepted' = accepted
      /\ jobRec' = jobRec \/ jobRec' = IdleJobRecord
      /\ taskRec' = taskRec \/ taskRec' = [i \in Index |-> IdleTaskRecord]
  BY DEF Environment, ClusterStep, Expires, Restart, taskVars, history
<1>2. /\ "Completed" \in jobRec'.new.conds => accepted' = Index
      /\ \A i \in Index : Busy(i)' =>
           Vouched(i, taskRec[i].base)' /\ Vouched(i, taskRec[i].new)'
  BY <1>1 DEF AcceptedInv, Vouched, Busy, IdleJobRecord, NewJob, IdleTaskRecord
<1>3. TaskSnapshots' \subseteq TaskSnapshots
  <2>1. CASE DeliverTask
    <3>1. Len(taskVersions) >= 2
      BY <2>1 DEF DeliverTask, Lag, TypeOK, ClusterTypeOK
    <3>. QED
      BY <2>1, <3>1, TailWindow DEF DeliverTask, TaskSnapshots, TypeOK, ClusterTypeOK
  <2>2. CASE Restart
    BY <2>2, RelistWindow, EndsOfWindow
       DEF Restart, RelistAll, TaskSnapshots, TypeOK, ClusterTypeOK
  <2>3. CASE UNCHANGED taskVersions
    BY <2>3 DEF TaskSnapshots
  <2>. QED
    BY <2>1, <2>2, <2>3 DEF Environment, ClusterStep, Deliveries, DeliverJob,
       ResyncJob, ResyncTask, Expires, clusterVars
<1>4. TheJob' = TheJob
  <2>1. CASE DeliverJob
    <3>1. Len(jobVersions) >= 2
      BY <2>1 DEF DeliverJob, Lag, TypeOK, ClusterTypeOK
    <3>. QED
      BY <2>1, <3>1, TailWindow DEF DeliverJob, TheJob, TypeOK, ClusterTypeOK
  <2>2. CASE Restart
    BY <2>2, RelistWindow DEF Restart, RelistAll, TheJob, TypeOK, ClusterTypeOK
  <2>3. CASE UNCHANGED jobVersions
    BY <2>3 DEF TheJob
  <2>. QED
    BY <2>1, <2>2, <2>3 DEF Environment, ClusterStep, Deliveries, DeliverTask,
       ResyncJob, ResyncTask, Expires, clusterVars
<1>. QED
  BY <1>1, <1>2, <1>3, <1>4 DEF AcceptedInv, Vouched, CompletedMeansAccepted

\* At the start nothing is claimed of the BMC.
LEMMA AcceptedInit == Init => AcceptedInv
<1>. SUFFICES ASSUME Init PROVE AcceptedInv
  OBVIOUS
<1>1. /\ TaskSnapshots = {[i \in Index |-> NoTask]}
      /\ TheJob = NewJob
  BY DEF Init, ClusterInit, TheJob, TaskSnapshots, Latest
<1>. QED
  BY <1>1 DEF Init, JobControllerInit, TaskControllerInit, IdleJobRecord,
     IdleTaskRecord, NoTask, NewJob, AcceptedInv, Vouched,
     CompletedMeansAccepted, Busy

\* No step claims more of the BMC than it did.
LEMMA AcceptedStep == TypeOK /\ OrderInv /\ AcceptedInv /\ [Next]_vars => AcceptedInv'
<1>1. AcceptedInv /\ UNCHANGED vars => AcceptedInv'
  BY DEF vars, clusterVars, taskVars, history, AcceptedInv, Vouched,
     CompletedMeansAccepted, Busy, TheJob, TaskSnapshots
<1>. QED
  BY <1>1, JobStepAccepted, TaskStepAccepted, EnvironmentAccepted DEF Next

\* AcceptedInv, of which CompletedMeansAccepted is a part, is an invariant.
THEOREM AcceptedInvariant == Spec => []AcceptedInv
BY AcceptedInit, AcceptedStep, TypeCorrect, OrderInvariant, PTL DEF Spec

\* A Job that doReconcile marks Completed has had every action accepted by
\* the BMC, for every number of Tasks and every mixture of stale reads,
\* failed calls, lost replies and restarts.
THEOREM CompletedJobsRan == Spec => []CompletedMeansAccepted
<1>1. AcceptedInv => CompletedMeansAccepted
  BY DEF AcceptedInv
<1>. QED
  BY <1>1, AcceptedInvariant, PTL

(***************************************************************************)
(* One verdict.                                                            *)
(***************************************************************************)

\* The Job controller gives a verdict only to a copy that has none, and its
\* patch leaves the conditions of that copy or of the server.
LEMMA JobStepVerdict ==
  ASSUME TypeOK, VerdictInv, JobStep
  PROVE  VerdictInv'
<1>. DEFINE One(conds) == ~({"Completed", "Failed"} \subseteq conds)
<1>a. /\ jobRec.base \in JobObject /\ jobRec.new \in JobObject
      /\ jobRec.index \in Index
  BY DEF TypeOK, JobControllerTypeOK, JobRecord
<1>b. One(jobRec.new.conds) /\ One(TheJob.conds)
      /\ \A i \in Index : One(TheTasks[i].conds)
  BY DEF VerdictInv, OneVerdict
<1>c. ASSUME UNCHANGED taskVersions
      PROVE  \A i \in Index : One(TheTasks'[i].conds)
  BY <1>b, <1>c DEF TheTasks
<1>d. ASSUME UNCHANGED jobVersions
      PROVE  One(TheJob'.conds)
  BY <1>b, <1>d DEF TheJob
<1>e. ASSUME PatchJob(jobRec.base, jobRec.new)
      PROVE  One(TheJob'.conds)
  BY <1>a, <1>b, <1>e, JobAfterPatch DEF Merge
<1>f. ASSUME jobRec.step = "create", TaskCreated(jobRec.index)
      PROVE  \A i \in Index : One(TheTasks'[i].conds)
  <2>1. NewTask \in TaskObject /\ One(NewTask.conds)
    BY DEF NewTask, TaskObject
  <2>2. /\ TheTasks' = [TheTasks EXCEPT ![jobRec.index] = NewTask]
        /\ TheTasks \in [Index -> TaskObject]
    BY <1>a, <1>f, <2>1, SnapshotsAfterWrite DEF TaskCreated
  <2>. QED
    BY <1>a, <1>b, <2>1, <2>2
<1>g. ASSUME NEW job \in JobObject, ~Terminal(job),
             NEW c \in {"Running", "Completed", "Failed"}
      PROVE  /\ One(JobStatusSet(job, c).conds)
             /\ c = "Running" => ~Terminal(JobStatusSet(job, c))
  BY <1>g DEF JobStatusSet, JobObject, Terminal
<1>h. ASSUME NEW new, NEW withError, JobWillPatch(new, withError)
      PROVE  jobRec'.new = new /\ jobRec'.step = "patch"
  BY <1>h DEF JobWillPatch, TypeOK, JobControllerTypeOK, JobRecord
<1>i. ASSUME NEW withError, JobReturns(withError)
      PROVE  One(jobRec'.new.conds) /\ jobRec'.step = "idle"
  BY <1>i DEF JobReturns, IdleJobRecord, NewJob
<1>j. ASSUME One(TheJob'.conds), \A i \in Index : One(TheTasks'[i].conds),
             One(jobRec'.new.conds),
             jobRec'.step \in {"list", "create"} => ~Terminal(jobRec'.new)
      PROVE  VerdictInv'
  BY <1>j DEF VerdictInv, OneVerdict
<1>1. CASE JobIgnored
  BY <1>1, <1>b, <1>c, <1>d, <1>j DEF JobIgnored
<1>2. CASE JobStarts
  <2>1. Cached(jobVersions) \in JobObject
    BY EndsOfWindow DEF TypeOK, ClusterTypeOK
  <2>2. jobRec'.new = JobStatusSet(Cached(jobVersions), "Running")
    BY <1>2 DEF JobStarts, TypeOK, JobControllerTypeOK, JobRecord
  <2>3. ~Terminal(Cached(jobVersions)) /\ UNCHANGED <<jobVersions, taskVersions>>
    BY <1>2 DEF JobStarts
  <2>. HIDE DEF One
  <2>. QED
    BY <1>c, <1>d, <1>g, <1>j, <2>1, <2>2, <2>3
<1>3. CASE JobWaits \/ JobLookupFails
  BY <1>3, <1>c, <1>d, <1>i, <1>j DEF JobWaits, JobLookupFails
<1>4. CASE JobSeesFailure \/ JobCreateConflicts
  <2>1. /\ jobRec'.new = JobStatusSet(jobRec.new, "Failed")
        /\ jobRec'.step = "patch"
    BY <1>4, <1>h DEF JobSeesFailure, JobCreateConflicts
  <2>2. ~Terminal(jobRec.new) /\ UNCHANGED <<jobVersions, taskVersions>>
    BY <1>4 DEF JobSeesFailure, JobCreateConflicts, VerdictInv, clusterVars
  <2>. HIDE DEF One
  <2>. QED
    BY <1>a, <1>c, <1>d, <1>g, <1>j, <2>1, <2>2
<1>5. CASE JobCompletes
  <2>1. /\ jobRec'.new = [JobStatusSet(jobRec.new, "Completed")
                            EXCEPT !.finished = TRUE]
        /\ jobRec'.step = "patch"
    BY <1>5, <1>h DEF JobCompletes
  <2>2. jobRec'.new.conds = JobStatusSet(jobRec.new, "Completed").conds
    BY <1>a, <2>1 DEF JobStatusSet, JobObject
  <2>3. ~Terminal(jobRec.new) /\ UNCHANGED <<jobVersions, taskVersions>>
    BY <1>5 DEF JobCompletes, VerdictInv, clusterVars
  <2>. HIDE DEF One
  <2>. QED
    BY <1>a, <1>c, <1>d, <1>g, <1>j, <2>1, <2>2, <2>3
<1>6. CASE JobPicksNext
  <2>1. jobRec'.new = jobRec.new /\ UNCHANGED <<jobVersions, taskVersions>>
    BY <1>6 DEF JobPicksNext, clusterVars, TypeOK, JobControllerTypeOK, JobRecord
  <2>2. ~Terminal(jobRec.new)
    BY <1>6 DEF JobPicksNext, VerdictInv
  <2>. HIDE DEF One
  <2>. QED
    BY <1>b, <1>c, <1>d, <1>j, <2>1, <2>2
<1>7. CASE JobCreatesTask
  <2>1. jobRec'.new = jobRec.new /\ jobRec'.step = "patch"
    BY <1>7, <1>h DEF JobCreatesTask
  <2>. HIDE DEF One
  <2>. QED
    BY <1>7, <1>b, <1>d, <1>f, <1>j, <2>1 DEF JobCreatesTask
<1>8. CASE JobCreateFails
  <2>1. /\ jobRec'.new = JobStatusSet(jobRec.new, "Failed")
        /\ jobRec'.step = "patch"
    BY <1>8, <1>h DEF JobCreateFails
  <2>2. ~Terminal(jobRec.new)
    BY <1>8 DEF JobCreateFails, VerdictInv
  <2>3. One(jobRec'.new.conds)
    BY <1>a, <1>g, <2>1, <2>2
  <2>. HIDE DEF One
  <2>. QED
    BY <1>8, <1>c, <1>d, <1>f, <1>j, <2>1, <2>3 DEF JobCreateFails
<1>9. CASE JobPatches \/ JobPatchFails
  <2>. HIDE DEF One
  <2>. QED
    BY <1>9, <1>c, <1>d, <1>e, <1>i, <1>j DEF JobPatches, JobPatchFails
<1>. QED
  BY <1>1, <1>2, <1>3, <1>4, <1>5, <1>6, <1>7, <1>8, <1>9
     DEF JobStep, JobWork, JobFaults

\* The Task controller's patch puts one verdict in the place of another.
LEMMA TaskStepVerdict ==
  ASSUME TypeOK, OrderInv, VerdictInv, NEW i \in Index, TaskStep(i)
  PROVE  VerdictInv'
<1>a. /\ taskRec[i].base \in TaskObject /\ taskRec[i].new \in TaskObject
  BY DEF TypeOK, TaskControllerTypeOK, TaskRecord
<1>b. UNCHANGED <<jobRec, jobVersions>>
  BY DEF TaskStep, TaskWork, TaskFaults, TaskIgnored, TaskStarts,
     TaskTimesOut, TaskStillPending, TaskCompletes, TaskRuns, TaskPatches,
     TaskSecretFails, TaskConnectFails, TaskCheckFails, TaskRunFails,
     TaskPatchFails, TaskWillPatch
<1>1. CASE UNCHANGED taskVersions
  BY <1>b, <1>1 DEF VerdictInv, OneVerdict, TheJob, TheTasks
<1>2. CASE taskRec[i].step = "patch" /\ TaskPatched(i)
  <2>. DEFINE base == taskRec[i].base
              new  == taskRec[i].new
              task == [exists  |-> TheTasks[i].exists,
                       started |-> Merge(base.started, new.started,
                                         TheTasks[i].started),
                       conds   |-> Merge(base.conds, new.conds, TheTasks[i].conds)]
  <2>1. TheTasks \in [Index -> TaskObject]
    BY EndsOfWindow DEF TypeOK, ClusterTypeOK, TheTasks
  <2>2. task \in TaskObject /\ PutTask(i, task)
    BY <1>a, <1>2, <2>1 DEF TaskObject, Merge, TaskPatched, PatchTask
  <2>3. TheTasks' = [TheTasks EXCEPT ![i] = task]
    <3>. HIDE DEF task
    <3>. QED
      BY <2>2, SnapshotsAfterWrite
  <2>4. new.conds \in {{}, {"Completed"}, {"Failed"}}
    BY <1>2 DEF OrderInv, TaskRecordsSound, Busy
  <2>5. task.conds = TheTasks[i].conds \/ task.conds = new.conds
    BY DEF Merge
  <2>6. ~({"Completed", "Failed"} \subseteq task.conds)
    BY <2>4, <2>5 DEF VerdictInv, OneVerdict
  <2>7. \A j \in Index : ~({"Completed", "Failed"} \subseteq TheTasks'[j].conds)
    <3>. HIDE DEF task
    <3>. QED
      BY <2>1, <2>3, <2>6 DEF VerdictInv, OneVerdict
  <2>. QED
    BY <1>b, <2>7 DEF VerdictInv, OneVerdict, TheJob
<1>3. UNCHANGED taskVersions \/ (taskRec[i].step = "patch" /\ TaskPatched(i))
  BY DEF TaskStep, TaskWork, TaskFaults, TaskIgnored, TaskStarts,
     TaskTimesOut, TaskStillPending, TaskCompletes, TaskRuns, TaskPatches,
     TaskSecretFails, TaskConnectFails, TaskCheckFails, TaskRunFails,
     TaskPatchFails, TaskWillPatch
<1>. QED
  BY <1>1, <1>2, <1>3

\* Watches, resyncs, the clock and a restart write nothing to the server.
LEMMA ServerUntouched ==
  ASSUME TypeOK, Environment \/ Restart
  PROVE  TheTasks' = TheTasks /\ TheJob' = TheJob
<1>1. TheTasks' = TheTasks
  <2>1. CASE DeliverTask
    <3>1. Len(taskVersions) >= 2
      BY <2>1 DEF DeliverTask, Lag, TypeOK, ClusterTypeOK
    <3>. QED
      BY <2>1, <3>1, TailWindow DEF DeliverTask, TheTasks, TypeOK, ClusterTypeOK
  <2>2. CASE Restart
    BY <2>2, RelistWindow DEF Restart, RelistAll, TheTasks, TypeOK, ClusterTypeOK
  <2>3. CASE UNCHANGED taskVersions
    BY <2>3 DEF TheTasks
  <2>. QED
    BY <2>1, <2>2, <2>3 DEF Environment, ClusterStep, Deliveries, DeliverJob,
       ResyncJob, ResyncTask, Expires, clusterVars
<1>2. TheJob' = TheJob
  <2>1. CASE DeliverJob
    <3>1. Len(jobVersions) >= 2
      BY <2>1 DEF DeliverJob, Lag, TypeOK, ClusterTypeOK
    <3>. QED
      BY <2>1, <3>1, TailWindow DEF DeliverJob, TheJob, TypeOK, ClusterTypeOK
  <2>2. CASE Restart
    BY <2>2, RelistWindow DEF Restart, RelistAll, TheJob, TypeOK, ClusterTypeOK
  <2>3. CASE UNCHANGED jobVersions
    BY <2>3 DEF TheJob
  <2>. QED
    BY <2>1, <2>2, <2>3 DEF Environment, ClusterStep, Deliveries, DeliverTask,
       ResyncJob, ResyncTask, Expires, clusterVars
<1>. QED
  BY <1>1, <1>2

\* So they give no verdict.
LEMMA EnvironmentVerdict ==
  ASSUME TypeOK, VerdictInv, Environment \/ Restart
  PROVE  VerdictInv'
<1>1. jobRec' = jobRec \/ jobRec' = IdleJobRecord
  BY DEF Environment, ClusterStep, Expires, Restart, taskVars
<1>. QED
  BY <1>1, ServerUntouched DEF VerdictInv, OneVerdict, IdleJobRecord, NewJob

\* At the start there is no verdict.
LEMMA VerdictInit == Init => VerdictInv
BY DEF Init, ClusterInit, JobControllerInit, IdleJobRecord, NewJob, NoTask,
   VerdictInv, OneVerdict, TheJob, TheTasks, Latest

\* No step adds a verdict to another.
LEMMA VerdictStep == TypeOK /\ OrderInv /\ VerdictInv /\ [Next]_vars => VerdictInv'
<1>1. VerdictInv /\ UNCHANGED vars => VerdictInv'
  BY DEF vars, clusterVars, VerdictInv, OneVerdict, TheJob, TheTasks
<1>. QED
  BY <1>1, JobStepVerdict, TaskStepVerdict, EnvironmentVerdict DEF Next

\* VerdictInv, of which OneVerdict is a part, is an invariant.
THEOREM VerdictInvariant == Spec => []VerdictInv
BY VerdictInit, VerdictStep, TypeCorrect, OrderInvariant, PTL DEF Spec

\* A Job or a Task is never both Completed and Failed, for every number of
\* Tasks, although a patch computed from a stale copy may replace the verdict.
THEOREM VerdictsExclude == Spec => []OneVerdict
<1>1. VerdictInv => OneVerdict
  BY DEF VerdictInv
<1>. QED
  BY <1>1, VerdictInvariant, PTL
=============================================================================
