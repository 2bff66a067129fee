--------------------------- MODULE LifecycleProofs ---------------------------
(***************************************************************************)
(* Jobs that follow one another under one name, for all numbers of Tasks   *)
(* and of Jobs.                                                            *)
(***************************************************************************)
EXTENDS JobLifecycle, KubeStoreProofs, FiniteSetTheorems

-----------------------------------------------------------------------------
(***************************************************************************)
(* Windows and types.                                                      *)
(***************************************************************************)

\* The objects a write may bring about are objects.
LEMMA ObjectTypes ==
  /\ NoJob \in JobObject /\ NoTask \in TaskObject
  /\ \A uid \in 0..MaxUid : OwnedTask(uid) \in TaskObject
  /\ IdleJobRec \in [step : {"idle", "list", "create", "patch"},
                     base : JobObject, new : JobObject, index : Index]
  /\ IdleTaskRec \in [step : {"idle", "got"}, base : TaskObject]
<1>1. 0 \in 0..MaxUid /\ 1 \in 1..NumTasks /\ 0 \in Index
  BY LifecycleAssumption DEF Index
<1>2. NoJob \in JobObject /\ NoTask \in TaskObject
  BY <1>1 DEF NoJob, NoTask, JobObject, TaskObject
<1>3. \A uid \in 0..MaxUid : OwnedTask(uid) \in TaskObject
  BY DEF OwnedTask, NoTask, TaskObject
<1>. QED
  BY <1>1, <1>2, <1>3 DEF IdleJobRec, IdleTaskRec

\* The versions of the Job and of the Tasks, the oldest and the latest.
LEMMA LifeWindows ==
  ASSUME LifeTypeOK
  PROVE  /\ TheJob \in JobObject /\ TheJob = jobs[Len(jobs)]
         /\ Len(jobs) \in DOMAIN jobs
         /\ Cached(jobs) \in JobObject /\ Cached(jobs) = jobs[1]
         /\ 1 \in DOMAIN jobs
         /\ \A p \in DOMAIN jobs : jobs[p] \in JobObject
         /\ TheTasks \in [Index -> TaskObject] /\ TheTasks = tasks[Len(tasks)]
         /\ Len(tasks) \in DOMAIN tasks
         /\ Cached(tasks) \in [Index -> TaskObject] /\ Cached(tasks) = tasks[1]
         /\ 1 \in DOMAIN tasks
         /\ \A p \in DOMAIN tasks : tasks[p] \in [Index -> TaskObject]
<1>1. /\ jobs \in Seq(JobObject) /\ Len(jobs) >= 1
      /\ tasks \in Seq([Index -> TaskObject]) /\ Len(tasks) >= 1
  BY DEF LifeTypeOK
<1>2. /\ Latest(jobs) \in JobObject /\ Latest(jobs) = jobs[Len(jobs)]
      /\ Len(jobs) \in DOMAIN jobs
      /\ Cached(jobs) \in JobObject /\ Cached(jobs) = jobs[1]
      /\ 1 \in DOMAIN jobs
      /\ \A p \in DOMAIN jobs : jobs[p] \in JobObject
  BY <1>1, EndsOfWindow
<1>3. /\ Latest(tasks) \in [Index -> TaskObject]
      /\ Latest(tasks) = tasks[Len(tasks)]
      /\ Len(tasks) \in DOMAIN tasks
      /\ Cached(tasks) \in [Index -> TaskObject] /\ Cached(tasks) = tasks[1]
      /\ 1 \in DOMAIN tasks
      /\ \A p \in DOMAIN tasks : tasks[p] \in [Index -> TaskObject]
  BY <1>1, EndsOfWindow
<1>. QED
  BY <1>2, <1>3 DEF TheJob, TheTasks

\* PutJob: the Job's window holds its old versions and the new one, the latest.
LEMMA JobPut ==
  ASSUME LifeTypeOK, NEW job \in JobObject, PutJob(job)
  PROVE  /\ jobs' \in Seq(JobObject) /\ Len(jobs') >= 1
         /\ TheJob' = job
         /\ \A p \in DOMAIN jobs' :
              jobs'[p] = job \/ \E q \in DOMAIN jobs : jobs'[p] = jobs[q]
<1>1. jobs' = Put(jobs, job) /\ jobs \in Seq(JobObject) /\ Len(jobs) >= 1
  BY DEF PutJob, LifeTypeOK
<1>2. /\ Put(jobs, job) \in Seq(JobObject) /\ Len(Put(jobs, job)) >= 1
      /\ Latest(Put(jobs, job)) = job
      /\ \A p \in DOMAIN Put(jobs, job) :
           Put(jobs, job)[p] = job \/ \E q \in DOMAIN jobs :
                                        Put(jobs, job)[p] = jobs[q]
  BY <1>1, PutWindow
<1>. QED
  BY <1>1, <1>2 DEF TheJob

\* PutTask: the same for the Tasks, of which one is written.
LEMMA TaskPut ==
  ASSUME LifeTypeOK, NEW i \in Index, NEW task \in TaskObject, PutTask(i, task)
  PROVE  /\ tasks' \in Seq([Index -> TaskObject]) /\ Len(tasks') >= 1
         /\ TheTasks'[i] = task
         /\ \A j \in Index : j # i => TheTasks'[j] = TheTasks[j]
         /\ \A p \in DOMAIN tasks', j \in Index :
              \/ j = i /\ tasks'[p][j] = task
              \/ \E q \in DOMAIN tasks : tasks'[p][j] = tasks[q][j]
<1>. DEFINE T == [Index -> TaskObject]
            v == [TheTasks EXCEPT ![i] = task]
<1>1. tasks' = Put(tasks, v) /\ tasks \in Seq(T) /\ Len(tasks) >= 1
  BY DEF PutTask, LifeTypeOK
<1>2. /\ v \in T /\ v[i] = task
      /\ \A j \in Index : j # i => v[j] = TheTasks[j]
      /\ TheTasks = tasks[Len(tasks)] /\ Len(tasks) \in DOMAIN tasks
  BY LifeWindows
<1>. HIDE DEF v, T
<1>3. /\ Put(tasks, v) \in Seq(T) /\ Len(Put(tasks, v)) >= 1
      /\ Latest(Put(tasks, v)) = v
      /\ \A p \in DOMAIN Put(tasks, v) :
           Put(tasks, v)[p] = v \/ \E q \in DOMAIN tasks :
                                     Put(tasks, v)[p] = tasks[q]
  BY <1>1, <1>2, PutWindow
<1>4. TheTasks' = v
  BY <1>1, <1>3 DEF TheTasks
<1>5. ASSUME NEW p \in DOMAIN tasks', NEW j \in Index
      PROVE  \/ j = i /\ tasks'[p][j] = task
             \/ \E q \in DOMAIN tasks : tasks'[p][j] = tasks[q][j]
  <2>1. CASE tasks'[p] = v
    BY <1>2, <2>1
  <2>2. CASE \E q \in DOMAIN tasks : tasks'[p] = tasks[q]
    BY <2>2
  <2>. QED
    BY <1>1, <1>3, <2>1, <2>2
<1>. QED
  BY <1>1, <1>2, <1>3, <1>4, <1>5 DEF T

\* A delivered event drops the oldest version.
LEMMA JobDelivered ==
  ASSUME LifeTypeOK, Lag(jobs) > 0, jobs' = Tail(jobs)
  PROVE  /\ jobs' \in Seq(JobObject) /\ Len(jobs') >= 1
         /\ TheJob' = TheJob
         /\ \A p \in DOMAIN jobs' : \E q \in DOMAIN jobs : jobs'[p] = jobs[q]
<1>1. jobs \in Seq(JobObject) /\ Len(jobs) >= 2
  BY DEF LifeTypeOK, Lag
<1>. QED
  BY <1>1, TailWindow DEF TheJob

LEMMA TaskDelivered ==
  ASSUME LifeTypeOK, Lag(tasks) > 0, tasks' = Tail(tasks)
  PROVE  /\ tasks' \in Seq([Index -> TaskObject]) /\ Len(tasks') >= 1
         /\ TheTasks' = TheTasks
         /\ \A p \in DOMAIN tasks' : \E q \in DOMAIN tasks : tasks'[p] = tasks[q]
<1>1. tasks \in Seq([Index -> TaskObject]) /\ Len(tasks) >= 2
  BY DEF LifeTypeOK, Lag
<1>. QED
  BY <1>1, TailWindow DEF TheTasks


-----------------------------------------------------------------------------
(***************************************************************************)
(* What the steps of the controllers write.                                *)
(***************************************************************************)

\* The Tasks that count are Tasks, finitely many.
LEMMA CountType ==
  ASSUME LifeTypeOK
  PROVE  CompletedTasksCount \in Nat
<1>1. IsFiniteSet(Index)
  BY LifecycleAssumption, FS_Interval DEF Index
<1>2. {i \in Listed : Has(i, "Completed")} \subseteq Index
  BY DEF Listed
<1>. QED
  BY <1>1, <1>2, FS_Subset, FS_CardinalityType DEF CompletedTasksCount

\* The deferred patch is prepared: only the conditions may be new.
LEMMA WillPatch ==
  ASSUME LifeTypeOK, NEW condition \in SUBSET {"Completed", "Failed"},
         JobWillPatch(condition)
  PROVE  /\ jobRec' \in [step : {"idle", "list", "create", "patch"},
                         base : JobObject, new : JobObject, index : Index]
         /\ jobRec'.step = "patch" /\ jobRec'.base = jobRec.base
         /\ jobRec'.new.conds = jobRec.new.conds \cup condition
<1>1. /\ jobRec \in [step : {"idle", "list", "create", "patch"},
                     base : JobObject, new : JobObject, index : Index]
      /\ 0 \in Index
  BY LifecycleAssumption DEF LifeTypeOK, Index
<1>2. /\ jobRec.new \in JobObject
      /\ jobRec.new.conds \cup condition \in SUBSET {"Running", "Completed", "Failed"}
      /\ (jobRec.new.finished \/ condition = {"Completed"}) \in BOOLEAN
  BY <1>1 DEF JobObject
<1>3. [jobRec.new EXCEPT !.conds = @ \cup condition,
                         !.finished = @ \/ condition = {"Completed"}] \in JobObject
  BY <1>2 DEF JobObject
<1>4. jobRec' = [jobRec EXCEPT
        !.step = "patch", !.index = 0,
        !.new = [jobRec.new EXCEPT !.conds = @ \cup condition,
                                   !.finished = @ \/ condition = {"Completed"}]]
  BY <1>1, <1>2 DEF JobWillPatch, JobObject
<1>. QED
  BY <1>1, <1>2, <1>3, <1>4 DEF JobObject

\* What a patch of the Job by name leaves: the Job that is there, each condition
\* either its own or the reconciliation's.
LEMMA PatchedJob ==
  ASSUME LifeTypeOK, JobPatches
  PROVE  \E job \in JobObject :
           /\ PutJob(job)
           /\ job.uid = TheJob.uid /\ job.len = TheJob.len
           /\ job.deleting = TheJob.deleting
           /\ job.conds \in {jobRec.new.conds, TheJob.conds}
<1>. DEFINE base == jobRec.base
            new  == jobRec.new
            job  == [TheJob EXCEPT
                       !.conds    = Merge(base.conds, new.conds, @),
                       !.finished = Merge(base.finished, new.finished, @)]
<1>1. TheJob \in JobObject /\ base \in JobObject /\ new \in JobObject
  BY LifeWindows DEF LifeTypeOK
<1>2. /\ Merge(base.conds, new.conds, TheJob.conds) \in {new.conds, TheJob.conds}
      /\ Merge(base.finished, new.finished, TheJob.finished) \in BOOLEAN
  BY <1>1 DEF Merge, JobObject
<1>3. PutJob(job)
  BY DEF JobPatches
<1>4. /\ job \in JobObject
      /\ job.uid = TheJob.uid /\ job.len = TheJob.len
      /\ job.deleting = TheJob.deleting
      /\ job.conds \in {new.conds, TheJob.conds}
  BY <1>1, <1>2 DEF JobObject
<1>. HIDE DEF job
<1>. QED
  BY <1>3, <1>4

\* No Task comes or goes, and each is one that was, or Task i with its owner
\* and, field by field, what the patch carries or what was there.
PatchedBy(i, started, conds) ==
  /\ \A j \in Index : TheTasks'[j].exists <=> TheTasks[j].exists
  /\ \A p \in DOMAIN tasks', j \in Index : \E q \in DOMAIN tasks :
       \/ tasks'[p][j] = tasks[q][j]
       \/ /\ j = i /\ tasks[q][i].exists /\ TheTasks[i].exists
          /\ tasks'[p][i].owner = tasks[q][i].owner
          /\ tasks'[p][i].started \in {started, tasks[q][i].started}
          /\ tasks'[p][i].conds \in {conds, tasks[q][i].conds}

\* What a patch of a Task by name leaves: its owner as it was, the rest its own
\* or the reconciliation's, and no Task where there was none.
LEMMA PatchedTask ==
  ASSUME LifeTypeOK, NEW i \in Index, NEW started \in BOOLEAN,
         NEW conds \in SUBSET {"Completed", "Failed"},
         TaskPatches(i, started, conds)
  PROVE  /\ tasks' \in Seq([Index -> TaskObject]) /\ Len(tasks') >= 1
         /\ PatchedBy(i, started, conds)
<1>. DEFINE base == taskRec[i].base
            task == [TheTasks[i] EXCEPT
                       !.started = Merge(base.started, started, @),
                       !.conds   = Merge(base.conds, conds, @)]
<1>1. /\ TheTasks[i] \in TaskObject /\ base \in TaskObject
      /\ TheTasks = tasks[Len(tasks)] /\ Len(tasks) \in DOMAIN tasks
  BY LifeWindows DEF LifeTypeOK
<1>2. CASE ~TheTasks[i].exists
  <2>1. tasks' = tasks
    BY <1>2 DEF TaskPatches
  <2>2. /\ tasks' \in Seq([Index -> TaskObject]) /\ Len(tasks') >= 1
        /\ TheTasks' = TheTasks
    BY <2>1 DEF LifeTypeOK, TheTasks
  <2>3. \A p \in DOMAIN tasks', j \in Index : tasks'[p][j] = tasks[p][j]
    BY <2>1
  <2>. QED
    BY <2>1, <2>2, <2>3 DEF PatchedBy
<1>3. CASE TheTasks[i].exists
  <2>1. PutTask(i, task)
    BY <1>3 DEF TaskPatches
  <2>2. /\ Merge(base.started, started, TheTasks[i].started)
             \in {started, TheTasks[i].started}
        /\ Merge(base.conds, conds, TheTasks[i].conds) \in {conds, TheTasks[i].conds}
    BY DEF Merge
  <2>3. /\ task \in TaskObject /\ task.exists
        /\ task.owner = TheTasks[i].owner
        /\ task.started \in {started, TheTasks[i].started}
        /\ task.conds \in {conds, TheTasks[i].conds}
    BY <1>1, <1>3, <2>2 DEF TaskObject
  <2>. HIDE DEF task
  <2>4. /\ tasks' \in Seq([Index -> TaskObject]) /\ Len(tasks') >= 1
        /\ TheTasks'[i] = task
        /\ \A j \in Index : j # i => TheTasks'[j] = TheTasks[j]
        /\ \A p \in DOMAIN tasks', j \in Index :
             \/ j = i /\ tasks'[p][j] = task
             \/ \E q \in DOMAIN tasks : tasks'[p][j] = tasks[q][j]
    BY <2>1, <2>3, TaskPut
  <2>5. \A j \in Index : TheTasks'[j].exists <=> TheTasks[j].exists
    BY <1>3, <2>3, <2>4
  <2>6. ASSUME NEW p \in DOMAIN tasks', NEW j \in Index
        PROVE  \E q \in DOMAIN tasks :
                 \/ tasks'[p][j] = tasks[q][j]
                 \/ /\ j = i /\ tasks[q][i].exists /\ TheTasks[i].exists
                    /\ tasks'[p][i].owner = tasks[q][i].owner
                    /\ tasks'[p][i].started \in {started, tasks[q][i].started}
                    /\ tasks'[p][i].conds \in {conds, tasks[q][i].conds}
    <3>1. CASE j = i /\ tasks'[p][j] = task
      <4>1. /\ Len(tasks) \in DOMAIN tasks
            /\ tasks[Len(tasks)][i].exists
            /\ tasks'[p][i].owner = tasks[Len(tasks)][i].owner
            /\ tasks'[p][i].started \in {started, tasks[Len(tasks)][i].started}
            /\ tasks'[p][i].conds \in {conds, tasks[Len(tasks)][i].conds}
        BY <1>1, <1>3, <2>3, <3>1
      <4>. QED
        BY <1>3, <3>1, <4>1
    <3>2. CASE \E q \in DOMAIN tasks : tasks'[p][j] = tasks[q][j]
      BY <3>2
    <3>. QED
      BY <2>4, <3>1, <3>2
  <2>. QED
    BY <2>4, <2>5, <2>6 DEF PatchedBy
<1>. QED
  BY <1>2, <1>3


-----------------------------------------------------------------------------
(***************************************************************************)
(* Types and owners, whatever the users do.                                *)
(***************************************************************************)

\* A write of the Job alone keeps what the rest says.
LEMMA JobWriteTyped ==
  ASSUME LifeTypeOK, OwnersNamed, NEW job \in JobObject, PutJob(job),
         UNCHANGED <<patient, tasks, taskRec, ran>>, jobQueued' \in BOOLEAN,
         jobRec' \in {jobRec, IdleJobRec}, born' \in 0..MaxUid
  PROVE  LifeTypeOK' /\ OwnersNamed'
<1>1. jobs' \in Seq(JobObject) /\ Len(jobs') >= 1
  BY JobPut
<1>2. LifeTypeOK'
  BY <1>1, ObjectTypes DEF LifeTypeOK
<1>3. OwnersNamed'
  BY DEF OwnersNamed, IdleJobRec
<1>. QED
  BY <1>2, <1>3

\* What users and the garbage collector do to the Job.
LEMMA UsersTyped ==
  ASSUME LifeTypeOK, OwnersNamed, Users \/ RemoveJob
  PROVE  LifeTypeOK' /\ OwnersNamed'
<1>1. TheJob \in JobObject /\ born \in 0..MaxUid
  BY LifeWindows DEF LifeTypeOK
<1>2. CASE CreateJob
  <2>1. born' \in 0..MaxUid /\ born + 1 \in 0..MaxUid
    BY <1>1, <1>2, LifecycleAssumption DEF CreateJob
  <2>2. PICK n \in 1..NumTasks :
          PutJob([NoJob EXCEPT !.uid = born + 1, !.len = n])
    BY <1>2 DEF CreateJob
  <2>3. [NoJob EXCEPT !.uid = born + 1, !.len = n] \in JobObject
    BY <2>1, ObjectTypes DEF JobObject
  <2>. QED
    BY <1>2, <2>1, <2>2, <2>3, JobWriteTyped DEF CreateJob, LifeTypeOK
<1>3. CASE DeleteJob \/ RemoveJob
  <2>1. /\ [TheJob EXCEPT !.deleting = TRUE] \in JobObject
        /\ NoJob \in JobObject
    BY <1>1, ObjectTypes DEF JobObject
  <2>. QED
    BY <1>1, <1>3, <2>1, JobWriteTyped DEF DeleteJob, RemoveJob, LifeTypeOK
<1>4. CASE EditSpec
  <2>1. PICK n \in 1..NumTasks : PutJob([TheJob EXCEPT !.len = n])
    BY <1>4 DEF EditSpec
  <2>2. [TheJob EXCEPT !.len = n] \in JobObject
    BY <1>1 DEF JobObject
  <2>. QED
    BY <1>1, <1>4, <2>1, <2>2, JobWriteTyped DEF EditSpec, LifeTypeOK
<1>. QED
  BY <1>2, <1>3, <1>4 DEF Users

\* A Task is collected, or a watch event delivered.
LEMMA DeliveriesTyped ==
  ASSUME LifeTypeOK, OwnersNamed,
         DeliverJob \/ DeliverTask \/ \E i \in Index : CollectTask(i)
  PROVE  LifeTypeOK' /\ OwnersNamed'
<1>1. CASE DeliverJob
  <2>1. jobs' \in Seq(JobObject) /\ Len(jobs') >= 1
    BY <1>1, JobDelivered DEF DeliverJob
  <2>. QED
    BY <1>1, <2>1 DEF DeliverJob, LifeTypeOK, OwnersNamed
<1>2. CASE DeliverTask
  <2>1. /\ tasks' \in Seq([Index -> TaskObject]) /\ Len(tasks') >= 1
        /\ \A p \in DOMAIN tasks' : \E q \in DOMAIN tasks : tasks'[p] = tasks[q]
    BY <1>2, TaskDelivered DEF DeliverTask
  <2>2. LifeTypeOK'
    BY <1>2, <2>1 DEF DeliverTask, LifeTypeOK
  <2>3. OwnersNamed'
    BY <1>2, <2>1 DEF DeliverTask, OwnersNamed
  <2>. QED
    BY <2>2, <2>3
<1>3. ASSUME NEW i \in Index, CollectTask(i)
      PROVE  LifeTypeOK' /\ OwnersNamed'
  <2>1. /\ tasks' \in Seq([Index -> TaskObject]) /\ Len(tasks') >= 1
        /\ \A p \in DOMAIN tasks', j \in Index :
             \/ j = i /\ tasks'[p][j] = NoTask
             \/ \E q \in DOMAIN tasks : tasks'[p][j] = tasks[q][j]
    BY <1>3, ObjectTypes, TaskPut DEF CollectTask
  <2>2. LifeTypeOK'
    BY <1>3, <2>1 DEF CollectTask, LifeTypeOK
  <2>3. OwnersNamed'
    BY <1>3, <2>1 DEF CollectTask, OwnersNamed, NoTask
  <2>. QED
    BY <2>2, <2>3
<1>. QED
  BY <1>1, <1>2, <1>3

\* The steps of a Job's reconciliation.
LEMMA JobWorkTyped ==
  ASSUME LifeTypeOK, OwnersNamed, JobWork
  PROVE  LifeTypeOK' /\ OwnersNamed'
<1>. DEFINE JobRecs == [step : {"idle", "list", "create", "patch"},
                        base : JobObject, new : JobObject, index : Index]
<1>1. jobRec \in JobRecs /\ IdleJobRec \in JobRecs /\ jobQueued \in BOOLEAN
  BY ObjectTypes DEF LifeTypeOK
<1>. HIDE DEF JobRecs
<1>a. ASSUME UNCHANGED <<patient, jobs, tasks, taskRec, born, ran>>,
             jobQueued' \in BOOLEAN, jobRec' \in JobRecs,
             jobRec'.step # "idle" => jobRec'.base.uid # 0
      PROVE  LifeTypeOK' /\ OwnersNamed'
  BY <1>a DEF LifeTypeOK, OwnersNamed, JobRecs
<1>2. CASE JobIgnored
  BY <1>1, <1>2, <1>a DEF JobIgnored, OwnersNamed
<1>3. CASE JobStarts
  <2>. DEFINE job == Cached(jobs)
  <2>1. job \in JobObject /\ job.uid # 0 /\ 0 \in Index
    BY <1>3, LifeWindows, LifecycleAssumption DEF JobStarts, Index
  <2>2. [job EXCEPT !.conds = @ \cup {"Running"}] \in JobObject
    BY <2>1 DEF JobObject
  <2>3. jobRec' = [step |-> "list", base |-> job, index |-> 0,
                   new |-> [job EXCEPT !.conds = @ \cup {"Running"}]]
    BY <1>3 DEF JobStarts
  <2>. HIDE DEF job
  <2>4. jobRec' \in JobRecs /\ jobRec'.base.uid # 0
    BY <2>1, <2>2, <2>3 DEF JobRecs
  <2>. QED
    BY <1>1, <1>3, <1>a, <2>4 DEF JobStarts
<1>4. CASE JobWaits \/ JobPanics \/ JobPatchFindsNone
  <2>1. jobRec' = IdleJobRec /\ jobQueued' \in BOOLEAN
    BY <1>1, <1>4 DEF JobWaits, JobPanics, JobPatchFindsNone, JobBack
  <2>2. IdleJobRec.step = "idle"
    BY DEF IdleJobRec
  <2>. QED
    BY <1>1, <1>4, <1>a, <2>1, <2>2 DEF JobWaits, JobPanics, JobPatchFindsNone
<1>5. CASE JobSeesFailure \/ JobCompletes \/ JobCreateConflicts
  <2>1. PICK c \in SUBSET {"Completed", "Failed"} : JobWillPatch(c)
    BY <1>5 DEF JobSeesFailure, JobCompletes, JobCreateConflicts
  <2>2. jobRec' \in JobRecs /\ jobRec'.base = jobRec.base
    BY <2>1, WillPatch DEF JobRecs
  <2>3. jobRec.step # "idle"
    BY <1>5 DEF JobSeesFailure, JobCompletes, JobCreateConflicts
  <2>. QED
    BY <1>1, <1>5, <1>a, <2>2, <2>3
       DEF JobSeesFailure, JobCompletes, JobCreateConflicts, OwnersNamed
<1>6. CASE JobPicksNext
  <2>1. /\ jobRec' = [jobRec EXCEPT !.step = "create",
                                    !.index = CompletedTasksCount]
        /\ jobRec.step # "idle" /\ CompletedTasksCount < jobRec.base.len
    BY <1>6 DEF JobPicksNext
  <2>2. jobRec.base.len \in 1..NumTasks
    BY DEF LifeTypeOK, JobObject
  <2>3. CompletedTasksCount \in Index
    BY <2>1, <2>2, CountType, LifecycleAssumption DEF Index
  <2>4. jobRec' \in JobRecs /\ jobRec'.base = jobRec.base
    BY <1>1, <2>1, <2>3 DEF JobRecs
  <2>. QED
    BY <1>1, <1>6, <1>a, <2>1, <2>4 DEF JobPicksNext, OwnersNamed
<1>7. CASE JobCreatesTask
  <2>1. /\ jobRec.index \in Index /\ jobRec.step # "idle"
        /\ jobRec.base.uid \in 0..MaxUid
    BY <1>7 DEF JobCreatesTask, LifeTypeOK, JobObject
  <2>2. jobRec.base.uid # 0
    BY <2>1 DEF OwnersNamed
  <2>3. OwnedTask(jobRec.base.uid) \in TaskObject
    BY <2>1, ObjectTypes
  <2>4. /\ tasks' \in Seq([Index -> TaskObject]) /\ Len(tasks') >= 1
        /\ \A p \in DOMAIN tasks', j \in Index :
             \/ tasks'[p][j] = OwnedTask(jobRec.base.uid)
             \/ \E q \in DOMAIN tasks : tasks'[p][j] = tasks[q][j]
    BY <1>7, <2>1, <2>3, TaskPut DEF JobCreatesTask
  <2>5. jobRec' \in JobRecs /\ jobRec'.base = jobRec.base
    BY <1>7, WillPatch DEF JobCreatesTask, JobRecs
  <2>6. LifeTypeOK'
    BY <1>7, <2>4, <2>5 DEF JobCreatesTask, LifeTypeOK, JobRecs
  <2>7. OwnersNamed'
    <3>1. OwnedTask(jobRec.base.uid).owner # 0
      BY <2>2 DEF OwnedTask, NoTask
    <3>. QED
      BY <1>7, <2>2, <2>4, <2>5, <3>1 DEF JobCreatesTask, OwnersNamed
  <2>. QED
    BY <2>6, <2>7
<1>8. CASE JobPatches
  <2>1. PICK job \in JobObject : PutJob(job)
    BY <1>8, PatchedJob
  <2>. QED
    BY <1>1, <1>8, <2>1, JobWriteTyped DEF JobPatches, JobBack, LifeTypeOK
<1>. QED
  BY <1>2, <1>3, <1>4, <1>5, <1>6, <1>7, <1>8 DEF JobWork


\* The steps of a Task's reconciliation.
LEMMA TaskWorkTyped ==
  ASSUME LifeTypeOK, OwnersNamed, NEW i \in Index, TaskWork(i)
  PROVE  LifeTypeOK' /\ OwnersNamed'
<1>1. /\ taskRec \in [Index -> [step : {"idle", "got"}, base : TaskObject]]
      /\ taskRec[i].base \in TaskObject
      /\ taskRec[i].step = "got" => taskRec[i].base.owner # 0
  BY DEF LifeTypeOK, OwnersNamed
<1>2. CASE TaskReads(i)
  <2>. DEFINE task == Cached(tasks)[i]
  <2>1. task \in TaskObject /\ task.owner # 0
    BY <1>2, LifeWindows DEF TaskReads, OwnersNamed
  <2>2. taskRec' = [taskRec EXCEPT ![i] = [step |-> "got", base |-> task]]
    BY <1>2 DEF TaskReads
  <2>. HIDE DEF task
  <2>3. LifeTypeOK'
    BY <1>1, <1>2, <2>1, <2>2 DEF TaskReads, LifeTypeOK
  <2>4. OwnersNamed'
    BY <1>1, <1>2, <2>1, <2>2 DEF TaskReads, OwnersNamed
  <2>. QED
    BY <2>3, <2>4
<1>3. ASSUME NEW started \in BOOLEAN, NEW conds \in SUBSET {"Completed", "Failed"},
             TaskPatches(i, started, conds), ran' \subseteq (1..MaxUid) \X Index
      PROVE  LifeTypeOK' /\ OwnersNamed'
  <2>0. /\ tasks' \in Seq([Index -> TaskObject]) /\ Len(tasks') >= 1
        /\ PatchedBy(i, started, conds)
    BY <1>3, PatchedTask
  <2>1. /\ tasks' \in Seq([Index -> TaskObject]) /\ Len(tasks') >= 1
        /\ \A p \in DOMAIN tasks', j \in Index : \E q \in DOMAIN tasks :
             \/ tasks'[p][j] = tasks[q][j]
             \/ /\ j = i /\ tasks[q][i].exists
                /\ tasks'[p][i].owner = tasks[q][i].owner
    BY <2>0 DEF PatchedBy
  <2>2. /\ taskRec' = [taskRec EXCEPT ![i] = IdleTaskRec]
        /\ IdleTaskRec.step = "idle"
        /\ UNCHANGED <<patient, jobs, jobQueued, jobRec, born>>
    BY <1>3 DEF TaskPatches, IdleTaskRec
  <2>3. LifeTypeOK'
    BY <1>1, <1>3, <2>1, <2>2, ObjectTypes DEF LifeTypeOK
  <2>4. ASSUME NEW p \in DOMAIN tasks', NEW j \in Index, tasks'[p][j].exists
        PROVE  tasks'[p][j].owner # 0
    BY <2>1, <2>4 DEF OwnersNamed
  <2>5. \A j \in Index : taskRec'[j].step = "got" => taskRec'[j].base.owner # 0
    BY <1>1, <2>2 DEF OwnersNamed
  <2>6. OwnersNamed'
    BY <2>2, <2>4, <2>5 DEF OwnersNamed
  <2>. QED
    BY <2>3, <2>6
<1>4. ran \subseteq (1..MaxUid) \X Index
  BY DEF LifeTypeOK
<1>5. CASE TaskRuns(i)
  <2>1. taskRec[i].base.owner \in 1..MaxUid
    BY <1>1, <1>5 DEF TaskRuns, TaskObject
  <2>2. ran' \subseteq (1..MaxUid) \X Index
    BY <1>4, <1>5, <2>1 DEF TaskRuns
  <2>3. TaskPatches(i, TRUE, {})
    BY <1>5 DEF TaskRuns
  <2>. QED
    BY <1>3, <2>2, <2>3
<1>6. CASE TaskCompletes(i)
  <2>1. TaskPatches(i, TRUE, {"Completed"}) /\ ran' \subseteq (1..MaxUid) \X Index
    BY <1>4, <1>6 DEF TaskCompletes
  <2>. QED
    BY <1>3, <2>1
<1>7. CASE TaskFails(i)
  <2>1. /\ TaskPatches(i, taskRec[i].base.started, {"Failed"})
        /\ ran' \subseteq (1..MaxUid) \X Index
    BY <1>4, <1>7 DEF TaskFails
  <2>2. taskRec[i].base.started \in BOOLEAN
    BY <1>1 DEF TaskObject
  <2>. QED
    BY <1>3, <2>1, <2>2
<1>. QED
  BY <1>2, <1>5, <1>6, <1>7 DEF TaskWork

\* Every step keeps the types and the owners.
LEMMA StepTyped ==
  ASSUME LifeTypeOK, OwnersNamed, [LifeNext]_lifeVars
  PROVE  LifeTypeOK' /\ OwnersNamed'
<1>1. CASE UNCHANGED lifeVars
  BY <1>1 DEF lifeVars, LifeTypeOK, OwnersNamed
<1>2. CASE LifeNext
  BY <1>2, UsersTyped, DeliveriesTyped, JobWorkTyped, TaskWorkTyped
     DEF LifeNext, Collector
<1>. QED
  BY <1>1, <1>2

\* In the beginning nothing exists.
LEMMA InitTyped ==
  ASSUME LifeInit
  PROVE  /\ LifeTypeOK /\ OwnersNamed
         /\ jobs = <<NoJob>> /\ TheJob = NoJob
         /\ jobRec.step = "idle"
         /\ \A i \in Index : ~TheTasks[i].exists /\ taskRec[i].step = "idle"
         /\ \A p \in DOMAIN tasks, i \in Index : ~tasks[p][i].exists
<1>1. /\ jobs = <<NoJob>> /\ tasks = <<[i \in Index |-> NoTask]>>
      /\ jobRec = IdleJobRec /\ taskRec = [i \in Index |-> IdleTaskRec]
  BY DEF LifeInit
<1>2. [i \in Index |-> NoTask] \in [Index -> TaskObject]
  BY ObjectTypes
<1>3. LifeTypeOK
  <2>1. /\ jobs \in Seq(JobObject) /\ Len(jobs) >= 1
        /\ tasks \in Seq([Index -> TaskObject]) /\ Len(tasks) >= 1
    BY <1>1, <1>2, ObjectTypes
  <2>2. taskRec \in [Index -> [step : {"idle", "got"}, base : TaskObject]]
    BY <1>1, ObjectTypes
  <2>3. patient \in BOOLEAN /\ jobQueued \in BOOLEAN /\ born = 0 /\ ran = {}
    BY DEF LifeInit
  <2>4. jobRec \in [step : {"idle", "list", "create", "patch"},
                   base : JobObject, new : JobObject, index : Index]
    BY <1>1, ObjectTypes
  <2>5. born \in 0..MaxUid /\ ran \subseteq (1..MaxUid) \X Index
    BY <2>3, LifecycleAssumption
  <2>. QED
    BY <2>1, <2>2, <2>3, <2>4, <2>5 DEF LifeTypeOK
<1>4. /\ TheJob = NoJob
      /\ \A i \in Index : TheTasks[i] = NoTask
      /\ \A p \in DOMAIN tasks, i \in Index : tasks[p][i] = NoTask
  BY <1>1 DEF TheJob, TheTasks, Latest
<1>5. /\ jobRec.step = "idle"
      /\ \A i \in Index : taskRec[i].step = "idle"
  BY <1>1 DEF IdleJobRec, IdleTaskRec
<1>6. ~NoTask.exists
  BY DEF NoTask
<1>7. OwnersNamed
  BY <1>4, <1>5, <1>6 DEF OwnersNamed
<1>. QED
  BY <1>1, <1>3, <1>4, <1>5, <1>6, <1>7

\* The types, for users of either kind.
THEOREM LifeTypeCorrect == LifeSpec => []LifeTypeOK
<1>1. LifeInit => LifeTypeOK /\ OwnersNamed
  BY InitTyped
<1>2. LifeTypeOK /\ OwnersNamed /\ [LifeNext]_lifeVars => (LifeTypeOK /\ OwnersNamed)'
  BY StepTyped
<1>. QED
  BY <1>1, <1>2, PTL DEF LifeSpec


-----------------------------------------------------------------------------
(***************************************************************************)
(* Users who wait: one Job at a time.                                      *)
(***************************************************************************)

\* What LifeInv says of the last Job, which has n Tasks.
OfLastJob(n) == OneJob(n) /\ ItsTasks(n) /\ CompletedEarned(n) /\ TasksKept

\* The Job the server holds, or the cache, is none or the last one.
LEMMA LastJob ==
  ASSUME LifeTypeOK, NEW n \in 1..NumTasks, OfLastJob(n),
         NEW job \in {TheJob, Cached(jobs)}
  PROVE  /\ IF job.uid = 0 THEN job = NoJob
                           ELSE job.uid = born /\ job.len = n
         /\ "Completed" \in job.conds => AllRan(n)
         /\ \E p \in DOMAIN jobs : job = jobs[p]
<1>1. \E p \in DOMAIN jobs : job = jobs[p]
  BY LifeWindows
<1>. QED
  BY <1>1 DEF OfLastJob, OneJob, CompletedEarned

\* doReconcile never counts more Tasks than the Job has; when it counts as
\* many, all of them have run.
LEMMA CountsItsOwn ==
  ASSUME LifeTypeOK, NEW n \in 1..NumTasks, OfLastJob(n)
  PROVE  /\ CompletedTasksCount <= n
         /\ CompletedTasksCount = n => AllRan(n)
<1>. DEFINE C == {i \in Listed : Has(i, "Completed")}
<1>1. \A i \in C : i \in 0..(n - 1) /\ <<born, i>> \in ran
  <2>. SUFFICES ASSUME NEW i \in C
                PROVE  i \in 0..(n - 1) /\ <<born, i>> \in ran
    OBVIOUS
  <2>1. i \in Index /\ Cached(tasks)[i].exists /\ "Completed" \in Cached(tasks)[i].conds
    BY DEF Listed, Has
  <2>2. ForTheJob(Cached(tasks)[i], n, i)
    BY <2>1, LifeWindows DEF OfLastJob, ItsTasks
  <2>. QED
    BY <2>1, <2>2, LifecycleAssumption DEF ForTheJob, Index
<1>2. IsFiniteSet(0..(n - 1)) /\ Cardinality(0..(n - 1)) = n
  BY FS_Interval
<1>3. C \subseteq 0..(n - 1)
  BY <1>1
<1>4. Cardinality(C) <= n /\ (Cardinality(C) = n => C = 0..(n - 1))
  <2>. HIDE DEF C
  <2>. QED
    BY <1>2, <1>3, FS_Subset
<1>5. CompletedTasksCount = Cardinality(C)
  BY DEF CompletedTasksCount
<1>6. C = 0..(n - 1) => AllRan(n)
  BY <1>1 DEF AllRan
<1>. QED
  BY <1>4, <1>5, <1>6

\* What has been sent stays sent.
LEMMA SentForGood ==
  ASSUME NEW n \in 1..NumTasks, UNCHANGED born, ran \subseteq ran'
  PROVE  /\ AllRan(n) => AllRan(n)'
         /\ \A i \in Index : <<born, i>> \in ran => (<<born, i>> \in ran)'
BY DEF AllRan

\* A write of the Job that stays the last one, and stays earned.
LEMMA JobWriteKeeps ==
  ASSUME LifeTypeOK, NEW n \in 1..NumTasks, OfLastJob(n),
         NEW job \in JobObject, PutJob(job),
         UNCHANGED <<tasks, taskRec, born, ran>>,
         jobRec' \in {jobRec, IdleJobRec},
         IF job.uid = 0 THEN job = NoJob ELSE job.uid = born /\ job.len = n,
         "Completed" \in job.conds => AllRan(n),
         job.uid # 0 /\ ~job.deleting =>
           /\ TheJob.uid # 0 /\ ~TheJob.deleting
           /\ "Failed" \in job.conds => \E i \in Index : TheTasks[i].exists
  PROVE  OfLastJob(n)'
<1>1. /\ TheJob' = job
      /\ \A p \in DOMAIN jobs' :
           jobs'[p] = job \/ \E q \in DOMAIN jobs : jobs'[p] = jobs[q]
  BY JobPut
<1>2. jobRec' = jobRec \/ jobRec'.step = "idle"
  BY DEF IdleJobRec
<1>3. OneJob(n)'
  BY <1>1, <1>2 DEF OfLastJob, OneJob
<1>4. ItsTasks(n)'
  BY DEF OfLastJob, ItsTasks, ForTheJob
<1>5. CompletedEarned(n)'
  BY <1>1, <1>2 DEF OfLastJob, CompletedEarned, AllRan
<1>6. TasksKept'
  BY <1>1, <1>2 DEF OfLastJob, TasksKept, TheTasks
<1>. QED
  BY <1>3, <1>4, <1>5, <1>6 DEF OfLastJob

\* Nothing but the reconciliation of the Job moves.
LEMMA JobRecKeeps ==
  ASSUME NEW n \in 1..NumTasks, OfLastJob(n),
         UNCHANGED <<jobs, tasks, taskRec, born, ran>>,
         jobRec'.step # "idle" =>
           /\ jobRec'.base.uid = born /\ jobRec'.base.len = n
           /\ "Completed" \in jobRec'.new.conds => AllRan(n)
           /\ "Failed" \in jobRec'.new.conds /\ TheJob.uid # 0 /\ ~TheJob.deleting =>
                \E i \in Index : TheTasks[i].exists,
         jobRec'.step = "create" => jobRec'.index < n
  PROVE  OfLastJob(n)'
<1>1. OneJob(n)' /\ ItsTasks(n)' /\ CompletedEarned(n)'
  BY DEF OfLastJob, OneJob, ItsTasks, ForTheJob, CompletedEarned, AllRan
<1>2. TasksKept'
  BY DEF OfLastJob, TasksKept, TheJob, TheTasks
<1>. QED
  BY <1>1, <1>2 DEF OfLastJob

\* A write of a Task by which no Task goes and which says what was done.
LEMMA TaskWriteKeeps ==
  ASSUME LifeTypeOK, NEW n \in 1..NumTasks, OfLastJob(n),
         UNCHANGED <<jobs, born>>, ran \subseteq ran',
         \A p \in DOMAIN tasks', j \in Index :
           \/ \E q \in DOMAIN tasks : tasks'[p][j] = tasks[q][j]
           \/ tasks'[p][j].exists =>
                ForTheJob(tasks[p][j], n, j)' /\ TheTasks'[j].exists,
         \A j \in Index : TheTasks[j].exists => TheTasks'[j].exists,
         \A j \in Index : taskRec'[j].step = "got" =>
                            taskRec[j].step = "got" /\ taskRec'[j] = taskRec[j],
         jobRec'.step # "idle" =>
           /\ jobRec.step # "idle" /\ jobRec'.base = jobRec.base
           /\ jobRec'.new.conds = jobRec.new.conds,
         jobRec'.step = "create" => jobRec' = jobRec
  PROVE  OfLastJob(n)'
<1>a. ASSUME NEW i \in Index, NEW task, ForTheJob(task, n, i)
      PROVE  /\ task.owner = born' /\ i < n
             /\ task.started \/ "Completed" \in task.conds => <<born', i>> \in ran'
  BY <1>a DEF ForTheJob
<1>1. OneJob(n)'
  BY DEF OfLastJob, OneJob
<1>2. ASSUME NEW p \in DOMAIN tasks', NEW j \in Index, tasks'[p][j].exists
      PROVE  \/ ForTheJob(tasks[p][j], n, j)' /\ TheTasks'[j].exists
             \/ \E q \in DOMAIN tasks : tasks[q][j].exists /\ tasks'[p][j] = tasks[q][j]
  BY <1>2
<1>3. ItsTasks(n)'
  <2>1. ASSUME NEW p \in DOMAIN tasks', NEW j \in Index, tasks'[p][j].exists
        PROVE  ForTheJob(tasks[p][j], n, j)'
    BY <1>2, <1>a, <2>1 DEF OfLastJob, ItsTasks, ForTheJob
  <2>2. ASSUME NEW j \in Index, taskRec'[j].step = "got"
        PROVE  ForTheJob(taskRec[j].base, n, j)'
    BY <1>a, <2>2 DEF OfLastJob, ItsTasks, ForTheJob
  <2>. QED
    BY <2>1, <2>2 DEF ItsTasks
<1>4. CompletedEarned(n)'
  BY SentForGood DEF OfLastJob, CompletedEarned
<1>5. TasksKept'
  <2>. SUFFICES ASSUME TheJob.uid # 0, ~TheJob.deleting
                PROVE  /\ \A p \in DOMAIN tasks' : \A j \in Index :
                            tasks'[p][j].exists => TheTasks'[j].exists
                       /\ \/ "Failed" \in TheJob.conds
                          \/ jobRec'.step # "idle" /\ "Failed" \in jobRec'.new.conds
                          => \E j \in Index : TheTasks'[j].exists
    BY DEF TasksKept, TheJob
  <2>. QED
    BY <1>2 DEF OfLastJob, TasksKept
<1>. QED
  BY <1>1, <1>3, <1>4, <1>5 DEF OfLastJob


\* A patient user creates a Job when nothing is left of the one before.
LEMMA PatientCreates ==
  ASSUME LifeTypeOK, patient, NEW n \in 1..NumTasks, OfLastJob(n), CreateJob
  PROVE  \E m \in 1..NumTasks : OfLastJob(m)'
<1>1. PICK m \in 1..NumTasks :
        PutJob([NoJob EXCEPT !.uid = born + 1, !.len = m])
  BY DEF CreateJob
<1>. DEFINE job == [NoJob EXCEPT !.uid = born + 1, !.len = m]
<1>2. /\ job \in JobObject /\ job.uid = born + 1 /\ job.len = m
      /\ job.uid # 0 /\ job.conds = {}
  <2>1. born + 1 \in 0..MaxUid /\ born + 1 # 0
    BY LifecycleAssumption DEF CreateJob, LifeTypeOK
  <2>. QED
    BY <2>1, ObjectTypes DEF JobObject, NoJob
<1>. HIDE DEF job
<1>3. /\ TheJob' = job
      /\ \A p \in DOMAIN jobs' :
           jobs'[p] = job \/ \E q \in DOMAIN jobs : jobs'[p] = jobs[q]
  BY <1>1, <1>2, JobPut DEF job
<1>4. /\ NothingLeft /\ TheJob.uid = 0
      /\ UNCHANGED <<tasks, jobRec, taskRec>> /\ born' = born + 1
  BY DEF CreateJob
<1>a. /\ \A q \in DOMAIN jobs : q = Len(jobs)
      /\ \A q \in DOMAIN tasks : q = Len(tasks)
  <2>1. /\ jobs \in Seq(JobObject) /\ Len(jobs) - 1 = 0
        /\ tasks \in Seq([Index -> TaskObject]) /\ Len(tasks) - 1 = 0
    BY <1>4 DEF NothingLeft, Lag, LifeTypeOK
  <2>. QED
    BY <2>1
<1>5. \A q \in DOMAIN jobs : jobs[q] = NoJob
  <2>1. TheJob = NoJob
    BY <1>4, LastJob
  <2>. QED
    BY <1>a, <2>1 DEF TheJob, Latest
<1>6. \A p \in DOMAIN tasks, i \in Index : ~tasks[p][i].exists
  BY <1>4, <1>a DEF NothingLeft, TheTasks, Latest
<1>7. jobRec'.step = "idle" /\ \A i \in Index : taskRec'[i].step = "idle"
  BY <1>4 DEF NothingLeft
<1>8. NoJob.uid = 0 /\ NoJob.conds = {}
  BY DEF NoJob
<1>9. OneJob(m)'
  BY <1>2, <1>3, <1>4, <1>5, <1>7, <1>8 DEF OneJob
<1>10. ItsTasks(m)'
  BY <1>4, <1>6, <1>7 DEF ItsTasks
<1>11. CompletedEarned(m)'
  BY <1>2, <1>3, <1>5, <1>7, <1>8 DEF CompletedEarned
<1>12. TasksKept'
  BY <1>2, <1>3, <1>4, <1>6, <1>7 DEF TasksKept
<1>13. OfLastJob(m)'
  BY <1>9, <1>10, <1>11, <1>12 DEF OfLastJob
<1>. QED
  BY <1>13

\* A Job is deleted, or removed after its deletion.
LEMMA PatientDeletes ==
  ASSUME LifeTypeOK, patient, NEW n \in 1..NumTasks, OfLastJob(n),
         DeleteJob \/ RemoveJob \/ EditSpec
  PROVE  OfLastJob(n)'
<1>1. /\ ~EditSpec
      /\ UNCHANGED <<tasks, taskRec, born, ran, jobRec>>
  BY DEF DeleteJob, RemoveJob, EditSpec
<1>2. CASE PutJob(NoJob)
  BY <1>1, <1>2, ObjectTypes, JobWriteKeeps DEF NoJob
<1>3. CASE TheJob.uid # 0 /\ PutJob([TheJob EXCEPT !.deleting = TRUE])
  <2>. DEFINE job == [TheJob EXCEPT !.deleting = TRUE]
  <2>1. TheJob \in JobObject
    BY LifeWindows
  <2>2. /\ job \in JobObject /\ job.uid = TheJob.uid /\ job.len = TheJob.len
        /\ job.conds = TheJob.conds /\ job.deleting
    BY <2>1 DEF JobObject
  <2>3. PutJob(job)
    BY <1>3
  <2>4. /\ TheJob.uid = born /\ TheJob.len = n
        /\ "Completed" \in TheJob.conds => AllRan(n)
    BY <1>3, LastJob
  <2>. HIDE DEF job
  <2>. QED
    BY <1>1, <1>3, <2>2, <2>3, <2>4, JobWriteKeeps
<1>. QED
  BY <1>1, <1>2, <1>3 DEF DeleteJob, RemoveJob

\* A watch event is delivered: the versions that remain were there before.
LEMMA PatientDeliveries ==
  ASSUME LifeTypeOK, NEW n \in 1..NumTasks, OfLastJob(n), DeliverJob \/ DeliverTask
  PROVE  OfLastJob(n)'
<1>1. CASE DeliverJob
  <2>1. /\ TheJob' = TheJob
        /\ \A p \in DOMAIN jobs' : \E q \in DOMAIN jobs : jobs'[p] = jobs[q]
        /\ UNCHANGED <<tasks, jobRec, taskRec, born, ran>>
    BY <1>1, JobDelivered DEF DeliverJob
  <2>2. OneJob(n)' /\ CompletedEarned(n)'
    BY <2>1 DEF OfLastJob, OneJob, CompletedEarned, AllRan
  <2>3. ItsTasks(n)' /\ TasksKept'
    BY <2>1 DEF OfLastJob, ItsTasks, ForTheJob, TasksKept, TheTasks
  <2>. QED
    BY <2>2, <2>3 DEF OfLastJob
<1>2. CASE DeliverTask
  <2>1. /\ TheTasks' = TheTasks
        /\ \A p \in DOMAIN tasks' : \E q \in DOMAIN tasks : tasks'[p] = tasks[q]
        /\ UNCHANGED <<jobs, jobRec, taskRec, born, ran>>
    BY <1>2, TaskDelivered DEF DeliverTask
  <2>2. OneJob(n)' /\ CompletedEarned(n)'
    BY <2>1 DEF OfLastJob, OneJob, CompletedEarned, AllRan
  <2>3. ItsTasks(n)'
    BY <2>1 DEF OfLastJob, ItsTasks, ForTheJob
  <2>4. TasksKept'
    BY <2>1 DEF OfLastJob, TasksKept, TheJob
  <2>. QED
    BY <2>2, <2>3, <2>4 DEF OfLastJob
<1>. QED
  BY <1>1, <1>2

\* The collector takes a Task of the last Job only when that Job goes.
LEMMA PatientCollects ==
  ASSUME LifeTypeOK, NEW n \in 1..NumTasks, OfLastJob(n),
         NEW i \in Index, CollectTask(i)
  PROVE  OfLastJob(n)'
<1>1. /\ PutTask(i, NoTask) /\ Collectable(i)
      /\ UNCHANGED <<jobs, jobRec, taskRec, born, ran>>
  BY DEF CollectTask
<1>2. \A p \in DOMAIN tasks', j \in Index :
        \/ j = i /\ tasks'[p][j] = NoTask
        \/ \E q \in DOMAIN tasks : tasks'[p][j] = tasks[q][j]
  BY <1>1, ObjectTypes, TaskPut
<1>3. ~NoTask.exists
  BY DEF NoTask
<1>4. TheJob.uid = 0 \/ TheJob.deleting
  <2>1. TheTasks[i].exists => TheTasks[i].owner = born
    BY LifeWindows DEF OfLastJob, ItsTasks, ForTheJob
  <2>2. TheJob.uid \in {0, born}
    BY LastJob
  <2>. QED
    BY <1>1, <2>1, <2>2 DEF Collectable
<1>5. OneJob(n)' /\ CompletedEarned(n)'
  BY <1>1 DEF OfLastJob, OneJob, CompletedEarned, AllRan
<1>6. ItsTasks(n)'
  BY <1>1, <1>2, <1>3 DEF OfLastJob, ItsTasks, ForTheJob
<1>7. TasksKept'
  BY <1>1, <1>4 DEF TasksKept, TheJob
<1>. QED
  BY <1>5, <1>6, <1>7 DEF OfLastJob


\* The Job's reconciliation works for the last Job and counts its Tasks only.
LEMMA PatientJobWork ==
  ASSUME LifeTypeOK, OwnersNamed, NEW n \in 1..NumTasks, OfLastJob(n), JobWork
  PROVE  OfLastJob(n)'
<1>a. ASSUME UNCHANGED <<jobs, tasks, taskRec, born, ran>>,
             jobRec' = IdleJobRec
      PROVE  OfLastJob(n)'
  <2>1. jobRec'.step = "idle"
    BY <1>a DEF IdleJobRec
  <2>. QED
    BY <1>a, <2>1, JobRecKeeps
<1>b. jobRec.step # "idle" => jobRec.base.uid = born /\ jobRec.base.len = n
  BY DEF OfLastJob, OneJob
<1>c. ASSUME NEW condition \in SUBSET {"Completed", "Failed"},
             JobWillPatch(condition), jobRec.step # "idle",
             UNCHANGED <<jobs, tasks, taskRec, born, ran>>,
             "Completed" \in condition => AllRan(n),
             "Failed" \in condition /\ TheJob.uid # 0 /\ ~TheJob.deleting =>
               \E i \in Index : TheTasks[i].exists
      PROVE  OfLastJob(n)'
  <2>1. /\ jobRec'.step = "patch" /\ jobRec'.base = jobRec.base
        /\ jobRec'.new.conds = jobRec.new.conds \cup condition
    BY <1>c, WillPatch
  <2>2. /\ "Completed" \in jobRec.new.conds => AllRan(n)
        /\ "Failed" \in jobRec.new.conds /\ TheJob.uid # 0 /\ ~TheJob.deleting =>
             \E i \in Index : TheTasks[i].exists
    BY <1>c DEF OfLastJob, CompletedEarned, TasksKept
  <2>3. /\ "Completed" \in jobRec'.new.conds => AllRan(n)
        /\ "Failed" \in jobRec'.new.conds /\ TheJob.uid # 0 /\ ~TheJob.deleting =>
             \E i \in Index : TheTasks[i].exists
    BY <1>c, <2>1, <2>2
  <2>. QED
    BY <1>b, <1>c, <2>1, <2>3, JobRecKeeps
<1>1. CASE JobIgnored
  <2>1. UNCHANGED <<jobs, tasks, jobRec, taskRec, born, ran>> /\ jobRec.step = "idle"
    BY <1>1 DEF JobIgnored
  <2>. QED
    BY <2>1, JobRecKeeps
<1>2. CASE JobStarts
  <2>. DEFINE job == Cached(jobs)
  <2>1. /\ job \in JobObject /\ ~Terminal(job) /\ job.uid # 0
        /\ UNCHANGED <<jobs, tasks, taskRec, born, ran>>
        /\ jobRec' = [step |-> "list", base |-> job, index |-> 0,
                      new |-> [job EXCEPT !.conds = @ \cup {"Running"}]]
    BY <1>2, LifeWindows DEF JobStarts
  <2>2. job.uid = born /\ job.len = n
    BY <2>1, LastJob
  <2>3. /\ jobRec'.step = "list" /\ jobRec'.base = job
        /\ "Completed" \notin jobRec'.new.conds /\ "Failed" \notin jobRec'.new.conds
    BY <2>1 DEF Terminal, JobObject
  <2>. HIDE DEF job
  <2>. QED
    BY <2>1, <2>2, <2>3, JobRecKeeps
<1>3. CASE JobWaits \/ JobPanics \/ JobPatchFindsNone
  BY <1>3, <1>a DEF JobWaits, JobPanics, JobPatchFindsNone, JobBack
<1>4. CASE JobSeesFailure
  <2>1. PICK i \in Index : Cached(tasks)[i].exists
    BY <1>4 DEF JobSeesFailure, Listed
  <2>2. TheJob.uid # 0 /\ ~TheJob.deleting => TheTasks[i].exists
    BY <2>1, LifeWindows DEF OfLastJob, TasksKept
  <2>. QED
    BY <1>4, <1>c, <2>2 DEF JobSeesFailure
<1>5. CASE JobCompletes
  <2>1. CompletedTasksCount = n /\ jobRec.step # "idle"
    BY <1>5, <1>b DEF JobCompletes, AllDone
  <2>2. AllRan(n)
    BY <2>1, CountsItsOwn
  <2>. QED
    BY <1>5, <1>c, <2>1, <2>2 DEF JobCompletes
<1>6. CASE JobPicksNext
  <2>1. /\ jobRec.step = "list" /\ CompletedTasksCount < jobRec.base.len
        /\ UNCHANGED <<jobs, tasks, taskRec, born, ran>>
        /\ jobRec' = [jobRec EXCEPT !.step = "create",
                                    !.index = CompletedTasksCount]
    BY <1>6 DEF JobPicksNext
  <2>2. /\ jobRec'.step = "create" /\ jobRec'.index = CompletedTasksCount
        /\ jobRec'.base = jobRec.base /\ jobRec'.new = jobRec.new
    BY <2>1 DEF LifeTypeOK
  <2>3. /\ "Completed" \in jobRec.new.conds => AllRan(n)
        /\ "Failed" \in jobRec.new.conds /\ TheJob.uid # 0 /\ ~TheJob.deleting =>
             \E i \in Index : TheTasks[i].exists
    BY <2>1 DEF OfLastJob, CompletedEarned, TasksKept
  <2>. QED
    BY <1>b, <2>1, <2>2, <2>3, JobRecKeeps
<1>7. CASE JobCreateConflicts
  <2>1. TheTasks[jobRec.index].exists /\ jobRec.index \in Index
    BY <1>7 DEF JobCreateConflicts, LifeTypeOK
  <2>. QED
    BY <1>7, <1>c, <2>1 DEF JobCreateConflicts
<1>8. CASE JobCreatesTask
  <2>. DEFINE i    == jobRec.index
              task == OwnedTask(jobRec.base.uid)
  <2>1. /\ jobRec.step = "create" /\ PutTask(i, task) /\ JobWillPatch({})
        /\ ~TheTasks[i].exists /\ UNCHANGED <<jobs, taskRec, born, ran>>
    BY <1>8 DEF JobCreatesTask
  <2>2. /\ i \in Index /\ jobRec.base.uid \in 0..MaxUid
        /\ i < n /\ jobRec.base.uid = born
    BY <2>1, <1>b DEF LifeTypeOK, JobObject, OfLastJob, OneJob
  <2>3. task \in TaskObject
    BY <2>2, ObjectTypes
  <2>4. task.exists /\ task.owner = born /\ ~task.started /\ task.conds = {}
    BY <2>2 DEF OwnedTask, NoTask
  <2>. HIDE DEF i, task
  <2>5. /\ TheTasks'[i] = task
        /\ \A j \in Index : j # i => TheTasks'[j] = TheTasks[j]
        /\ \A p \in DOMAIN tasks', j \in Index :
             \/ j = i /\ tasks'[p][j] = task
             \/ \E q \in DOMAIN tasks : tasks'[p][j] = tasks[q][j]
    BY <2>1, <2>2, <2>3, TaskPut
  <2>6. /\ jobRec'.step = "patch" /\ jobRec'.base = jobRec.base
        /\ jobRec'.new.conds = jobRec.new.conds
    BY <2>1, WillPatch
  <2>7. \A j \in Index : TheTasks[j].exists => TheTasks'[j].exists
    BY <2>4, <2>5
  <2>8. \A p \in DOMAIN tasks', j \in Index :
          \/ \E q \in DOMAIN tasks : tasks'[p][j] = tasks[q][j]
          \/ tasks'[p][j].exists =>
               ForTheJob(tasks[p][j], n, j)' /\ TheTasks'[j].exists
    BY <2>1, <2>2, <2>4, <2>5 DEF ForTheJob
  <2>. QED
    BY <2>1, <2>6, <2>7, <2>8, TaskWriteKeeps
<1>9. CASE JobPatches
  <2>1. PICK job \in JobObject :
          /\ PutJob(job)
          /\ job.uid = TheJob.uid /\ job.len = TheJob.len
          /\ job.deleting = TheJob.deleting
          /\ job.conds \in {jobRec.new.conds, TheJob.conds}
    BY <1>9, PatchedJob
  <2>2. /\ jobRec.step # "idle" /\ TheJob.uid # 0 /\ jobRec' = IdleJobRec
        /\ UNCHANGED <<tasks, taskRec, born, ran>>
    BY <1>9 DEF JobPatches, JobBack
  <2>3. /\ TheJob.uid = born /\ TheJob.len = n
        /\ "Completed" \in TheJob.conds => AllRan(n)
    BY <2>2, LastJob
  <2>4. "Completed" \in job.conds => AllRan(n)
    BY <2>1, <2>2, <2>3 DEF OfLastJob, CompletedEarned
  <2>5. ~job.deleting =>
          /\ ~TheJob.deleting
          /\ "Failed" \in job.conds => \E i \in Index : TheTasks[i].exists
    BY <2>1, <2>2 DEF OfLastJob, TasksKept
  <2>. QED
    BY <2>1, <2>2, <2>3, <2>4, <2>5, JobWriteKeeps
<1>. QED
  BY <1>1, <1>2, <1>3, <1>4, <1>5, <1>6, <1>7, <1>8, <1>9 DEF JobWork

\* A Task's reconciliation writes what was done for the Task's owner, whoever
\* holds the name now.
LEMMA PatientTaskWork ==
  ASSUME LifeTypeOK, NEW n \in 1..NumTasks, OfLastJob(n),
         NEW i \in Index, TaskWork(i)
  PROVE  OfLastJob(n)'
<1>1. /\ taskRec \in [Index -> [step : {"idle", "got"}, base : TaskObject]]
      /\ taskRec[i].base \in TaskObject
      /\ taskRec[i].step = "got" => ForTheJob(taskRec[i].base, n, i)
  BY DEF LifeTypeOK, OfLastJob, ItsTasks
<1>2. CASE TaskReads(i)
  <2>. DEFINE task == Cached(tasks)[i]
  <2>1. /\ task.exists /\ UNCHANGED <<jobs, tasks, jobRec, born, ran>>
        /\ taskRec' = [taskRec EXCEPT ![i] = [step |-> "got", base |-> task]]
    BY <1>2 DEF TaskReads
  <2>2. ForTheJob(task, n, i)
    BY <2>1, LifeWindows DEF OfLastJob, ItsTasks
  <2>. HIDE DEF task
  <2>3. \A j \in Index : taskRec'[j].step = "got" =>
          ForTheJob(taskRec'[j].base, n, j)
    BY <1>1, <2>1, <2>2 DEF OfLastJob, ItsTasks
  <2>4. ItsTasks(n)'
    BY <2>1, <2>3 DEF OfLastJob, ItsTasks, ForTheJob
  <2>5. OneJob(n)' /\ CompletedEarned(n)'
    BY <2>1 DEF OfLastJob, OneJob, CompletedEarned, AllRan
  <2>6. TasksKept'
    BY <2>1 DEF OfLastJob, TasksKept, TheJob, TheTasks
  <2>. QED
    BY <2>4, <2>5, <2>6 DEF OfLastJob
<1>3. ASSUME NEW started \in BOOLEAN, NEW conds \in SUBSET {"Completed", "Failed"},
             TaskPatches(i, started, conds), ran \subseteq ran',
             started \/ "Completed" \in conds => (<<born, i>> \in ran)'
      PROVE  OfLastJob(n)'
  <2>0. PatchedBy(i, started, conds)
    BY <1>3, PatchedTask
  <2>1. /\ \A j \in Index : TheTasks'[j].exists <=> TheTasks[j].exists
        /\ \A p \in DOMAIN tasks', j \in Index : \E q \in DOMAIN tasks :
             \/ tasks'[p][j] = tasks[q][j]
             \/ /\ j = i /\ tasks[q][i].exists /\ TheTasks[i].exists
                /\ tasks'[p][i].owner = tasks[q][i].owner
                /\ tasks'[p][i].started \in {started, tasks[q][i].started}
                /\ tasks'[p][i].conds \in {conds, tasks[q][i].conds}
    BY <2>0 DEF PatchedBy
  <2>2. /\ taskRec' = [taskRec EXCEPT ![i] = IdleTaskRec]
        /\ IdleTaskRec.step = "idle"
        /\ UNCHANGED <<jobs, jobRec, born>>
    BY <1>3 DEF TaskPatches, IdleTaskRec
  <2>3. \A j \in Index : taskRec'[j].step = "got" =>
          taskRec[j].step = "got" /\ taskRec'[j] = taskRec[j]
    BY <1>1, <2>2
  <2>4. ASSUME NEW p \in DOMAIN tasks', NEW j \in Index, tasks'[p][j].exists
        PROVE  \/ \E q \in DOMAIN tasks : tasks'[p][j] = tasks[q][j]
               \/ ForTheJob(tasks[p][j], n, j)' /\ TheTasks'[j].exists
    <3>. SUFFICES ASSUME NEW q \in DOMAIN tasks, j = i,
                         tasks[q][i].exists, TheTasks[i].exists,
                         tasks'[p][i].owner = tasks[q][i].owner,
                         tasks'[p][i].started \in {started, tasks[q][i].started},
                         tasks'[p][i].conds \in {conds, tasks[q][i].conds}
                  PROVE  ForTheJob(tasks[p][i], n, i)' /\ TheTasks'[i].exists
      BY <2>1
    <3>1. ForTheJob(tasks[q][i], n, i)
      BY DEF OfLastJob, ItsTasks
    <3>. QED
      BY <1>3, <2>1, <2>2, <3>1 DEF ForTheJob
  <2>5. jobRec'.step # "idle" => jobRec.step # "idle" /\ jobRec' = jobRec
    BY <2>2
  <2>. QED
    BY <1>3, <2>1, <2>2, <2>3, <2>4, <2>5, TaskWriteKeeps
<1>4. CASE TaskRuns(i)
  <2>1. /\ TaskPatches(i, TRUE, {}) /\ ran' = ran \cup {<<taskRec[i].base.owner, i>>}
        /\ taskRec[i].base.owner = born /\ born' = born
    BY <1>1, <1>4 DEF TaskRuns, TaskPatches, ForTheJob
  <2>. QED
    BY <1>3, <2>1
<1>5. CASE TaskCompletes(i)
  <2>1. /\ TaskPatches(i, TRUE, {"Completed"}) /\ ran' = ran
        /\ <<born, i>> \in ran /\ born' = born
    BY <1>1, <1>5 DEF TaskCompletes, TaskPatches, ForTheJob
  <2>. QED
    BY <1>3, <2>1
<1>6. CASE TaskFails(i)
  <2>1. /\ TaskPatches(i, taskRec[i].base.started, {"Failed"}) /\ ran' = ran
        /\ taskRec[i].base.started => <<born, i>> \in ran
        /\ taskRec[i].base.started \in BOOLEAN /\ born' = born
    BY <1>1, <1>6 DEF TaskFails, TaskPatches, ForTheJob, TaskObject
  <2>. QED
    BY <1>3, <2>1
<1>. QED
  BY <1>2, <1>4, <1>5, <1>6 DEF TaskWork


-----------------------------------------------------------------------------
(***************************************************************************)
(* The theorems.                                                           *)
(***************************************************************************)

\* LifeInv is an invariant, however many Jobs follow one another and however
\* long their lists of Tasks are.
THEOREM LifeInvariant == LifeSpec => []LifeInv
<1>1. LifeInit => LifeInv
  <2>. SUFFICES ASSUME LifeInit PROVE LifeInv
    OBVIOUS
  <2>1. /\ LifeTypeOK /\ OwnersNamed
        /\ jobs = <<NoJob>> /\ TheJob = NoJob
        /\ jobRec.step = "idle"
        /\ \A i \in Index : ~TheTasks[i].exists /\ taskRec[i].step = "idle"
        /\ \A p \in DOMAIN tasks, i \in Index : ~tasks[p][i].exists
    BY InitTyped
  <2>2. 1 \in 1..NumTasks
    BY LifecycleAssumption
  <2>3. NoJob.uid = 0 /\ NoJob.conds = {}
    BY DEF NoJob
  <2>4. OneJob(1) /\ ItsTasks(1) /\ CompletedEarned(1) /\ TasksKept
    BY <2>1, <2>3 DEF OneJob, ItsTasks, CompletedEarned, TasksKept
  <2>. QED
    BY <2>1, <2>2, <2>4 DEF LifeInv
<1>2. LifeInv /\ [LifeNext]_lifeVars => LifeInv'
  <2>. SUFFICES ASSUME LifeInv, [LifeNext]_lifeVars PROVE LifeInv'
    OBVIOUS
  <2>1. LifeTypeOK /\ OwnersNamed /\ LifeTypeOK' /\ OwnersNamed'
    BY StepTyped DEF LifeInv
  <2>2. ASSUME patient' PROVE \E m \in 1..NumTasks : OfLastJob(m)'
    <3>1. patient
      BY <2>2 DEF LifeNext, Users, Collector, CreateJob, DeleteJob, EditSpec,
         RemoveJob, CollectTask, DeliverJob, DeliverTask, JobWork, JobIgnored,
         JobStarts, JobWaits, JobSeesFailure, JobCompletes, JobPicksNext,
         JobPanics, JobCreatesTask, JobCreateConflicts, JobPatches,
         JobPatchFindsNone, TaskWork, TaskReads, TaskRuns, TaskCompletes,
         TaskFails, TaskPatches, lifeVars
    <3>2. PICK n \in 1..NumTasks : OfLastJob(n)
      BY <3>1 DEF LifeInv, OfLastJob
    <3>3. CASE CreateJob
      BY <2>1, <3>1, <3>2, <3>3, PatientCreates
    <3>4. CASE UNCHANGED lifeVars
      BY <3>2, <3>4 DEF lifeVars, OfLastJob, OneJob, ItsTasks, ForTheJob,
         CompletedEarned, AllRan, TasksKept, TheJob, TheTasks
    <3>5. CASE LifeNext /\ ~CreateJob
      <4>1. OfLastJob(n)'
        BY <2>1, <3>1, <3>2, <3>5, PatientDeletes, PatientDeliveries,
           PatientCollects, PatientJobWork, PatientTaskWork
           DEF LifeNext, Users, Collector
      <4>. QED
        BY <4>1
    <3>. QED
      BY <3>3, <3>4, <3>5
  <2>. QED
    BY <2>1, <2>2 DEF LifeInv, OfLastJob
<1>. QED
  BY <1>1, <1>2, PTL DEF LifeSpec

\* Completed means, with users who wait, that the Job's own Tasks ran, although
\* no reconciliation looks at a UID.
THEOREM PatientJobsComplete == LifeSpec => []PatienceSuffices
<1>1. LifeInv => PatienceSuffices
  <2>. SUFFICES ASSUME LifeInv, patient, "Completed" \in TheJob.conds,
                       NEW i \in 0..(TheJob.len - 1)
                PROVE  <<TheJob.uid, i>> \in ran
    BY DEF PatienceSuffices, CompletedRanItsOwn
  <2>1. PICK n \in 1..NumTasks : OfLastJob(n)
    BY DEF LifeInv, OfLastJob
  <2>2. /\ IF TheJob.uid = 0 THEN TheJob = NoJob
                             ELSE TheJob.uid = born /\ TheJob.len = n
        /\ AllRan(n)
    BY <2>1, LastJob DEF LifeInv
  <2>3. TheJob.uid # 0
    BY <2>2 DEF NoJob
  <2>. QED
    BY <2>2, <2>3 DEF AllRan
<1>. QED
  BY <1>1, LifeInvariant, PTL

\* The index of createTaskWithOwner stays within Spec.Tasks: no recovered panic.
THEOREM TasksInRange == LifeSpec => []NeverOutOfRange
<1>1. LifeInv => NeverOutOfRange
  <2>. SUFFICES ASSUME LifeInv, patient, OutOfRange PROVE FALSE
    BY DEF NeverOutOfRange
  <2>1. PICK n \in 1..NumTasks : OfLastJob(n)
    BY DEF LifeInv, OfLastJob
  <2>2. jobRec.base.len = n
    BY <2>1 DEF OutOfRange, OfLastJob, OneJob
  <2>3. CompletedTasksCount <= n /\ CompletedTasksCount \in Nat
    BY <2>1, CountsItsOwn, CountType DEF LifeInv
  <2>. QED
    BY <2>2, <2>3 DEF OutOfRange, AllDone
<1>. QED
  BY <1>1, LifeInvariant, PTL

\* No failure of one Job reaches the next, with users who wait.
THEOREM FailuresAreOwn == LifeSpec => []FailsForItsOwn
<1>1. LifeInv => FailsForItsOwn
  <2>. SUFFICES ASSUME LifeInv, patient, "Failed" \in TheJob.conds, ~TheJob.deleting
                PROVE  \E i \in Index : TheTasks[i].exists /\ TheTasks[i].owner = TheJob.uid
    BY DEF FailsForItsOwn
  <2>1. PICK n \in 1..NumTasks : OfLastJob(n)
    BY DEF LifeInv, OfLastJob
  <2>2. TheJob.uid # 0 /\ TheJob.uid = born
    BY <2>1, LastJob DEF LifeInv, NoJob
  <2>3. PICK i \in Index : TheTasks[i].exists
    BY <2>1, <2>2 DEF OfLastJob, TasksKept
  <2>4. TheTasks[i].owner = born
    BY <2>1, <2>3, LifeWindows DEF LifeInv, OfLastJob, ItsTasks, ForTheJob
  <2>. QED
    BY <2>2, <2>3, <2>4
<1>. QED
  BY <1>1, LifeInvariant, PTL
=============================================================================
