---------------------------- MODULE FreshProofs ----------------------------
(***************************************************************************)
(* The inductive invariant of module RufioInvariants as a whole, and the   *)
(* system with watches that are never late: it keeps the promise of module *)
(* SequentialJob, and the machine ends up in the power state asked for.    *)
(***************************************************************************)
EXTENDS AcceptedProofs

\* What the reconcilers of Jobs and Tasks maintain at every step, as the run
\* checks it on a small instance.
THEOREM WholeInvariant == Spec => []IndInv
<1>1. OrderInv /\ AcceptedInv /\ SequenceInv /\ VerdictInv => IndInv
  BY DEF IndInv
<1>. QED
  BY <1>1, OrderInvariant, AcceptedInvariant, SequenceInvariant,
     VerdictInvariant, PTL

(***************************************************************************)
(* The system with fresh caches is a special case of the system.           *)
(***************************************************************************)

\* A step with fresh caches is a step; so what is proved of the system holds.
LEMMA FreshIsSpec == FreshSpec => Spec
<1>1. [FreshNext]_vars => [Next]_vars
  BY DEF FreshNext, Next, Environment, ClusterStep
<1>. QED
  BY <1>1, PTL DEF FreshSpec, Spec

Sound == TypeOK /\ IndInv

\* Sound is inductive, whatever the watches do.
LEMMA SoundInit == Init => Sound
BY TypeInit, OrderInit, AcceptedInit, SequenceInit, VerdictInit DEF Sound, IndInv

\* Each of the five parts needs but the types and the order of the Tasks.
LEMMA SoundStep == Sound /\ [Next]_vars => Sound'
BY TypeStep, OrderStep, AcceptedStep, SequenceStep, VerdictStep DEF Sound, IndInv

\* The types and the four invariants hold with fresh caches too.
LEMMA FreshSound == FreshSpec => []Sound
<1>1. TypeOK /\ IndInv => Sound
  BY DEF Sound
<1>. QED
  BY <1>1, FreshIsSpec, TypeCorrect, WholeInvariant, PTL

\* A reconciler that reads a fresh cache reads what the server holds.
LEMMA FreshReads ==
  ASSUME TypeOK, CachesFresh
  PROVE  Cached(jobVersions) = TheJob /\ Cached(taskVersions) = TheTasks
<1>1. Len(jobVersions) = 1 /\ Len(taskVersions) = 1
  BY DEF TypeOK, ClusterTypeOK, CachesFresh, Lag
<1>. QED
  BY <1>1, EndsOfWindow DEF TypeOK, ClusterTypeOK, TheJob, TheTasks

\* The Tasks of the server, and what is known of each.
LEMMA TasksOnServer ==
  ASSUME Sound
  PROVE  /\ TheTasks \in [Index -> TaskObject] /\ TheTasks \in TaskSnapshots
         /\ TheJob \in JobObject
         /\ \A i \in Index :
              /\ Terminal(TheTasks[i]) \/ TheTasks[i].started =>
                   TheTasks[i].exists
              /\ Busy(i) => /\ TheTasks[i].exists
                            /\ taskRec[i].base.conds = {}
                            /\ taskRec[i].new.conds
                                 \in {{}, {"Completed"}, {"Failed"}}
<1>1. TheTasks \in [Index -> TaskObject] /\ TheTasks \in TaskSnapshots
      /\ TheJob \in JobObject
  BY EndsOfWindow DEF Sound, TypeOK, ClusterTypeOK, TheTasks, TheJob, TaskSnapshots
<1>. QED
  BY <1>1 DEF Sound, IndInv, OrderInv, SnapshotsOrdered, TaskRecordsSound

\* The Task whose index is the count of the Completed ones is not yet there.
LEMMA CountIsNext ==
  ASSUME TypeOK, SnapshotsOrdered, \A i \in Listed : HasCompleted(i),
         CompletedTasksCount # NumTasks
  PROVE  CompletedTasksCount \in Index \ Listed
<1>. DEFINE n == CompletedTasksCount
<1>1. n \in Index /\ n \in Nat
  BY CountType, ClusterAssumption DEF Index
<1>. SUFFICES ASSUME n \in Listed PROVE FALSE
  BY <1>1
<1>2. Cached(taskVersions) \in TaskSnapshots
  BY EndsOfWindow DEF TaskSnapshots, TypeOK, ClusterTypeOK
<1>3. 0..n \in SUBSET Listed
  <2>. SUFFICES ASSUME NEW j \in 0..n PROVE j \in Listed
    OBVIOUS
  <2>1. j \in Index /\ (j < n \/ j = n)
    BY <1>1, ClusterAssumption DEF Index
  <2>. QED
    BY <1>1, <1>2, <2>1 DEF SnapshotsOrdered, Listed
<1>4. IsFiniteSet(Listed)
  <2>1. IsFiniteSet(Index) /\ Listed \in SUBSET Index
    BY FS_Interval, ClusterAssumption DEF Index, Listed
  <2>. QED
    BY <2>1, FS_Subset
<1>5. Cardinality(0..n) = n + 1 /\ Cardinality(0..n) <= Cardinality(Listed)
  BY <1>1, <1>3, <1>4, FS_Interval, FS_Subset
<1>6. n = Cardinality(Listed)
  <2>1. {i \in Listed : HasCompleted(i)} = Listed
    OBVIOUS
  <2>. QED
    BY <2>1 DEF CompletedTasksCount
<1>. QED
  BY <1>1, <1>5, <1>6

(***************************************************************************)
(* FreshInv: no reconciliation acts on what has changed meanwhile.         *)
(***************************************************************************)

\* The part of FreshInv that is about the Tasks and their reconciliations.
TasksFresh ==
  /\ \A i \in Index : Busy(i) => taskRec[i].base = TheTasks[i]
  /\ \A i, j \in Index : i < j /\ TheTasks[j].exists => HasSucceeded(i)
  /\ \A i \in Index :
       "Failed" \in taskRec[i].new.conds \cup TheTasks[i].conds => Cause
  /\ \A i \in expired : TheTasks[i].started
  /\ RunsRemembered

\* And the part that is about the Job.
JobFresh ==
  /\ jobRec.step # "idle" => jobRec.base = TheJob /\ ~Terminal(TheJob)
  /\ jobRec.step = "create" =>
       /\ ~TheTasks[jobRec.index].exists
       /\ \A i \in Index : i < jobRec.index => HasSucceeded(i)
  /\ CompletionEarned
  /\ "Failed" \in jobRec.new.conds \cup TheJob.conds => Cause

LEMMA FreshParts ==
  /\ FreshInv <=> TasksFresh /\ JobFresh
  /\ FreshInv' <=> TasksFresh' /\ JobFresh'
BY DEF FreshInv, TasksFresh, JobFresh, RecordsCurrent, CreatesNext,
       FailuresCaused

\* The creation of the next Task disturbs nothing that is known of the others.
LEMMA CreationFresh ==
  ASSUME Sound, TasksFresh, JobFresh, jobRec.step = "create",
         TaskCreated(jobRec.index),
         UNCHANGED <<taskRec, expired, accepted, repeated>>,
         faults' \in {faults, faults + 1}
  PROVE  /\ TasksFresh'
         /\ TheTasks' = [TheTasks EXCEPT ![jobRec.index] = NewTask]
         /\ \A i \in Index : HasSucceeded(i) => HasSucceeded(i)'
<1>. DEFINE n == jobRec.index
<1>1. n \in Index /\ NewTask \in TaskObject
  BY DEF Sound, TypeOK, JobControllerTypeOK, JobRecord, NewTask, TaskObject
<1>2. /\ TheTasks' = [TheTasks EXCEPT ![n] = NewTask]
      /\ TheTasks \in [Index -> TaskObject]
  BY <1>1, SnapshotsAfterWrite DEF Sound, TaskCreated
<1>3. /\ \A i \in Index : i # n => TheTasks'[i] = TheTasks[i]
      /\ TheTasks'[n] = NewTask
  BY <1>1, <1>2
<1>4. ~TheTasks[n].exists /\ \A i \in Index : i < n => HasSucceeded(i)
  BY DEF JobFresh
<1>5. ~Busy(n) /\ ~TheTasks[n].started /\ ~Terminal(TheTasks[n])
  BY <1>1, <1>4, TasksOnServer
<1>6. \A i \in Index : HasSucceeded(i) => i # n /\ HasSucceeded(i)'
  BY <1>3, <1>5 DEF HasSucceeded, Terminal
<1>7. \A i \in Index : Busy(i)' => taskRec'[i].base = TheTasks'[i]
  BY <1>3, <1>5 DEF TasksFresh, Busy
<1>8. \A i, j \in Index : i < j /\ TheTasks'[j].exists => HasSucceeded(i)'
  <2>. SUFFICES ASSUME NEW i \in Index, NEW j \in Index, i < j,
                       TheTasks'[j].exists
                PROVE  HasSucceeded(i)'
    OBVIOUS
  <2>1. HasSucceeded(i)
    BY <1>3, <1>4 DEF TasksFresh
  <2>. QED
    BY <1>6, <2>1
<1>9. Cause => Cause'
  BY ClusterAssumption DEF Cause, Sound, TypeOK, ClusterTypeOK
<1>10. \A i \in Index :
         "Failed" \in taskRec'[i].new.conds \cup TheTasks'[i].conds => Cause'
  BY <1>3, <1>9 DEF TasksFresh, NewTask
<1>11. \A i \in expired' : TheTasks'[i].started
  BY <1>3, <1>5 DEF TasksFresh, Sound, TypeOK, TaskControllerTypeOK
<1>12. RunsRemembered'
  <2>1. faults' = 0 => faults = 0
    BY DEF Sound, TypeOK, ClusterTypeOK
  <2>2. accepted \subseteq Index
    BY DEF Sound, TypeOK, TaskControllerTypeOK
  <2>3. \A i \in Index : TheTasks[i].started => TheTasks'[i].started
    BY <1>3, <1>5
  <2>. QED
    BY <2>1, <2>2, <2>3 DEF TasksFresh, RunsRemembered
<1>. QED
  BY <1>2, <1>6, <1>7, <1>8, <1>10, <1>11, <1>12 DEF TasksFresh

\* With fresh caches a patch of the Job's status writes what the reconciler has
\* in memory.
LEMMA JobPatchedFresh ==
  ASSUME Sound, JobFresh, jobRec.step = "patch",
         PatchJob(jobRec.base, jobRec.new)
  PROVE  TheJob'.conds = jobRec.new.conds /\ TheJob'.finished = jobRec.new.finished
<1>1. jobRec.base \in JobObject /\ jobRec.new \in JobObject
  BY DEF Sound, TypeOK, JobControllerTypeOK, JobRecord
<1>2. jobRec.base = TheJob
  BY DEF JobFresh
<1>. QED
  BY <1>1, <1>2, JobAfterPatch DEF Sound, Merge

\* A step of the Job controller finds the Job and the Tasks as they are, and so
\* picks a Task that does not exist and completes the Job for good reason.
LEMMA JobStepFresh ==
  ASSUME Sound, FreshInv, CachesFresh, JobStep
  PROVE  FreshInv'
<1>. USE FreshParts
<1>a. /\ UNCHANGED <<taskRec, expired, accepted, repeated>>
      /\ faults \in Nat /\ faults' \in {faults, faults + 1}
  <2>1. faults' \in {faults, faults + 1}
    BY DEF JobStep, JobWork, JobFaults, JobIgnored, JobStarts,
         JobWaits, JobSeesFailure, JobCompletes, JobPicksNext, JobCreatesTask,
         JobCreateConflicts, JobPatches, JobLookupFails, JobCreateFails,
         JobPatchFails, Fault, clusterVars
  <2>. QED
    BY <2>1, ClusterAssumption
       DEF JobStep, taskVars, history, Sound, TypeOK, ClusterTypeOK
<1>b. Cause => Cause'
  BY <1>a DEF Cause
<1>c. ASSUME UNCHANGED taskVersions
      PROVE  TasksFresh' /\ TheTasks' = TheTasks
             /\ \A i \in Index : HasSucceeded(i)' <=> HasSucceeded(i)
  BY <1>a, <1>b, <1>c DEF TasksFresh, RunsRemembered, HasSucceeded, Busy, TheTasks
<1>d. ASSUME UNCHANGED jobVersions PROVE TheJob' = TheJob
  BY <1>d DEF TheJob
<1>e. /\ jobRec \in JobRecord /\ jobRec.new \in JobObject
      /\ TheTasks \in [Index -> TaskObject] /\ TheJob \in JobObject
  BY TasksOnServer DEF Sound, TypeOK, JobControllerTypeOK, JobRecord
<1>f. Cached(jobVersions) = TheJob /\ Cached(taskVersions) = TheTasks
  BY FreshReads DEF Sound
<1>g. ASSUME NEW new, NEW withError, JobWillPatch(new, withError)
      PROVE  /\ jobRec'.step = "patch" /\ jobRec'.base = jobRec.base
             /\ jobRec'.new = new
  BY <1>e, <1>g DEF JobWillPatch, JobRecord
<1>h. ASSUME NEW job \in JobObject, NEW c \in {"Running", "Completed", "Failed"}
      PROVE  /\ JobStatusSet(job, c).conds = job.conds \cup {c}
             /\ JobStatusSet(job, c).finished = job.finished
             /\ JobStatusSet(job, c) \in JobObject
  BY DEF JobStatusSet, JobObject
<1>i. ASSUME jobRec.step # "idle", TheJob' = TheJob,
             \A i \in Index : HasSucceeded(i) => HasSucceeded(i)',
             NEW withError, JobWillPatch(jobRec.new, withError) \/
               /\ JobWillPatch(JobStatusSet(jobRec.new, "Failed"), withError)
               /\ Cause'
      PROVE  JobFresh'
  BY <1>b, <1>e, <1>g, <1>h, <1>i DEF JobFresh, CompletionEarned
<1>j. ASSUME NEW withError, JobReturns(withError), UNCHANGED taskVersions,
             \/ TheJob' = TheJob
             \/ /\ TheJob'.conds = jobRec.new.conds
                /\ TheJob'.finished = jobRec.new.finished
      PROVE  JobFresh'
  <2>1. jobRec'.step = "idle" /\ jobRec'.new.conds = {}
    BY <1>j DEF JobReturns, IdleJobRecord, NewJob
  <2>. QED
    BY <1>b, <1>c, <1>j, <2>1 DEF JobFresh, CompletionEarned
<1>1. CASE JobIgnored
  BY <1>1, <1>b, <1>c, <1>d DEF JobIgnored, JobFresh, CompletionEarned
<1>2. CASE JobStarts
  <2>1. /\ jobRec'.step = "list" /\ jobRec'.base = TheJob
        /\ jobRec'.new = JobStatusSet(TheJob, "Running")
        /\ ~Terminal(TheJob) /\ UNCHANGED <<jobVersions, taskVersions>>
    BY <1>2, <1>e, <1>f DEF JobStarts, JobRecord
  <2>2. "Completed" \notin jobRec'.new.conds /\ "Failed" \notin jobRec'.new.conds
    BY <1>e, <1>h, <2>1 DEF Terminal
  <2>. QED
    BY <1>b, <1>c, <1>d, <2>1, <2>2 DEF JobFresh, CompletionEarned
<1>3. CASE JobWaits \/ JobLookupFails
  BY <1>3, <1>c, <1>d, <1>j DEF JobWaits, JobLookupFails
<1>4. CASE JobSeesFailure
  <2>1. Cause
    BY <1>4, <1>f DEF JobSeesFailure, Listed, HasFailed, TasksFresh
  <2>. QED
    BY <1>4, <1>b, <1>c, <1>d, <1>i, <2>1 DEF JobSeesFailure, clusterVars
<1>5. CASE JobCompletes
  <2>1. \A i \in Index : HasSucceeded(i)
    BY <1>5, <1>f, CountIsAll DEF JobCompletes, HasCompleted, HasSucceeded
  <2>2. /\ jobRec'.step = "patch" /\ jobRec'.base = jobRec.base
        /\ jobRec'.new = [JobStatusSet(jobRec.new, "Completed")
                            EXCEPT !.finished = TRUE]
    BY <1>5, <1>g DEF JobCompletes
  <2>3. /\ jobRec'.new.finished
        /\ "Failed" \in jobRec'.new.conds => "Failed" \in jobRec.new.conds
    BY <1>e, <1>h, <2>2 DEF JobObject
  <2>4. jobRec.step = "list" /\ UNCHANGED <<jobVersions, taskVersions>>
    BY <1>5 DEF JobCompletes, clusterVars
  <2>. QED
    BY <1>b, <1>c, <1>d, <2>1, <2>2, <2>3, <2>4 DEF JobFresh, CompletionEarned
<1>6. CASE JobPicksNext
  <2>. DEFINE n == CompletedTasksCount
  <2>1. jobRec.step = "list" /\ UNCHANGED <<jobVersions, taskVersions>>
        /\ jobRec' = [jobRec EXCEPT !.step = "create", !.index = n]
    BY <1>6 DEF JobPicksNext, clusterVars
  <2>2. n \in Index \ Listed /\ \A j \in Index : j < n => j \in Listed
    BY <1>6, CountIsNext, CountIsIndex
       DEF JobPicksNext, Sound, IndInv, OrderInv
  <2>3. ~TheTasks[n].exists /\ \A j \in Index : j < n => HasSucceeded(j)
    BY <1>6, <1>f, <2>2 DEF JobPicksNext, Listed, HasCompleted, HasSucceeded
  <2>4. /\ jobRec'.step = "create" /\ jobRec'.index = n
        /\ jobRec'.base = jobRec.base /\ jobRec'.new = jobRec.new
    BY <1>e, <2>1 DEF JobRecord
  <2>. HIDE DEF n
  <2>. QED
    BY <1>b, <1>c, <1>d, <2>1, <2>3, <2>4 DEF JobFresh, CompletionEarned
<1>7. CASE JobCreatesTask
  <2>1. /\ TasksFresh'
        /\ \A i \in Index : HasSucceeded(i) => HasSucceeded(i)'
    BY <1>7, <1>a, CreationFresh DEF JobCreatesTask
  <2>. QED
    BY <1>7, <1>d, <1>i, <2>1 DEF JobCreatesTask
<1>8. CASE JobCreateConflicts
  BY <1>8 DEF JobCreateConflicts, JobFresh
<1>9. CASE JobCreateFails
  <2>1. /\ TasksFresh'
        /\ \A i \in Index : HasSucceeded(i) => HasSucceeded(i)'
    BY <1>9, <1>a, <1>c, CreationFresh DEF JobCreateFails
  <2>2. Cause'
    BY <1>9, <1>a DEF JobCreateFails, Fault, Cause
  <2>. QED
    BY <1>9, <1>d, <1>i, <2>1, <2>2 DEF JobCreateFails
<1>10. CASE JobPatches \/ JobPatchFails
  BY <1>10, <1>c, <1>d, <1>j, JobPatchedFresh DEF JobPatches, JobPatchFails
<1>. QED
  BY <1>1, <1>2, <1>3, <1>4, <1>5, <1>6, <1>7, <1>8, <1>9, <1>10
     DEF JobStep, JobWork, JobFaults

\* With fresh caches a patch of a Task's status writes what the reconciler has
\* in memory, and a StartTime only where there was none.
LEMMA TaskPatchedFresh ==
  ASSUME Sound, TasksFresh, NEW i \in Index, Busy(i), TaskPatched(i)
  PROVE  /\ TheTasks' = [TheTasks EXCEPT ![i] =
                           [exists  |-> TRUE,
                            started |-> taskRec[i].new.started,
                            conds   |-> taskRec[i].new.conds]]
         /\ TheTasks[i].conds = {} /\ TheTasks[i].exists
         /\ TheTasks[i].started => taskRec[i].new.started
         /\ expired' = expired
<1>. DEFINE base == taskRec[i].base
            new  == taskRec[i].new
            task == [exists  |-> TheTasks[i].exists,
                     started |-> Merge(base.started, new.started,
                                       TheTasks[i].started),
                     conds   |-> Merge(base.conds, new.conds, TheTasks[i].conds)]
<1>1. base = TheTasks[i] /\ base.conds = {} /\ TheTasks[i].exists
  BY TasksOnServer DEF TasksFresh
<1>2. /\ base \in TaskObject /\ new \in TaskObject
      /\ taskRec \in [Index -> TaskRecord]
      /\ TheTasks \in [Index -> TaskObject]
  BY TasksOnServer DEF Sound, TypeOK, TaskControllerTypeOK, TaskRecord
<1>3. task = [exists |-> TRUE, started |-> new.started, conds |-> new.conds]
  BY <1>1, <1>2 DEF Merge, TaskObject
<1>4. task \in TaskObject /\ PutTask(i, task)
  BY <1>2, <1>3 DEF TaskObject, TaskPatched, PatchTask
<1>5. TheTasks' = [TheTasks EXCEPT ![i] = task]
  <2>. HIDE DEF task
  <2>. QED
    BY <1>4, SnapshotsAfterWrite DEF Sound
<1>6. base.started => new.started
  BY DEF Sound, IndInv, SequenceInv, StartsKept
<1>7. expired' = expired
  <2>1. i \in expired => TheTasks[i].started
    BY DEF TasksFresh
  <2>2. expired' # expired => i \in expired /\ new.started # base.started
    BY DEF TaskPatched
  <2>. QED
    BY <1>1, <1>2, <1>6, <2>1, <2>2 DEF TaskObject
<1>. QED
  BY <1>1, <1>3, <1>5, <1>6, <1>7

\* A step of a Task's reconciliation changes that Task only, and gives Failed
\* only for a cause.
LEMMA TaskStepFresh ==
  ASSUME Sound, FreshInv, CachesFresh, NEW i \in Index, TaskStep(i)
  PROVE  FreshInv'
<1>. USE FreshParts
<1>a. UNCHANGED <<jobRec, jobVersions>> /\ faults \in Nat
      /\ faults' \in {faults, faults + 1}
  <2>1. UNCHANGED <<jobRec, jobVersions>> /\ faults' \in {faults, faults + 1}
    BY DEF TaskStep, TaskWork, TaskFaults, TaskIgnored, TaskStarts,
       TaskTimesOut, TaskStillPending, TaskCompletes, TaskRuns, TaskPatches,
       TaskSecretFails, TaskConnectFails, TaskCheckFails, TaskRunFails,
       TaskPatchFails, TaskWillPatch, Fault
  <2>. QED
    BY <2>1, ClusterAssumption DEF Sound, TypeOK, ClusterTypeOK
<1>b. /\ taskRec \in [Index -> TaskRecord] /\ taskRec[i].base \in TaskObject
      /\ TheTasks \in [Index -> TaskObject]
      /\ accepted \in SUBSET Index /\ expired \in SUBSET Index
  BY TasksOnServer DEF Sound, TypeOK, TaskControllerTypeOK, TaskRecord
<1>c. ASSUME expired' = expired PROVE Cause => Cause'
  BY <1>a, <1>c DEF Cause
<1>d. ASSUME expired' = expired,
             \A j \in Index : TheTasks'[j].exists => TheTasks[j].exists,
             \A j \in Index : HasSucceeded(j) => HasSucceeded(j)'
      PROVE  JobFresh'
  <2>1. jobRec.index \in Index /\ TheJob' = TheJob
    BY <1>a DEF Sound, TypeOK, JobControllerTypeOK, JobRecord, TheJob
  <2>. QED
    BY <1>a, <1>c, <1>d, <2>1 DEF JobFresh, CompletionEarned
<1>e. ASSUME UNCHANGED <<taskVersions, expired>>, RunsRemembered',
             \A j \in Index \ {i} : taskRec'[j] = taskRec[j],
             taskRec'[i].step # "idle" => taskRec'[i].base = TheTasks[i],
             "Failed" \in taskRec'[i].new.conds => Cause'
      PROVE  FreshInv'
  <2>1. TheTasks' = TheTasks
    BY <1>e DEF TheTasks
  <2>2. JobFresh'
    BY <1>d, <1>e, <2>1 DEF HasSucceeded
  <2>3. TasksFresh'
    BY <1>c, <1>e, <2>1 DEF TasksFresh, HasSucceeded, Busy
  <2>. QED
    BY <2>2, <2>3
<1>f. ASSUME UNCHANGED <<taskVersions, accepted, repeated>>,
             taskRec[i].step # "patch",
             \A j \in Index \ {i} : taskRec'[j] = taskRec[j]
      PROVE  RunsRemembered'
  <2>1. TheTasks' = TheTasks
    BY <1>f DEF TheTasks
  <2>. QED
    BY <1>a, <1>b, <1>f, <2>1 DEF TasksFresh, RunsRemembered
<1>g. ASSUME Fault PROVE Cause' /\ RunsRemembered'
  BY <1>a, <1>g DEF Fault, Cause, RunsRemembered
<1>h. ASSUME NEW again, TaskReturns(i, again)
      PROVE  /\ taskRec'[i].step = "idle" /\ taskRec'[i].new.conds = {}
             /\ \A j \in Index \ {i} : taskRec'[j] = taskRec[j]
  BY <1>b, <1>h DEF TaskReturns, IdleTaskRecord, NoTask
<1>i. ASSUME NEW new, NEW withError, TaskWillPatch(i, new, withError)
      PROVE  /\ UNCHANGED taskVersions
             /\ taskRec'[i].step = "patch" /\ taskRec'[i].new = new
             /\ taskRec'[i].base = taskRec[i].base
             /\ \A j \in Index \ {i} : taskRec'[j] = taskRec[j]
  BY <1>b, <1>i DEF TaskWillPatch, TaskRecord
<1>j. ASSUME Busy(i), NEW c \in {"Completed", "Failed"}
      PROVE  /\ taskRec[i].base = TheTasks[i]
             /\ TaskStatusSet(taskRec[i].base, c).conds = {c}
             /\ Started(taskRec[i].base).conds = {}
             /\ Started(taskRec[i].base).started
  <2>1. taskRec[i].base = TheTasks[i] /\ taskRec[i].base.conds = {}
    BY <1>j, TasksOnServer DEF TasksFresh
  <2>. QED
    BY <1>b, <2>1 DEF TaskStatusSet, Started, TaskObject
<1>k. ASSUME Busy(i), TaskPatched(i), NEW again, TaskReturns(i, again),
             UNCHANGED <<accepted, repeated>>
      PROVE  FreshInv'
  <2>. DEFINE new == taskRec[i].new
  <2>1. /\ TheTasks' = [TheTasks EXCEPT ![i] =
                          [exists |-> TRUE, started |-> new.started,
                           conds |-> new.conds]]
        /\ TheTasks[i].conds = {} /\ TheTasks[i].exists
        /\ TheTasks[i].started => new.started
        /\ expired' = expired
    BY <1>k, TaskPatchedFresh
  <2>2. /\ \A j \in Index : j # i => TheTasks'[j] = TheTasks[j]
        /\ TheTasks'[i].exists /\ TheTasks'[i].started = new.started
        /\ TheTasks'[i].conds = new.conds
    BY <1>b, <2>1
  <2>3. \A j \in Index : HasSucceeded(j) => HasSucceeded(j)'
    BY <2>1, <2>2 DEF HasSucceeded
  <2>4. JobFresh'
    BY <1>d, <2>1, <2>2, <2>3
  <2>5. \A j \in Index : Busy(j)' => taskRec'[j].base = TheTasks'[j]
    BY <1>h, <1>k, <2>2 DEF TasksFresh, Busy
  <2>6. \A j, k \in Index : j < k /\ TheTasks'[k].exists => HasSucceeded(j)'
    <3>1. \A k \in Index : TheTasks'[k].exists => TheTasks[k].exists
      BY <2>1, <2>2
    <3>. QED
      BY <2>3, <3>1 DEF TasksFresh
  <2>7. \A j \in Index :
          "Failed" \in taskRec'[j].new.conds \cup TheTasks'[j].conds => Cause'
    BY <1>c, <1>h, <1>k, <2>1, <2>2 DEF TasksFresh
  <2>8. \A j \in expired' : TheTasks'[j].started
    BY <1>b, <2>1, <2>2 DEF TasksFresh
  <2>9. RunsRemembered'
    BY <1>a, <1>b, <1>h, <1>k, <2>1, <2>2 DEF TasksFresh, RunsRemembered
  <2>. QED
    BY <2>4, <2>5, <2>6, <2>7, <2>8, <2>9 DEF TasksFresh
<1>1. CASE TaskIgnored(i)
  <2>1. UNCHANGED <<taskVersions, taskRec, expired, accepted, repeated>>
    BY <1>1 DEF TaskIgnored, taskVars, history
  <2>2. RunsRemembered'
    BY <1>1, <1>f, <2>1 DEF TaskIgnored
  <2>. QED
    BY <1>c, <1>e, <2>1, <2>2 DEF TasksFresh, Busy
<1>2. CASE TaskStarts(i)
  <2>1. /\ taskRec'[i].base = TheTasks[i] /\ taskRec'[i].new = TheTasks[i]
        /\ \A j \in Index \ {i} : taskRec'[j] = taskRec[j]
        /\ UNCHANGED <<taskVersions, expired, accepted, repeated>>
        /\ ~Terminal(TheTasks[i]) /\ taskRec[i].step = "idle"
    BY <1>2, <1>b, FreshReads DEF TaskStarts, TaskRecord, history, Sound
  <2>. QED
    BY <1>e, <1>f, <2>1 DEF Terminal
<1>3. CASE TaskTimesOut(i)
  <2>1. /\ Busy(i) /\ taskRec[i].step = "got"
        /\ TaskWillPatch(i, TaskStatusSet(taskRec[i].base, "Failed"), TRUE)
        /\ UNCHANGED <<expired, accepted, repeated>> /\ i \in expired
    BY <1>3 DEF TaskTimesOut, Checking, Busy, history
  <2>. QED
    BY <1>e, <1>f, <1>i, <1>j, <2>1 DEF Cause
<1>4. CASE TaskCompletes(i)
  <2>1. /\ Busy(i) /\ taskRec[i].step = "got"
        /\ TaskWillPatch(i, TaskStatusSet(taskRec[i].base, "Completed"), FALSE)
        /\ UNCHANGED <<expired, accepted, repeated>>
    BY <1>4 DEF TaskCompletes, Checking, Busy, history
  <2>. QED
    BY <1>e, <1>f, <1>i, <1>j, <2>1
<1>5. CASE TaskRuns(i)
  <2>1. /\ Busy(i) /\ taskRec[i].step = "got" /\ ~taskRec[i].base.started
        /\ TaskWillPatch(i, Started(taskRec[i].base), FALSE)
        /\ accepted' = accepted \cup {i} /\ UNCHANGED expired
        /\ repeated' = IF i \in accepted THEN repeated \cup {i} ELSE repeated
    BY <1>5 DEF TaskRuns, NewRun, Busy, Sent
  <2>2. RunsRemembered'
    <3>. SUFFICES ASSUME faults' = 0 PROVE RunsRemembered'
      BY DEF RunsRemembered
    <3>1. i \notin accepted /\ repeated = {}
      BY <1>a, <1>j, <2>1 DEF TasksFresh, RunsRemembered
    <3>2. TheTasks' = TheTasks
      BY <1>i, <2>1 DEF TheTasks
    <3>3. faults = 0
      BY <1>a
    <3>4. /\ taskRec'[i].step = "patch" /\ taskRec'[i].new.started
          /\ \A j \in Index \ {i} : taskRec'[j] = taskRec[j]
      BY <1>i, <1>j, <2>1
    <3>. QED
      BY <1>b, <2>1, <3>1, <3>2, <3>3, <3>4 DEF TasksFresh, RunsRemembered
  <2>. QED
    BY <1>e, <1>i, <1>j, <2>1, <2>2
<1>6. CASE TaskConnectFails(i) \/ TaskRunFails(i)
  <2>1. /\ Busy(i) /\ UNCHANGED expired /\ Fault
        /\ \E new, withError : TaskWillPatch(i, new, withError)
    BY <1>6 DEF TaskConnectFails, TaskRunFails, NewRun, Busy
  <2>. QED
    BY <1>e, <1>g, <1>i, <1>j, <2>1
<1>7. CASE TaskStillPending(i)
  <2>1. /\ taskRec[i].step = "got" /\ TaskReturns(i, TRUE)
        /\ UNCHANGED <<taskVersions, expired, accepted, repeated>>
    BY <1>7 DEF TaskStillPending, Checking, history
  <2>. QED
    BY <1>e, <1>f, <1>h, <2>1
<1>8. CASE TaskSecretFails(i) \/ TaskCheckFails(i)
  <2>1. Fault /\ TaskReturns(i, TRUE) /\ UNCHANGED <<taskVersions, expired>>
    BY <1>8 DEF TaskSecretFails, TaskCheckFails
  <2>. QED
    BY <1>e, <1>g, <1>h, <2>1
<1>9. CASE TaskPatches(i)
  BY <1>9, <1>k DEF TaskPatches, Busy, history
<1>10. CASE TaskPatchFails(i)
  <2>1. Busy(i) /\ Fault /\ TaskReturns(i, TRUE) /\ UNCHANGED <<accepted, repeated>>
    BY <1>10 DEF TaskPatchFails, Busy, history
  <2>2. CASE UNCHANGED <<taskVersions, expired>>
    BY <1>e, <1>g, <1>h, <2>1, <2>2
  <2>3. CASE TaskPatched(i)
    BY <1>k, <2>1, <2>3
  <2>. QED
    BY <1>10, <2>2, <2>3 DEF TaskPatchFails
<1>. QED
  BY <1>1, <1>2, <1>3, <1>4, <1>5, <1>6, <1>7, <1>8, <1>9, <1>10
     DEF TaskStep, TaskWork, TaskFaults

\* Nothing outside the two controllers writes to the server; a Task expires
\* only once it was started, and a restart ends every reconciliation.
LEMMA EnvironmentFresh ==
  ASSUME Sound, FreshInv, Environment \/ Restart
  PROVE  FreshInv'
<1>. USE FreshParts
<1>a. TheTasks' = TheTasks /\ TheJob' = TheJob
  BY ServerUntouched DEF Sound
<1>b. /\ \A i \in Index : HasSucceeded(i)' <=> HasSucceeded(i)
      /\ faults \in Nat
  BY <1>a, ClusterAssumption DEF HasSucceeded, Sound, TypeOK, ClusterTypeOK
<1>1. CASE UNCHANGED <<jobRec, taskRec, expired, accepted, repeated, faults>>
  BY <1>a, <1>b, <1>1 DEF TasksFresh, JobFresh, CompletionEarned, RunsRemembered,
     Cause, Busy
<1>2. ASSUME NEW i \in Index, Expires(i), UNCHANGED jobRec
      PROVE  FreshInv'
  <2>1. /\ UNCHANGED <<taskRec, accepted, repeated, faults>>
        /\ expired' = expired \cup {i} /\ TheTasks[i].started
    BY <1>2 DEF Expires, clusterVars, history
  <2>. QED
    BY <1>2, <1>a, <1>b, <2>1 DEF TasksFresh, JobFresh, CompletionEarned,
       RunsRemembered, Cause, Busy
<1>3. CASE Restart
  <2>1. /\ jobRec'.step = "idle" /\ jobRec'.new.conds = {}
        /\ \A i \in Index : /\ taskRec'[i].step = "idle"
                            /\ taskRec'[i].new.conds = {}
        /\ UNCHANGED <<expired, accepted, repeated>> /\ faults' = faults + 1
    BY <1>3 DEF Restart, Fault, IdleJobRecord, NewJob, IdleTaskRecord, NoTask,
                history
  <2>2. Cause' /\ RunsRemembered'
    BY <1>b, <2>1 DEF Cause, RunsRemembered
  <2>. QED
    BY <1>a, <1>b, <2>1, <2>2 DEF TasksFresh, JobFresh, CompletionEarned, Busy
<1>. QED
  BY <1>1, <1>2, <1>3 DEF Environment, ClusterStep, Deliveries, DeliverJob,
     DeliverTask, ResyncJob, ResyncTask, taskVars, clusterVars, history

\* At the start nobody has read anything.
LEMMA FreshInit == Init => FreshInv
<1>. SUFFICES ASSUME Init PROVE FreshInv
  OBVIOUS
<1>1. TheTasks = [i \in Index |-> NoTask] /\ TheJob = NewJob
  BY DEF Init, ClusterInit, TheJob, TheTasks, Latest
<1>. QED
  BY <1>1 DEF Init, ClusterInit, JobControllerInit, TaskControllerInit,
     IdleJobRecord, IdleTaskRecord, NoTask, NewJob, FreshInv, RecordsCurrent,
     CreatesNext, CompletionEarned, FailuresCaused, RunsRemembered, Busy,
     HasSucceeded, Cause

\* Every step with fresh caches acts on what the server holds.
LEMMA FreshStep == Sound /\ FreshInv /\ [FreshNext]_vars => FreshInv'
<1>1. FreshInv /\ UNCHANGED vars => FreshInv'
  BY DEF vars, clusterVars, taskVars, history, FreshInv, RecordsCurrent,
     CreatesNext, CompletionEarned, FailuresCaused, RunsRemembered, Busy,
     HasSucceeded, Cause, TheJob, TheTasks
<1>2. FreshNext => Environment \/
                   (CachesFresh /\ (JobStep \/ (\E i \in Index : TaskStep(i))
                                      \/ Environment \/ Restart))
  BY DEF FreshNext, Next, Environment, ClusterStep
<1>. QED
  BY <1>1, <1>2, JobStepFresh, TaskStepFresh, EnvironmentFresh

\* FreshInv is an invariant of the system with fresh caches.
THEOREM FreshInvariant == FreshSpec => []FreshInv
BY FreshInit, FreshStep, FreshSound, PTL DEF FreshSpec

\* A Job fails only for a cause: with fresh caches no Create conflicts and no
\* Task fails of itself, for every number of Tasks and of failed calls.
THEOREM JobsFailForACause == FreshSpec => []FailureHasCause
<1>1. FreshInv => FailureHasCause
  BY DEF FreshInv, FailuresCaused, FailureHasCause, Cause
<1>. QED
  BY <1>1, FreshInvariant, PTL

\* As long as no call fails and the manager is not restarted, runTask sends no
\* accepted action a second time.
THEOREM ActionsSentOnce == FreshSpec => []SentOnce
<1>1. FreshInv => SentOnce
  BY DEF FreshInv, RunsRemembered, SentOnce
<1>. QED
  BY <1>1, FreshInvariant, PTL

(***************************************************************************)
(* The promise of module SequentialJob, step by step.                      *)
(***************************************************************************)

\* The Tasks of the abstract specification.
TaskView == [i \in Index |-> TaskVerdict(TheTasks[i])]

\* A Task as its owner may see it.
LEMMA ViewOfTask ==
  ASSUME NEW task \in TaskObject
  PROVE  /\ ~task.exists => TaskVerdict(task) = "none"
         /\ task.exists /\ task.conds = {} => TaskVerdict(task) = "pending"
         /\ task.exists /\ "Completed" \in task.conds =>
              TaskVerdict(task) = "Completed"
         /\ task.exists /\ task.conds = {"Failed"} => TaskVerdict(task) = "Failed"
BY DEF TaskVerdict, Terminal, TaskObject

\* A Job as its user may see it.
LEMMA ViewOfJob ==
  ASSUME NEW job \in JobObject
  PROVE  /\ ~Terminal(job) <=> JobVerdict(job) = "open"
         /\ Terminal(job) /\ "Completed" \in job.conds /\ job.finished =>
              JobVerdict(job) = "Completed"
         /\ Terminal(job) /\ "Completed" \notin job.conds =>
              JobVerdict(job) = "Failed"
BY DEF JobVerdict, Terminal, JobObject

\* When a Task is written, the view changes where the Task is.
LEMMA ViewAfterWrite ==
  ASSUME TheTasks \in [Index -> TaskObject], NEW i \in Index, NEW task,
         TheTasks' = [TheTasks EXCEPT ![i] = task]
  PROVE  TaskView' = [TaskView EXCEPT ![i] = TaskVerdict(task)]
<1>1. /\ \A j \in Index : j # i => TheTasks'[j] = TheTasks[j]
      /\ TheTasks'[i] = task
  OBVIOUS
<1>2. TaskView' = [j \in Index |-> TaskVerdict(TheTasks'[j])]
  BY DEF TaskView, TaskVerdict
<1>. QED
  BY <1>1, <1>2 DEF TaskView

JobView == JobVerdict(TheJob)

\* The steps of the abstract specification, in terms of the two views.
LEMMA AbstractSteps ==
  /\ \A i \in Index :
       /\ JobView = "open" /\ TaskView[i] = "none"
       /\ \A j \in 0..(i - 1) : TaskView[j] = "Completed"
       /\ TaskView' = [TaskView EXCEPT ![i] = "pending"]
       /\ JobView' = JobView
       => Promise!SJNext
  /\ \A i \in Index, v \in {"Completed", "Failed"} :
       /\ TaskView[i] = "pending"
       /\ TaskView' = [TaskView EXCEPT ![i] = v]
       /\ JobView' = JobView
       => Promise!SJNext
  /\ JobView = "open" /\ TaskView' = TaskView =>
       /\ (\A i \in Index : TaskView[i] = "Completed") /\ JobView' = "Completed"
            => Promise!SJNext
       /\ JobView' = "Failed" => Promise!SJNext
BY DEF JobView, TaskView, Index, Promise!SJNext, Promise!SJIndex,
   Promise!CreateTask, Promise!FinishTask, Promise!CompleteJob, Promise!FailJob,
   Promise!Verdicts

\* A step of the Job controller creates the next Task of an open Job, gives the
\* Job its verdict, or shows nothing.
LEMMA JobStepPromise ==
  ASSUME Sound, FreshInv, FreshInv', CachesFresh, JobStep
  PROVE  Promise!SJNext \/ (TaskView' = TaskView /\ JobView' = JobView)
<1>. USE FreshParts
<1>a. /\ TheTasks \in [Index -> TaskObject] /\ TheJob \in JobObject
      /\ jobRec \in JobRecord /\ jobRec.new \in JobObject
      /\ jobRec.index \in Index
  BY TasksOnServer DEF Sound, TypeOK, JobControllerTypeOK, JobRecord
<1>b. ASSUME UNCHANGED taskVersions PROVE TaskView' = TaskView
  BY <1>b DEF TaskView, TheTasks, TaskVerdict
<1>c. ASSUME UNCHANGED jobVersions PROVE JobView' = JobView
  BY <1>c DEF JobView, TheJob, JobVerdict
<1>d. JobView = "open" <=> ~Terminal(TheJob)
  BY <1>a, ViewOfJob DEF JobView
<1>e. ASSUME NEW i \in Index, HasSucceeded(i) PROVE TaskView[i] = "Completed"
  <2>1. TheTasks[i].exists /\ TheTasks[i] \in TaskObject
    BY <1>a, <1>e, TasksOnServer DEF HasSucceeded, Terminal
  <2>. QED
    BY <1>e, <2>1, ViewOfTask DEF HasSucceeded, TaskView
<1>f. ASSUME jobRec.step = "create", TaskCreated(jobRec.index),
             UNCHANGED <<jobVersions, taskRec, expired, accepted, repeated>>,
             faults' \in {faults, faults + 1}
      PROVE  Promise!SJNext
  <2>. DEFINE n == jobRec.index
  <2>1. TheTasks' = [TheTasks EXCEPT ![n] = NewTask]
    BY <1>f, CreationFresh
  <2>2. TaskView' = [TaskView EXCEPT ![n] = "pending"]
    <3>1. NewTask \in TaskObject /\ NewTask.exists /\ NewTask.conds = {}
      BY DEF NewTask, TaskObject
    <3>2. TaskVerdict(NewTask) = "pending"
      BY <3>1, ViewOfTask
    <3>3. TaskView' = [TaskView EXCEPT ![n] = TaskVerdict(NewTask)]
      BY <1>a, <2>1, ViewAfterWrite
    <3>. QED
      BY <3>2, <3>3
  <2>3. TaskView[n] = "none"
    <3>1. ~TheTasks[n].exists /\ TheTasks[n] \in TaskObject
      BY <1>a, <1>f DEF JobFresh
    <3>. QED
      BY <1>a, <3>1, ViewOfTask DEF TaskView
  <2>4. ASSUME NEW j \in 0..(n - 1) PROVE TaskView[j] = "Completed"
    <3>1. j \in Index /\ j < n
      BY <1>a, ClusterAssumption DEF Index
    <3>. QED
      BY <1>e, <1>f, <3>1 DEF JobFresh
  <2>5. JobView = "open" /\ JobView' = JobView
    BY <1>c, <1>d, <1>f DEF JobFresh
  <2>. QED
    BY <1>a, <2>2, <2>3, <2>4, <2>5, AbstractSteps
<1>g. ASSUME jobRec.step = "patch", PatchJob(jobRec.base, jobRec.new),
             UNCHANGED taskVersions
      PROVE  Promise!SJNext \/ (TaskView' = TaskView /\ JobView' = JobView)
  <2>1. /\ TheJob'.conds = jobRec.new.conds
        /\ TheJob'.finished = jobRec.new.finished
        /\ TaskView' = TaskView /\ JobView = "open"
    BY <1>b, <1>d, <1>g, JobPatchedFresh DEF JobFresh
  <2>2. TheJob' \in JobObject
    <3>1. jobRec.base \in JobObject
      BY DEF Sound, TypeOK, JobControllerTypeOK, JobRecord
    <3>2. jobVersions' \in Seq(JobObject) /\ Len(jobVersions') >= 1
      BY <1>a, <1>g, <3>1, PatchJobType DEF Sound
    <3>. QED
      BY <3>2, EndsOfWindow DEF TheJob
  <2>v. JobView' = JobVerdict(TheJob')
    BY DEF JobView, JobVerdict
  <2>3. CASE "Completed" \in jobRec.new.conds
    <3>1. Terminal(TheJob') /\ TheJob'.finished /\ "Completed" \in TheJob'.conds
      BY <2>1, <2>3 DEF Terminal, JobFresh, CompletionEarned
    <3>2. JobView' = "Completed"
      BY <2>2, <2>v, <3>1, ViewOfJob
    <3>3. \A i \in Index : TaskView[i] = "Completed"
      BY <1>e, <2>3 DEF JobFresh, CompletionEarned
    <3>. QED
      BY <2>1, <3>2, <3>3, AbstractSteps
  <2>4. CASE "Completed" \notin jobRec.new.conds /\ "Failed" \in jobRec.new.conds
    <3>1. Terminal(TheJob') /\ "Completed" \notin TheJob'.conds
      BY <2>1, <2>4 DEF Terminal
    <3>2. JobView' = "Failed"
      BY <2>2, <2>v, <3>1, ViewOfJob
    <3>. QED
      BY <2>1, <3>2, AbstractSteps
  <2>5. CASE "Completed" \notin jobRec.new.conds /\ "Failed" \notin jobRec.new.conds
    <3>1. ~Terminal(TheJob')
      BY <2>1, <2>5 DEF Terminal
    <3>. QED
      BY <2>1, <2>2, <2>v, <3>1, ViewOfJob
  <2>. QED
    BY <2>3, <2>4, <2>5
<1>h. /\ UNCHANGED <<taskRec, expired, accepted, repeated>>
  BY DEF JobStep, taskVars, history
<1>1. CASE JobIgnored \/ JobStarts \/ JobWaits \/ JobSeesFailure \/ JobCompletes
           \/ JobPicksNext \/ JobLookupFails \/ JobCreateConflicts
  <2>1. UNCHANGED <<jobVersions, taskVersions>>
    BY <1>1 DEF JobIgnored, JobStarts, JobWaits, JobSeesFailure, JobCompletes,
       JobPicksNext, JobLookupFails, JobCreateConflicts, clusterVars
  <2>. QED
    BY <1>b, <1>c, <2>1
<1>2. CASE JobCreatesTask
  BY <1>2, <1>f, <1>h DEF JobCreatesTask
<1>3. CASE JobCreateFails
  BY <1>3, <1>b, <1>c, <1>f, <1>h DEF JobCreateFails, Fault
<1>4. CASE JobPatches
  BY <1>4, <1>g DEF JobPatches
<1>5. CASE JobPatchFails
  BY <1>5, <1>b, <1>c, <1>g DEF JobPatchFails
<1>. QED
  BY <1>1, <1>2, <1>3, <1>4, <1>5 DEF JobStep, JobWork, JobFaults

\* A step of a Task's reconciliation finishes the Task or shows nothing.
LEMMA TaskStepPromise ==
  ASSUME Sound, FreshInv, NEW i \in Index, TaskStep(i)
  PROVE  Promise!SJNext \/ (TaskView' = TaskView /\ JobView' = JobView)
<1>. USE FreshParts
<1>1. JobView' = JobView
  BY DEF JobView, JobVerdict, TheJob, TaskStep, TaskWork, TaskFaults, TaskIgnored,
     TaskStarts, TaskTimesOut, TaskStillPending, TaskCompletes, TaskRuns,
     TaskPatches, TaskSecretFails, TaskConnectFails, TaskCheckFails,
     TaskRunFails, TaskPatchFails, TaskWillPatch
<1>2. CASE UNCHANGED taskVersions
  BY <1>1, <1>2 DEF TaskView, TheTasks, TaskVerdict
<1>3. CASE taskRec[i].step = "patch" /\ TaskPatched(i)
  <2>. DEFINE new  == taskRec[i].new
              task == [exists |-> TRUE, started |-> new.started,
                       conds |-> new.conds]
  <2>1. /\ TheTasks' = [TheTasks EXCEPT ![i] = task]
        /\ TheTasks[i].conds = {} /\ TheTasks[i].exists
        /\ new.conds \in {{}, {"Completed"}, {"Failed"}}
        /\ TheTasks \in [Index -> TaskObject] /\ new \in TaskObject
    BY <1>3, TaskPatchedFresh, TasksOnServer
       DEF Busy, Sound, TypeOK, TaskControllerTypeOK, TaskRecord
  <2>2. TaskView' = [TaskView EXCEPT ![i] = TaskVerdict(task)]
    <3>. HIDE DEF task
    <3>. QED
      BY <2>1, ViewAfterWrite
  <2>3. TaskView[i] = "pending"
    BY <2>1, ViewOfTask DEF TaskView
  <2>4. task \in TaskObject /\ task.exists
    BY <2>1 DEF TaskObject
  <2>5. CASE new.conds = {}
    <3>1. TaskVerdict(task) = "pending"
      BY <2>4, <2>5, ViewOfTask
    <3>. QED
      BY <1>1, <2>2, <2>3, <3>1 DEF TaskView
  <2>6. CASE new.conds \in {{"Completed"}, {"Failed"}}
    <3>1. TaskVerdict(task) \in {"Completed", "Failed"}
      BY <2>4, <2>6, ViewOfTask
    <3>. QED
      BY <1>1, <2>2, <2>3, <3>1, AbstractSteps
  <2>. QED
    BY <2>1, <2>5, <2>6
<1>4. UNCHANGED taskVersions \/ (taskRec[i].step = "patch" /\ TaskPatched(i))
  BY DEF TaskStep, TaskWork, TaskFaults, TaskIgnored, TaskStarts,
     TaskTimesOut, TaskStillPending, TaskCompletes, TaskRuns, TaskPatches,
     TaskSecretFails, TaskConnectFails, TaskCheckFails, TaskRunFails,
     TaskPatchFails, TaskWillPatch
<1>. QED
  BY <1>2, <1>3, <1>4

\* At the start no Task is there and the Job is open.
LEMMA PromiseInit == Init => Promise!SJInit
<1>. SUFFICES ASSUME Init PROVE Promise!SJInit
  OBVIOUS
<1>1. TheTasks = [i \in Index |-> NoTask] /\ TheJob = NewJob
  BY DEF Init, ClusterInit, TheJob, TheTasks, Latest
<1>2. TaskVerdict(NoTask) = "none" /\ JobVerdict(NewJob) = "open"
  BY DEF TaskVerdict, JobVerdict, NoTask, NewJob, Terminal
<1>. QED
  BY <1>1, <1>2 DEF Promise!SJInit, Promise!SJIndex, Index

\* Every step with fresh caches is one of the promise, or none of its own.
LEMMA PromiseStep ==
  Sound /\ FreshInv /\ FreshInv' /\ [FreshNext]_vars =>
    Promise!SJNext \/ (TaskView' = TaskView /\ JobView' = JobView)
<1>. SUFFICES ASSUME Sound, FreshInv, FreshInv', [FreshNext]_vars
              PROVE  Promise!SJNext \/ (TaskView' = TaskView /\ JobView' = JobView)
  OBVIOUS
<1>1. ASSUME TheTasks' = TheTasks, TheJob' = TheJob
      PROVE  TaskView' = TaskView /\ JobView' = JobView
  BY <1>1 DEF TaskView, JobView, TaskVerdict, JobVerdict
<1>2. CASE UNCHANGED vars
  BY <1>1, <1>2 DEF vars, clusterVars, TheTasks, TheJob
<1>3. CASE Environment \/ Restart
  BY <1>1, <1>3, ServerUntouched DEF Sound
<1>4. CASE CachesFresh /\ JobStep
  BY <1>4, JobStepPromise
<1>5. ASSUME NEW i \in Index, TaskStep(i)
      PROVE  Promise!SJNext \/ (TaskView' = TaskView /\ JobView' = JobView)
  BY <1>5, TaskStepPromise
<1>. QED
  BY <1>2, <1>3, <1>4, <1>5 DEF FreshNext, Next, Environment, ClusterStep

\* With fresh caches the two reconcilers implement SequentialJob, for every
\* number of Tasks and under every failed call, lost reply and restart: a Task
\* is created when those before it completed and the Job has no verdict, the
\* Job completes when all of them did, and no verdict is taken back.
THEOREM RefinesSequentialJob == FreshSpec => KeepsPromise
<1>1. TaskView' = TaskView /\ JobView' = JobView =>
        UNCHANGED <<[i \in Index |-> TaskVerdict(TheTasks[i])], JobVerdict(TheJob)>>
  BY DEF TaskView, JobView
<1>. QED
  BY <1>1, PromiseInit, PromiseStep, FreshSound, FreshInvariant, PTL
     DEF FreshSpec, KeepsPromise, Promise!SJSpec

\* With fresh caches a Job that has its verdict is left alone, as "Job is
\* Completed or Failed is noop" (controller/job.go:78) says: that the run
\* job_noop finds it written again takes a late watch.
THEOREM VerdictsLeftAlone == FreshSpec => JobVerdictFinal
<1>1. Sound /\ FreshInv /\ [FreshNext]_vars =>
        (Terminal(TheJob) => TheJob' = TheJob)
  <2>. SUFFICES ASSUME Sound, FreshInv, [FreshNext]_vars, Terminal(TheJob)
                PROVE  TheJob' = TheJob
    OBVIOUS
  <2>1. CASE UNCHANGED jobVersions
    BY <2>1 DEF TheJob
  <2>2. CASE Environment \/ Restart
    BY <2>2, ServerUntouched DEF Sound
  <2>3. CASE JobStep
    <3>1. jobRec.step = "idle"
      BY DEF FreshInv, RecordsCurrent
    <3>. QED
      BY <2>1, <2>3, <3>1 DEF JobStep, JobWork, JobFaults, JobIgnored, JobStarts,
         JobWaits, JobSeesFailure, JobCompletes, JobPicksNext, JobCreatesTask,
         JobCreateConflicts, JobPatches, JobLookupFails, JobCreateFails,
         JobPatchFails
  <2>4. ASSUME NEW i \in Index, TaskStep(i) PROVE TheJob' = TheJob
    BY <2>4 DEF TheJob, TaskStep, TaskWork, TaskFaults, TaskIgnored,
       TaskStarts, TaskTimesOut, TaskStillPending, TaskCompletes, TaskRuns,
       TaskPatches, TaskSecretFails, TaskConnectFails, TaskCheckFails,
       TaskRunFails, TaskPatchFails, TaskWillPatch
  <2>. QED
    BY <2>1, <2>2, <2>3, <2>4
       DEF FreshNext, Next, Environment, ClusterStep, vars, clusterVars
<1>2. (Terminal(TheJob) => TheJob' = TheJob) =>
        [Terminal(TheJob) => TheJob' = TheJob]_vars
  OBVIOUS
<1>. QED
  BY <1>1, <1>2, FreshSound, FreshInvariant, PTL DEF FreshSpec, JobVerdictFinal

(***************************************************************************)
(* The power of the machine.                                               *)
(***************************************************************************)

\* What cannot become known of a Task without being known before: that its
\* action was accepted, and that it was found done.
NothingLearnt ==
  \A i \in Index : /\ HasRun(i)' => HasRun(i)
                   /\ FoundDone(i)' => FoundDone(i)
                   /\ HasSucceeded(i)' => TheTasks'[i].started

\* What every step does for the parts of PowerInv: that the machine does as
\* asked carries over for itself, whatever else becomes of its power.
PowerKept ==
  /\ RunsInTurn'
  /\ AsAsked => AsAsked'
  /\ PowerInv => PowerInv'

\* PowerInv speaks of the BMC, the history and what is known of the Tasks.
LEMMA NothingNew ==
  ASSUME Sound, RunsInTurn, NothingLearnt, UNCHANGED <<bmc, lastRun, accepted>>
  PROVE  PowerKept
<1>1. lastRun \in Index
  BY DEF Sound, TypeOK, TaskControllerTypeOK
<1>2. RunsInTurn'
  BY DEF NothingLearnt, RunsInTurn
<1>3. AsAsked => AsAsked'
  BY <1>1 DEF NothingLearnt, AsAsked, HeadingAsAsked, StaysAsFound, Settling
<1>4. PowerInv => WhyOnItsWay' /\ SoftOffsLast'
  BY <1>1 DEF PowerInv, NothingLearnt, WhyOnItsWay, OnItsWay, SoftOffsLast
<1>. QED
  BY <1>2, <1>3, <1>4 DEF PowerKept, PowerInv

\* The Task that is reconciled is the last one there, those before it have
\* completed, and its action, if it was sent at all, was sent last.
LEMMA BusyIsLast ==
  ASSUME Sound, FreshInv, RunsInTurn, NEW i \in Index, Busy(i)
  PROVE  /\ taskRec[i].base = TheTasks[i] /\ TheTasks[i].conds = {}
         /\ ~HasSucceeded(i)
         /\ \A j \in Index : TheTasks[j].exists => j <= i
         /\ \A j \in Index : j < i => HasSucceeded(j) /\ j <= lastRun
         /\ \A j \in Index : Busy(j) => j = i
         /\ lastRun \in Index /\ lastRun <= i
         /\ TheTasks[i].started => lastRun = i
<1>1. /\ taskRec[i].base = TheTasks[i] /\ TheTasks[i].conds = {}
      /\ TheTasks[i].exists /\ ~HasSucceeded(i)
  BY TasksOnServer DEF FreshInv, RecordsCurrent, HasSucceeded
<1>2. /\ Index \subseteq Nat /\ lastRun \in Index
      /\ \A j \in Index : lastRun = 0 => lastRun <= j
  BY ClusterAssumption DEF Sound, TypeOK, TaskControllerTypeOK, Index
<1>3. \A j \in Index : TheTasks[j].exists => j <= i
  BY <1>1, <1>2 DEF FreshInv, CreatesNext
<1>4. \A j \in Index : Busy(j) => j = i
  <2>. SUFFICES ASSUME NEW j \in Index, Busy(j), j # i PROVE FALSE
    OBVIOUS
  <2>1. TheTasks[j].exists /\ ~HasSucceeded(j)
    BY TasksOnServer DEF FreshInv, RecordsCurrent, HasSucceeded
  <2>. QED
    BY <1>1, <1>2, <1>3, <2>1 DEF FreshInv, CreatesNext
<1>5. lastRun <= i
  BY <1>2, <1>3 DEF Sound, IndInv, SequenceInv, LastRunExists
<1>6. ASSUME NEW j \in Index, j < i PROVE HasSucceeded(j) /\ j <= lastRun
  <2>1. HasSucceeded(j)
    BY <1>1, <1>6 DEF FreshInv, CreatesNext
  <2>2. Vouched(j, TheTasks[j])
    BY TasksOnServer DEF Sound, IndInv, AcceptedInv
  <2>3. j \in accepted
    BY <2>1, <2>2 DEF Vouched, HasSucceeded
  <2>. QED
    BY <2>1, <2>3 DEF RunsInTurn
<1>7. TheTasks[i].started => lastRun = i
  <2>1. Vouched(i, TheTasks[i])
    BY TasksOnServer DEF Sound, IndInv, AcceptedInv
  <2>2. TheTasks[i].started => i <= lastRun
    BY <1>1, <2>1 DEF Vouched, RunsInTurn
  <2>. QED
    BY <1>2, <1>5, <2>2
<1>. QED
  BY <1>1, <1>2, <1>3, <1>4, <1>5, <1>6, <1>7

\* The Job controller neither sends an action nor checks on one.
LEMMA JobStepPower ==
  ASSUME Sound, FreshInv, RunsInTurn, JobStep
  PROVE  PowerKept
<1>. USE FreshParts
<1>a. UNCHANGED <<taskRec, expired, bmc, accepted, repeated, lastRun>>
  BY DEF JobStep, taskVars, history
<1>1. CASE UNCHANGED taskVersions
  <2>1. TheTasks' = TheTasks
    BY <1>1 DEF TheTasks
  <2>2. NothingLearnt
    BY <1>a, <2>1 DEF NothingLearnt, HasRun, FoundDone, HasSucceeded, Ran, Busy,
       RunsInTurn
  <2>. QED
    BY <1>a, <2>2, NothingNew
<1>2. CASE /\ jobRec.step = "create" /\ TaskCreated(jobRec.index)
           /\ faults' \in {faults, faults + 1}
  <2>1. /\ TheTasks' = [TheTasks EXCEPT ![jobRec.index] = NewTask]
        /\ TheTasks \in [Index -> TaskObject]
    BY <1>2, <1>a, CreationFresh, TasksOnServer
  <2>2. \A i \in Index : TheTasks'[i] = TheTasks[i] \/ TheTasks'[i] = NewTask
    BY <2>1
  <2>3. NothingLearnt
    BY <1>a, <2>2 DEF NothingLearnt, HasRun, FoundDone, HasSucceeded, Ran, Busy,
       NewTask, RunsInTurn
  <2>. QED
    BY <1>a, <2>3, NothingNew
<1>. QED
  BY <1>1, <1>2 DEF JobStep, JobWork, JobFaults, JobIgnored, JobStarts, JobWaits,
     JobSeesFailure, JobCompletes, JobPicksNext, JobCreatesTask,
     JobCreateConflicts, JobPatches, JobLookupFails, JobCreateFails,
     JobPatchFails, clusterVars, Fault

\* An action is sent by the reconciliation of the last Task.  What was found
\* done before it stays as it was found unless the action changes the power.
LEMMA RunPower ==
  ASSUME Sound, FreshInv, RunsInTurn, NEW i \in Index,
         TaskRuns(i) \/ TaskRunFails(i)
  PROVE  PowerKept /\ (Action[i] \notin PowerNeutral => AsAsked')
<1>1. /\ Busy(i) /\ ~taskRec[i].base.started /\ lastRun' = i
      /\ UNCHANGED taskVersions
      /\ bmc' \in Effects(Action[i]) \cup {bmc}
      /\ accepted' \subseteq accepted \cup {i}
  BY DEF TaskRuns, TaskRunFails, NewRun, Busy, Sent, TaskWillPatch
<1>2. /\ taskRec[i].base = TheTasks[i] /\ TheTasks[i].conds = {}
      /\ ~HasSucceeded(i) /\ ~TheTasks[i].started
      /\ \A j \in Index : j < i => HasSucceeded(j) /\ j <= lastRun
      /\ \A j \in Index : Busy(j) => j = i
      /\ lastRun \in Index /\ lastRun <= i
  BY <1>1, BusyIsLast
<1>3. TheTasks' = TheTasks
  BY <1>1 DEF TheTasks
<1>4. /\ \A j \in Index \ {i} : taskRec'[j] = taskRec[j]
      /\ "Completed" \notin taskRec'[i].new.conds
      /\ TaskRunFails(i) => "Failed" \in taskRec'[i].new.conds
  <2>1. taskRec \in [Index -> TaskRecord] /\ taskRec[i].base \in TaskObject
    BY DEF Sound, TypeOK, TaskControllerTypeOK, TaskRecord
  <2>2. /\ Started(taskRec[i].base).conds = {}
        /\ TaskStatusSet(Started(taskRec[i].base), "Failed").conds = {"Failed"}
    BY <1>2, <2>1 DEF Started, TaskStatusSet, TaskObject
  <2>. QED
    BY <2>1, <2>2 DEF TaskRuns, TaskRunFails, TaskWillPatch, TaskRecord
<1>5. /\ Index \subseteq Nat /\ bmc \in Powers /\ Action[i] \in ActionKinds
      /\ accepted \in SUBSET Index
  BY ClusterAssumption, ActionAssumption
     DEF Index, Sound, TypeOK, TaskControllerTypeOK, BmcTypeOK
<1>6. ~FoundDone(i)'
  BY <1>2, <1>3, <1>4 DEF FoundDone, HasSucceeded
<1>7. ASSUME NEW k \in Index, FoundDone(k)'
      PROVE  k < i /\ k <= lastRun /\ FoundDone(k)
  <2>1. k # i
    BY <1>6, <1>7
  <2>2. HasSucceeded(k)
    BY <1>2, <1>3, <1>4, <1>7, <2>1 DEF FoundDone, HasSucceeded, Busy
  <2>3. TheTasks[k].exists
    BY <2>2, TasksOnServer DEF HasSucceeded, Terminal
  <2>4. k <= i
    BY <1>1, <2>3, BusyIsLast
  <2>. QED
    BY <1>2, <1>5, <2>1, <2>2, <2>4 DEF FoundDone
<1>8. RunsInTurn'
  BY <1>1, <1>2, <1>3, <1>5 DEF RunsInTurn, HasSucceeded
<1>9. HeadingAsAsked'
  <2>1. CASE TaskRuns(i)
    <3>1. bmc' \in Effects(Action[i])
      BY <2>1 DEF TaskRuns
    <3>. QED
      BY <1>1, <1>5, <3>1 DEF HeadingAsAsked, Effects, Powers
  <2>2. CASE TaskRunFails(i)
    BY <1>1, <1>2, <1>3, <1>4, <2>2 DEF HeadingAsAsked, HasRun, Ran
  <2>. QED
    BY <2>1, <2>2
<1>10. AsAsked \/ Action[i] \notin PowerNeutral => StaysAsFound'
  <2>. SUFFICES ASSUME AsAsked \/ Action[i] \notin PowerNeutral,
                       NEW k \in Settling, k <= lastRun',
                       \A j \in Index : k < j /\ j <= lastRun' =>
                         Action[j] \in PowerNeutral,
                       FoundDone(k)'
                PROVE  bmc' = [power |-> Action[k], heading |-> Action[k]]
    BY DEF StaysAsFound, Settling
  <2>1. k \in Index /\ k < i /\ k <= lastRun /\ FoundDone(k)
    BY <1>7 DEF Settling
  <2>2. Action[i] \in PowerNeutral
    BY <1>1, <1>5, <2>1
  <2>3. bmc' = bmc
    BY <1>1, <2>2 DEF Effects, PowerNeutral
  <2>4. \A j \in Index : k < j /\ j <= lastRun => Action[j] \in PowerNeutral
    BY <1>1, <1>2, <1>5
  <2>. QED
    BY <2>1, <2>2, <2>3, <2>4 DEF AsAsked, StaysAsFound
<1>11. PowerInv => WhyOnItsWay'
  <2>. SUFFICES ASSUME PowerInv, OnItsWay', Action[i] \notin {"on", "off"}
                PROVE  \E k \in Index :
                         /\ k <= i /\ Action[k] \in {"cycle", "reset"}
                         /\ \A m \in Index : k < m /\ m <= i =>
                              Action[m] \notin {"on", "off"}
    BY <1>1 DEF WhyOnItsWay
  <2>1. CASE Action[i] \in {"cycle", "reset"}
    BY <1>5, <2>1
  <2>2. CASE Action[i] \notin {"cycle", "reset"}
    <3>1. bmc' = bmc \/ bmc' = [bmc EXCEPT !.heading = "off"]
      BY <1>1, <1>5, <2>2 DEF Effects, ActionKinds, PowerActions
    <3>2. bmc' = bmc
      BY <1>5, <3>1 DEF OnItsWay, Powers
    <3>3. OnItsWay
      BY <3>2 DEF OnItsWay
    <3>4. Action[lastRun] \notin {"on", "off"}
      <4>. SUFFICES ASSUME Action[lastRun] \in {"on", "off"} PROVE FALSE
        OBVIOUS
      <4>1. lastRun < i
        BY <1>2, <1>5
      <4>2. FoundDone(lastRun) /\ lastRun \in Settling
        BY <1>2, <4>1 DEF FoundDone, Settling
      <4>3. bmc = [power |-> Action[lastRun], heading |-> Action[lastRun]]
        BY <1>2, <1>5, <4>2 DEF PowerInv, AsAsked, StaysAsFound
      <4>. QED
        BY <3>3, <4>3 DEF OnItsWay
    <3>5. PICK k \in Index :
            /\ k <= lastRun /\ Action[k] \in {"cycle", "reset"}
            /\ \A m \in Index : k < m /\ m <= lastRun =>
                 Action[m] \notin {"on", "off"}
      BY <3>3, <3>4 DEF PowerInv, WhyOnItsWay
    <3>6. ASSUME NEW m \in Index, k < m, m <= i
          PROVE  Action[m] \notin {"on", "off"}
      BY <1>2, <1>5, <3>5, <3>6
    <3>7. k <= i
      BY <1>2, <1>5, <3>5
    <3>. QED
      BY <3>5, <3>6, <3>7
  <2>. QED
    BY <2>1, <2>2
<1>12. SoftOffsLast'
  BY <1>1, <1>6 DEF SoftOffsLast
<1>. QED
  BY <1>8, <1>9, <1>10, <1>11, <1>12 DEF PowerKept, PowerInv, AsAsked

\* checkTaskStatus finds an action done only when the machine is there, if the
\* BMC reports no transitional state.
LEMMA CompletesPower ==
  ASSUME Transients = {}, Sound, FreshInv, RunsInTurn, NEW i \in Index,
         TaskCompletes(i)
  PROVE  PowerKept
<1>1. /\ Busy(i) /\ taskRec[i].base.started
      /\ UNCHANGED <<taskVersions, bmc, lastRun, accepted>>
      /\ \E raw \in Reports : ActionDone(Action[i], ToPowerState(raw))
  BY DEF TaskCompletes, Checking, Busy, TaskWillPatch, history
<1>2. /\ taskRec[i].base = TheTasks[i] /\ TheTasks[i].conds = {}
      /\ TheTasks[i].started /\ lastRun = i
  BY <1>1, BusyIsLast
<1>3. /\ TheTasks' = TheTasks /\ Index \subseteq Nat /\ bmc \in Powers
      /\ Action[i] \in ActionKinds
  BY <1>1, ClusterAssumption, ActionAssumption
     DEF TheTasks, Index, Sound, TypeOK, TaskControllerTypeOK, BmcTypeOK
<1>4. /\ \A j \in Index \ {i} : taskRec'[j] = taskRec[j]
      /\ taskRec'[i].new.started = taskRec[i].base.started
      /\ "Failed" \notin taskRec'[i].new.conds
  <2>1. taskRec \in [Index -> TaskRecord] /\ taskRec[i].base \in TaskObject
    BY DEF Sound, TypeOK, TaskControllerTypeOK, TaskRecord
  <2>2. /\ TaskStatusSet(taskRec[i].base, "Completed").conds = {"Completed"}
        /\ TaskStatusSet(taskRec[i].base, "Completed").started
             = taskRec[i].base.started
    BY <1>2, <2>1 DEF TaskStatusSet, TaskObject
  <2>. QED
    BY <2>1, <2>2 DEF TaskCompletes, TaskWillPatch, TaskRecord
<1>5. /\ Action[i] = "on" => bmc.power = "on"
      /\ Action[i] \in {"off", "soft"} => bmc.power = "off"
  <2>1. Reports \subseteq {bmc.power, "unknown"}
    BY DEF Reports
  <2>2. \A raw \in Reports : ToPowerState(raw) \in {"on", "off"} =>
          ToPowerState(raw) = bmc.power
    BY <1>3, <2>1 DEF ToPowerState, Powers
  <2>. QED
    BY <1>1, <2>2 DEF ActionDone
<1>6. HasRun(i)
  BY <1>2 DEF HasRun, Ran
<1>7. \A j \in Index : HasRun(j)' => HasRun(j)
  BY <1>3, <1>4, <1>6 DEF HasRun, Ran, Busy
<1>8. \A j \in Index : FoundDone(j)' => FoundDone(j) \/ j = i
  BY <1>3, <1>4 DEF FoundDone, HasSucceeded, Busy
<1>9. RunsInTurn' /\ (AsAsked => HeadingAsAsked')
  <2>1. lastRun \in Index
    BY <1>2
  <2>. QED
    BY <1>1, <1>3, <1>7, <2>1 DEF AsAsked, RunsInTurn, HeadingAsAsked, HasSucceeded
<1>10. ASSUME AsAsked PROVE StaysAsFound'
  <2>1. i \in Settling => bmc = [power |-> Action[i], heading |-> Action[i]]
    <3>. SUFFICES ASSUME i \in Settling
                  PROVE  bmc = [power |-> Action[i], heading |-> Action[i]]
      OBVIOUS
    <3>1. bmc.power = Action[i]
      BY <1>5 DEF Settling
    <3>2. bmc.heading = Action[i]
      BY <1>2, <1>6, <1>10 DEF AsAsked, HeadingAsAsked, Settling
    <3>. QED
      BY <1>3, <3>1, <3>2 DEF Powers
  <2>. QED
    BY <1>1, <1>8, <1>10, <2>1 DEF AsAsked, StaysAsFound, Settling
<1>11. ASSUME PowerInv PROVE WhyOnItsWay' /\ SoftOffsLast'
  <2>0. WhyOnItsWay'
    BY <1>1, <1>11 DEF PowerInv, WhyOnItsWay, OnItsWay
  <2>. SUFFICES ASSUME SoftOffsApart, Action[i] = "soft"
                PROVE  bmc = [power |-> "off", heading |-> "off"]
    BY <1>1, <1>2, <2>0 DEF SoftOffsLast
  <2>1. ~OnItsWay
    <3>. SUFFICES ASSUME OnItsWay PROVE FALSE
      OBVIOUS
    <3>1. PICK k \in Index :
            /\ k <= i /\ Action[k] \in {"cycle", "reset"}
            /\ \A m \in Index : k < m /\ m <= i =>
                 Action[m] \notin {"on", "off"}
      BY <1>2, <1>11 DEF PowerInv, WhyOnItsWay
    <3>2. k < i
      BY <1>3, <3>1
    <3>3. PICK m \in Index : k < m /\ m < i /\ Action[m] \in {"on", "off"}
      BY <3>1, <3>2 DEF SoftOffsApart
    <3>. QED
      BY <1>3, <3>1, <3>3
  <2>2. bmc.power = "off" /\ bmc.heading = "off"
    BY <1>3, <1>5, <2>1 DEF OnItsWay, Powers
  <2>. QED
    BY <1>3, <2>2 DEF Powers
<1>. QED
  BY <1>9, <1>10, <1>11 DEF PowerKept, PowerInv, AsAsked

\* The other steps of a Task's reconciliation tell nothing new of the machine.
LEMMA TaskStepPower ==
  ASSUME Transients = {}, Sound, FreshInv, RunsInTurn, CachesFresh,
         NEW i \in Index, TaskStep(i)
  PROVE  PowerKept
<1>. USE FreshParts
<1>a. /\ taskRec \in [Index -> TaskRecord] /\ taskRec[i].base \in TaskObject
      /\ TheTasks \in [Index -> TaskObject]
  BY TasksOnServer DEF Sound, TypeOK, TaskControllerTypeOK, TaskRecord
<1>b. ASSUME UNCHANGED <<taskVersions, bmc, lastRun, accepted>>,
             \A j \in Index \ {i} : taskRec'[j] = taskRec[j],
             \/ taskRec'[i].step = "idle"
             \/ taskRec'[i].new = TheTasks[i]
             \/ taskRec'[i].new.conds = {"Failed"}
      PROVE  PowerKept
  <2>1. TheTasks' = TheTasks
    BY <1>b DEF TheTasks
  <2>2. NothingLearnt
    BY <1>b, <2>1 DEF NothingLearnt, HasRun, FoundDone, HasSucceeded, Ran, Busy,
       RunsInTurn
  <2>. QED
    BY <1>b, <2>2, NothingNew
<1>c. ASSUME NEW again, TaskReturns(i, again)
      PROVE  /\ taskRec'[i].step = "idle"
             /\ \A j \in Index \ {i} : taskRec'[j] = taskRec[j]
  BY <1>a, <1>c DEF TaskReturns, IdleTaskRecord
<1>1. CASE TaskIgnored(i)
  <2>1. UNCHANGED <<taskVersions, taskRec, bmc, lastRun, accepted>>
    BY <1>1 DEF TaskIgnored, taskVars, history
  <2>. QED
    BY <1>1, <1>b, <2>1 DEF TaskIgnored
<1>2. CASE TaskStarts(i)
  <2>1. /\ taskRec'[i].new = TheTasks[i]
        /\ \A j \in Index \ {i} : taskRec'[j] = taskRec[j]
        /\ UNCHANGED <<taskVersions, bmc, lastRun, accepted>>
    BY <1>2, <1>a, FreshReads DEF TaskStarts, TaskRecord, history, Sound
  <2>. QED
    BY <1>b, <2>1
<1>3. CASE TaskTimesOut(i) \/ TaskConnectFails(i)
  <2>1. /\ Busy(i) /\ UNCHANGED <<taskVersions, bmc, lastRun, accepted>>
        /\ taskRec'[i].new = TaskStatusSet(taskRec[i].base, "Failed")
        /\ \A j \in Index \ {i} : taskRec'[j] = taskRec[j]
    BY <1>3, <1>a DEF TaskTimesOut, TaskConnectFails, Checking, Busy,
       TaskWillPatch, TaskRecord, history
  <2>2. taskRec'[i].new.conds = {"Failed"}
    BY <1>a, <2>1, TasksOnServer DEF TaskStatusSet, TaskObject
  <2>. QED
    BY <1>b, <2>1, <2>2
<1>4. CASE TaskCompletes(i)
  BY <1>4, CompletesPower
<1>5. CASE TaskRuns(i) \/ TaskRunFails(i)
  BY <1>5, RunPower
<1>6. CASE TaskStillPending(i) \/ TaskSecretFails(i) \/ TaskCheckFails(i)
  <2>1. /\ UNCHANGED <<taskVersions, bmc, lastRun, accepted>>
        /\ \E again : TaskReturns(i, again)
    BY <1>6 DEF TaskStillPending, TaskSecretFails, TaskCheckFails, history
  <2>. QED
    BY <1>b, <1>c, <2>1
<1>7. CASE TaskPatches(i) \/ TaskPatchFails(i)
  <2>1. /\ UNCHANGED <<bmc, lastRun, accepted>> /\ Busy(i)
        /\ UNCHANGED taskVersions \/ TaskPatched(i)
        /\ \E again : TaskReturns(i, again)
    BY <1>7 DEF TaskPatches, TaskPatchFails, history, Busy
  <2>2. CASE UNCHANGED taskVersions
    BY <1>b, <1>c, <2>1, <2>2
  <2>3. CASE TaskPatched(i)
    <3>. DEFINE new == taskRec[i].new
    <3>1. TheTasks' = [TheTasks EXCEPT ![i] =
                         [exists |-> TRUE, started |-> new.started,
                          conds |-> new.conds]]
      BY <2>1, <2>3, TaskPatchedFresh
    <3>2. /\ \A j \in Index : j # i => TheTasks'[j] = TheTasks[j]
          /\ TheTasks'[i].started = new.started
          /\ TheTasks'[i].conds = new.conds
      BY <1>a, <3>1
    <3>3. "Completed" \in new.conds => new.started
      BY <2>1 DEF Sound, IndInv, SequenceInv, StartsKept
    <3>4. NothingLearnt
      BY <1>c, <2>1, <3>2, <3>3 DEF NothingLearnt, HasRun, FoundDone,
         HasSucceeded, Ran, Busy, RunsInTurn
    <3>. QED
      BY <2>1, <3>4, NothingNew
  <2>. QED
    BY <2>1, <2>2, <2>3
<1>. QED
  BY <1>1, <1>2, <1>3, <1>4, <1>5, <1>6, <1>7 DEF TaskStep, TaskWork, TaskFaults

\* The machine settles where it is heading; nothing else outside the program
\* changes its power.
LEMMA EnvironmentPower ==
  ASSUME Sound, RunsInTurn, Environment \/ Restart
  PROVE  PowerKept
<1>a. TheTasks' = TheTasks
  BY ServerUntouched DEF Sound
<1>1. CASE BmcSettles /\ UNCHANGED <<clusterVars, jobRec, taskRec, expired, history>>
  <2>1. /\ bmc \in Powers /\ bmc.power # bmc.heading
        /\ bmc' = [power |-> bmc.heading, heading |-> bmc.heading]
    BY <1>1 DEF BmcSettles, Powers, Sound, TypeOK, TaskControllerTypeOK, BmcTypeOK
  <2>2. UNCHANGED <<taskRec, lastRun, accepted>>
    BY <1>1 DEF history
  <2>3. \A i \in Index : /\ HasRun(i)' <=> HasRun(i)
                         /\ FoundDone(i)' <=> FoundDone(i)
                         /\ HasSucceeded(i)' <=> HasSucceeded(i)
    BY <1>a, <2>2 DEF HasRun, FoundDone, HasSucceeded, Ran, Busy
  <2>4. lastRun \in Index
    BY DEF Sound, TypeOK, TaskControllerTypeOK
  <2>5. RunsInTurn'
    BY <1>a, <2>2, <2>3 DEF RunsInTurn
  <2>6. AsAsked => AsAsked'
    BY <2>1, <2>2, <2>3, <2>4 DEF AsAsked, HeadingAsAsked, StaysAsFound, Settling
  <2>7. PowerInv => WhyOnItsWay' /\ SoftOffsLast'
    BY <2>1, <2>2, <2>3, <2>4 DEF PowerInv, WhyOnItsWay, OnItsWay, SoftOffsLast
  <2>. QED
    BY <2>5, <2>6, <2>7 DEF PowerKept, PowerInv
<1>2. CASE /\ UNCHANGED <<bmc, lastRun, accepted>>
           /\ \/ taskRec' = taskRec
              \/ \A i \in Index : taskRec'[i].step = "idle"
  <2>1. NothingLearnt
    BY <1>a, <1>2 DEF NothingLearnt, HasRun, FoundDone, HasSucceeded, Ran, Busy,
       RunsInTurn
  <2>. QED
    BY <1>2, <2>1, NothingNew
<1>3. CASE Restart
  BY <1>2, <1>3 DEF Restart, history, IdleTaskRecord
<1>. QED
  BY <1>1, <1>2, <1>3 DEF Environment, ClusterStep, Deliveries, DeliverJob,
     DeliverTask, ResyncJob, ResyncTask, Expires, taskVars, history

\* Every step with fresh caches keeps what is true of the power, and an action
\* on the power makes it true of the Job that sent it.
LEMMA PowerStep ==
  ASSUME Transients = {}, Sound, FreshInv, RunsInTurn, [FreshNext]_vars
  PROVE  /\ PowerKept
         /\ \A i \in Index :
              Action[i] \notin PowerNeutral /\ (TaskRuns(i) \/ TaskRunFails(i))
                => AsAsked'
<1>1. ASSUME UNCHANGED vars PROVE PowerKept
  <2>1. TheTasks' = TheTasks /\ UNCHANGED <<taskRec, bmc, lastRun, accepted>>
    BY <1>1 DEF vars, clusterVars, taskVars, history, TheTasks
  <2>2. NothingLearnt
    BY <2>1 DEF NothingLearnt, HasRun, FoundDone, HasSucceeded, Ran, Busy,
       RunsInTurn
  <2>. QED
    BY <2>1, <2>2, NothingNew
<1>2. FreshNext => Environment \/
                   (CachesFresh /\ (JobStep \/ (\E i \in Index : TaskStep(i))
                                      \/ Environment \/ Restart))
  BY DEF FreshNext, Next, Environment, ClusterStep
<1>3. PowerKept
  BY <1>1, <1>2, JobStepPower, TaskStepPower, EnvironmentPower
<1>. QED
  BY <1>3, RunPower

\* At the start nothing has been asked of the machine.
LEMMA PowerInit == Init => PowerInv
<1>. SUFFICES ASSUME Init PROVE PowerInv
  OBVIOUS
<1>1. TheTasks = [i \in Index |-> NoTask]
  BY DEF Init, ClusterInit, TheTasks, Latest
<1>2. /\ lastRun = 0 /\ 0 \in Index /\ accepted = {}
      /\ bmc \in Powers /\ bmc.power = bmc.heading
      /\ \A i \in Index : /\ taskRec[i].step = "idle"
                          /\ ~TheTasks[i].started /\ TheTasks[i].conds = {}
  BY <1>1, ClusterAssumption
     DEF Init, TaskControllerInit, BmcInit, Index, IdleTaskRecord, NoTask
<1>. QED
  BY <1>2 DEF PowerInv, AsAsked, RunsInTurn, HeadingAsAsked, StaysAsFound,
     WhyOnItsWay, SoftOffsLast, OnItsWay, HasRun, FoundDone, HasSucceeded, Ran,
     Busy, Settling

\* PowerInv is an invariant of the system with fresh caches and a BMC that
\* reports no transitional state.
THEOREM PowerInvariant ==
  ASSUME Transients = {}
  PROVE  FreshSpec => []PowerInv
<1>1. Sound /\ FreshInv /\ PowerInv /\ [FreshNext]_vars => PowerInv'
  BY PowerStep DEF PowerKept, PowerInv
<1>. QED
  BY <1>1, PowerInit, FreshSound, FreshInvariant, PTL DEF FreshSpec

\* What a Completed Job has learnt of its last "on" or "off".
LEMMA SettledAsAsked ==
  ASSUME Sound, FreshInv, RunsInTurn, AsAsked
  PROVE  PowerAsAsked
<1>. SUFFICES ASSUME "Completed" \in TheJob.conds, NEW i \in Settling,
                     \A j \in Index : j > i =>
                       Action[j] \in {"boot", "media", "status"}
              PROVE  bmc = [power |-> Action[i], heading |-> Action[i]]
  BY DEF PowerAsAsked
<1>1. HasSucceeded(i) /\ i \in Index
  BY DEF FreshInv, CompletionEarned, Settling
<1>2. i \in accepted
  BY <1>1 DEF Sound, IndInv, AcceptedInv, CompletedMeansAccepted
<1>3. i <= lastRun
  BY <1>2 DEF RunsInTurn
<1>4. Index \subseteq Nat
  BY ClusterAssumption DEF Index
<1>. QED
  BY <1>1, <1>3, <1>4 DEF AsAsked, StaysAsFound, FoundDone, PowerNeutral

\* A Completed Job leaves the machine in the power state its last "on" or
\* "off" asked for, if nothing but boot devices, media and status come after
\* it: for every list of actions, whatever fails on the way.
THEOREM CompletedJobsSettle ==
  ASSUME Transients = {}
  PROVE  FreshSpec => []PowerAsAsked
<1>1. Sound /\ FreshInv /\ PowerInv => PowerAsAsked
  BY SettledAsAsked DEF PowerInv
<1>. QED
  BY <1>1, FreshSound, FreshInvariant, PowerInvariant, PTL

\* No action overtakes a change of power, provided that no soft power off is
\* asked for while a cycle or a reset may be under way: checkTaskStatus does
\* not wait for these, and takes the machine they have turned off for the
\* result of the soft power off.
THEOREM ActionsWait ==
  ASSUME Transients = {}, SoftOffsApart
  PROVE  FreshSpec => ActionsWaitForPower
<1>. DEFINE Waits == lastRun' # lastRun =>
              /\ Action[lastRun] = "on" => bmc.power = "on"
              /\ Action[lastRun] \in {"off", "soft"} => bmc.power = "off"
<1>1. Sound /\ FreshInv /\ PowerInv /\ [FreshNext]_vars => [Waits]_vars
  <2>. SUFFICES ASSUME Sound, FreshInv, PowerInv, [FreshNext]_vars,
                       lastRun' # lastRun
                PROVE  /\ Action[lastRun] = "on" => bmc.power = "on"
                       /\ Action[lastRun] \in {"off", "soft"} => bmc.power = "off"
    OBVIOUS
  <2>1. \E i \in Index : TaskRuns(i) \/ TaskRunFails(i)
    BY DEF FreshNext, Next, Environment, ClusterStep, Deliveries, DeliverJob,
       DeliverTask, JobStep, TaskStep, TaskWork, TaskFaults, TaskIgnored,
       TaskStarts, TaskTimesOut, TaskStillPending, TaskCompletes, TaskPatches,
       TaskSecretFails, TaskConnectFails, TaskCheckFails, TaskPatchFails,
       Expires, Restart, taskVars, history, vars
  <2>2. PICK i \in Index : TaskRuns(i) \/ TaskRunFails(i)
    BY <2>1
  <2>3. Busy(i) /\ lastRun' = i /\ RunsInTurn
    BY <2>2 DEF TaskRuns, TaskRunFails, NewRun, Busy, Sent, PowerInv
  <2>4. /\ lastRun \in Index /\ lastRun <= i /\ Index \subseteq Nat
        /\ \A j \in Index : j < i => HasSucceeded(j)
    BY <2>3, BusyIsLast, ClusterAssumption DEF Index
  <2>5. FoundDone(lastRun)
    <3>1. lastRun < i
      BY <2>3, <2>4
    <3>. QED
      BY <2>4, <3>1 DEF FoundDone
  <2>6. Action[lastRun] \in {"on", "off"} => bmc.power = Action[lastRun]
    BY <2>4, <2>5 DEF PowerInv, AsAsked, StaysAsFound, Settling
  <2>7. Action[lastRun] = "soft" => bmc.power = "off"
    BY <2>5 DEF PowerInv, SoftOffsLast
  <2>. QED
    BY <2>6, <2>7
<1>. QED
  BY <1>1, FreshSound, FreshInvariant, PowerInvariant, PTL
     DEF FreshSpec, ActionsWaitForPower

(***************************************************************************)
(* A machine that others use as well.                                      *)
(***************************************************************************)

\* All that a Job has to itself.
ownVars == <<clusterVars, jobRec, taskRec, expired, history>>

\* What others do to the machine is nothing to the books of the Job, and only
\* their actions on the power undo what it asked for.
LEMMA OthersAct ==
  ASSUME UNCHANGED ownVars, BmcTypeOK'
  PROVE  /\ Sound => Sound'
         /\ FreshInv => FreshInv'
         /\ RunsInTurn => RunsInTurn'
         /\ UNCHANGED <<TheJob, TheTasks>>
         /\ TypeOK /\ (bmc' = bmc \/ BmcSettles) /\ AsAsked => AsAsked'
<1>. USE DEF ownVars, clusterVars, history
<1>1. UNCHANGED <<TheJob, TheTasks, TaskSnapshots>>
  BY DEF TheJob, TheTasks, TaskSnapshots
<1>2. TypeOK => TypeOK'
  BY DEF TypeOK, ClusterTypeOK, JobControllerTypeOK, TaskControllerTypeOK
<1>3. OrderInv => OrderInv'
  BY <1>1 DEF OrderInv, SnapshotsOrdered, NothingForgotten, TaskRecordsSound,
     CreatesInTurn, OneAtATime, Busy
<1>4. AcceptedInv => AcceptedInv'
  BY <1>1 DEF AcceptedInv, Vouched, CompletedMeansAccepted, Busy
<1>5. SequenceInv => SequenceInv'
  BY <1>1 DEF SequenceInv, StartsKept, CompletedAreDone, EarlierAreDone,
     LastRunExists, Done, Busy
<1>6. VerdictInv => VerdictInv'
  BY <1>1 DEF VerdictInv, OneVerdict
<1>7. FreshInv => FreshInv'
  BY <1>1 DEF FreshInv, RecordsCurrent, CreatesNext, CompletionEarned,
     FailuresCaused, RunsRemembered, Busy, HasSucceeded, Cause
<1>8. RunsInTurn => RunsInTurn'
  BY <1>1 DEF RunsInTurn, HasSucceeded
<1>9. TypeOK /\ (bmc' = bmc \/ BmcSettles) /\ AsAsked => AsAsked'
  <2>. SUFFICES ASSUME TypeOK, bmc' = bmc \/ BmcSettles, AsAsked
                PROVE  AsAsked'
    OBVIOUS
  <2>1. /\ bmc' \in {bmc, [power |-> bmc.heading, heading |-> bmc.heading]}
        /\ bmc'.heading = bmc.heading
    BY DEF BmcSettles, TypeOK, TaskControllerTypeOK, BmcTypeOK, Powers
  <2>2. \A i \in Index : /\ HasRun(i)' <=> HasRun(i)
                         /\ FoundDone(i)' <=> FoundDone(i)
    BY <1>1 DEF HasRun, FoundDone, HasSucceeded, Ran, Busy
  <2>3. lastRun \in Index
    BY DEF TypeOK, TaskControllerTypeOK
  <2>. QED
    BY <2>1, <2>2, <2>3 DEF AsAsked, HeadingAsAsked, StaysAsFound, Settling
<1>. QED
  BY <1>1, <1>2, <1>3, <1>4, <1>5, <1>6, <1>7, <1>8, <1>9 DEF Sound, IndInv

\* Only an action on the power changes where the machine is heading.
LEMMA WhoMovesTheMachine ==
  ASSUME FreshNext
  PROVE  \/ bmc' = bmc \/ BmcSettles
         \/ \E i \in Index : /\ Action[i] \notin PowerNeutral
                             /\ TaskRuns(i) \/ TaskRunFails(i)
<1>1. ASSUME NEW i \in Index, TaskRuns(i) \/ TaskRunFails(i),
             Action[i] \in PowerNeutral
      PROVE  bmc' = bmc
  BY <1>1 DEF TaskRuns, TaskRunFails, Effects, PowerNeutral
<1>2. ASSUME NEW i \in Index, TaskStep(i), ~(TaskRuns(i) \/ TaskRunFails(i))
      PROVE  bmc' = bmc
  BY <1>2 DEF TaskStep, TaskWork, TaskFaults, TaskIgnored, TaskStarts,
     TaskTimesOut, TaskStillPending, TaskCompletes, TaskPatches,
     TaskSecretFails, TaskConnectFails, TaskCheckFails, TaskPatchFails, taskVars
<1>3. CASE Environment \/ Restart \/ JobStep
  BY <1>3 DEF Environment, Restart, JobStep, Expires, taskVars
<1>4. CASE Deliveries /\ UNCHANGED <<jobRec, taskVars>>
  BY <1>4 DEF taskVars
<1>. QED
  BY <1>1, <1>2, <1>3, <1>4 DEF FreshNext, Next
=============================================================================
