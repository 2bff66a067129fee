---------------------------- MODULE JobLifecycle ----------------------------
(***************************************************************************)
(* A Job that is deleted, created again under the same name and edited     *)
(* while the controllers work on it.  Owned Tasks are found by the name of *)
(* their owner (TaskOwnerIndexFunc), a Task is created and every status is *)
(* patched by name, and only the garbage collector looks at UIDs: what a   *)
(* reconciliation read of one Job may be written to the next.  Calls that  *)
(* fail for other reasons, restarts and the BMC are in module Rufio.       *)
(***************************************************************************)
EXTENDS KubeStore, FiniteSets

CONSTANTS
  NumTasks,   \* bound: the longest list of Tasks a Job may have
  MaxUid,     \* bound: how many Jobs patient users create under the name
  MaxHasty,   \* bound: how many other users create
  MaxLag      \* bound: undelivered watch events of a kind

ASSUME LifecycleAssumption ==
  /\ NumTasks \in Nat \ {0} /\ MaxUid \in Nat \ {0} /\ MaxLag \in Nat \ {0}
  /\ MaxHasty \in 0..MaxUid

Index == 0..(NumTasks - 1)

\* The Job of that name (uid 0: there is none), len(Spec.Tasks), its
\* DeletionTimestamp and its status.
JobObject == [uid : 0..MaxUid, len : 1..NumTasks, deleting : BOOLEAN,
              conds : SUBSET {"Running", "Completed", "Failed"},
              finished : BOOLEAN]

\* A Task, the UID in its controller reference (0: none) and its status.
TaskObject == [exists : BOOLEAN, owner : 0..MaxUid, started : BOOLEAN,
               conds : SUBSET {"Completed", "Failed"}]

NoJob  == [uid |-> 0, len |-> 1, deleting |-> FALSE, conds |-> {},
           finished |-> FALSE]
NoTask == [exists |-> FALSE, owner |-> 0, started |-> FALSE, conds |-> {}]

\* Mutant of OwnedTask: a Task without OwnerReferences.
OrphanTask(uid) == [NoTask EXCEPT !.exists = TRUE]

OwnedTask(uid) == [NoTask EXCEPT !.exists = TRUE, !.owner = uid]

Terminal(object) == object.conds \cap {"Completed", "Failed"} # {}

VARIABLES
  patient,   \* users wait until nothing is left of a Job before they create the
             \* next, and edit none
  jobs,      \* the window of the Job
  tasks,     \* the window of the Tasks, functions from Index
  jobQueued, \* the Job's name is in the Job controller's queue
  jobRec,    \* the Job controller's reconciliation in progress
  taskRec,   \* the Task controller's, of each Task
  born,      \* the last UID given to a Job
  ran        \* <<uid, i>>: action i of that Job was sent (history)

lifeVars == <<patient, jobs, tasks, jobQueued, jobRec, taskRec, born, ran>>

TheJob   == Latest(jobs)
TheTasks == Latest(tasks)

IdleJobRec  == [step |-> "idle", base |-> NoJob, new |-> NoJob, index |-> 0]
IdleTaskRec == [step |-> "idle", base |-> NoTask]

\* One name, one Job: what the Job and Task controllers hold has its type, also
\* when it comes from Jobs that are gone.
LifeTypeOK ==
  /\ patient \in BOOLEAN
  /\ jobs \in Seq(JobObject) /\ Len(jobs) >= 1
  /\ tasks \in Seq([Index -> TaskObject]) /\ Len(tasks) >= 1
  /\ jobQueued \in BOOLEAN
  /\ jobRec \in [step : {"idle", "list", "create", "patch"},
                 base : JobObject, new : JobObject, index : Index]
  /\ taskRec \in [Index -> [step : {"idle", "got"}, base : TaskObject]]
  /\ born \in 0..MaxUid
  /\ ran \subseteq (1..MaxUid) \X Index

LifeInit ==
  /\ patient \in BOOLEAN
  /\ jobs = <<NoJob>>
  /\ tasks = <<[i \in Index |-> NoTask]>>
  /\ jobQueued = FALSE
  /\ jobRec = IdleJobRec
  /\ taskRec = [i \in Index |-> IdleTaskRec]
  /\ born = 0 /\ ran = {}

PutJob(job) == /\ Lag(jobs) < MaxLag
               /\ jobs' = Put(jobs, job)

PutTask(i, task) == /\ Lag(tasks) < MaxLag
                    /\ tasks' = Put(tasks, [TheTasks EXCEPT ![i] = task])

(***************************************************************************)
(* Users and the garbage collector.                                        *)
(***************************************************************************)
NothingLeft ==
  /\ Lag(jobs) = 0 /\ Lag(tasks) = 0
  /\ jobRec.step = "idle"
  /\ \A i \in Index : ~TheTasks[i].exists /\ taskRec[i].step = "idle"

CreateJob ==
  /\ TheJob.uid = 0 /\ born < (IF patient THEN MaxUid ELSE MaxHasty)
  /\ patient => NothingLeft
  /\ born' = born + 1
  /\ \E n \in 1..NumTasks : PutJob([NoJob EXCEPT !.uid = born + 1, !.len = n])
  /\ UNCHANGED <<patient, tasks, jobQueued, jobRec, taskRec, ran>>

\* In the background, or in the foreground: then the Job stays until the
\* garbage collector has seen to its Tasks.
DeleteJob ==
  /\ TheJob.uid # 0 /\ ~TheJob.deleting
  /\ PutJob(NoJob) \/ PutJob([TheJob EXCEPT !.deleting = TRUE])
  /\ UNCHANGED <<patient, tasks, jobQueued, jobRec, taskRec, born, ran>>

\* Nothing makes the list of Tasks immutable.  (Of a terminal Job nobody reads
\* it any more.)
EditSpec ==
  /\ TheJob.uid # 0 /\ ~Terminal(TheJob) /\ ~patient
  /\ \E n \in 1..NumTasks : PutJob([TheJob EXCEPT !.len = n])
  /\ UNCHANGED <<patient, tasks, jobQueued, jobRec, taskRec, born, ran>>

\* The owner's UID is no longer that of the Job by that name, or is being
\* deleted.
Collectable(i) ==
  /\ TheTasks[i].exists /\ TheTasks[i].owner # 0
  /\ TheTasks[i].owner # TheJob.uid \/ TheJob.deleting

CollectTask(i) ==
  /\ Collectable(i)
  /\ PutTask(i, NoTask)
  /\ UNCHANGED <<patient, jobs, jobQueued, jobRec, taskRec, born, ran>>

\* No Task blocks its owner's deletion (BlockOwnerDeletion is not set).
RemoveJob ==
  /\ TheJob.deleting
  /\ PutJob(NoJob)
  /\ UNCHANGED <<patient, tasks, jobQueued, jobRec, taskRec, born, ran>>

(***************************************************************************)
(* Watch events.                                                           *)
(***************************************************************************)
DeliverJob ==
  /\ Lag(jobs) > 0
  /\ jobs' = Tail(jobs) /\ jobQueued' = TRUE
  /\ UNCHANGED <<patient, tasks, jobRec, taskRec, born, ran>>

\* The owner's name is that of the Job, whatever its UID.
DeliverTask ==
  /\ Lag(tasks) > 0
  /\ tasks' = Tail(tasks) /\ jobQueued' = TRUE
  /\ UNCHANGED <<patient, jobs, jobRec, taskRec, born, ran>>

(***************************************************************************)
(* JobReconciler.  Its steps are those of module JobController.            *)
(***************************************************************************)
JobBack(withError) ==
  /\ jobRec' = IdleJobRec
  /\ jobQueued' = (jobQueued \/ withError)

JobWillPatch(condition) ==
  jobRec' = [jobRec EXCEPT
    !.step = "patch",
    !.index = 0,
    !.new.conds = @ \cup condition,
    !.new.finished = @ \/ condition = {"Completed"}]

\* Not found, being deleted, or terminal.
JobIgnored ==
  LET job == Cached(jobs) IN
  /\ jobRec.step = "idle" /\ jobQueued
  /\ job.uid = 0 \/ job.deleting \/ Terminal(job)
  /\ jobQueued' = FALSE
  /\ UNCHANGED <<patient, jobs, tasks, jobRec, taskRec, born, ran>>

JobStarts ==
  LET job == Cached(jobs) IN
  /\ jobRec.step = "idle" /\ jobQueued
  /\ job.uid # 0 /\ ~job.deleting /\ ~Terminal(job)
  /\ jobQueued' = FALSE
  /\ jobRec' = [step |-> "list", base |-> job, index |-> 0,
                new |-> [job EXCEPT !.conds = @ \cup {"Running"}]]
  /\ UNCHANGED <<patient, jobs, tasks, taskRec, born, ran>>

\* client.MatchingFields{jobOwnerKey: job.Name}.
Listed ==
  {i \in Index : Cached(tasks)[i].exists /\ Cached(tasks)[i].owner # 0}

Has(i, condition) == condition \in Cached(tasks)[i].conds

CompletedTasksCount == Cardinality({i \in Listed : Has(i, "Completed")})

AllCompleted == \A i \in Listed : Has(i, "Completed")

\* Mutant of AllDone: off by one.
MoreThanDone == CompletedTasksCount > jobRec.base.len

AllDone == CompletedTasksCount = jobRec.base.len

JobWaits ==
  /\ jobRec.step = "list"
  /\ \E i \in Listed : ~Terminal(Cached(tasks)[i])
  /\ JobBack(FALSE)
  /\ UNCHANGED <<patient, jobs, tasks, taskRec, born, ran>>

JobSeesFailure ==
  /\ jobRec.step = "list"
  /\ \E i \in Listed : Has(i, "Failed") /\ ~Has(i, "Completed")
  /\ JobWillPatch({"Failed"})
  /\ UNCHANGED <<patient, jobs, tasks, jobQueued, taskRec, born, ran>>

\* Mutant of JobCompletes: it is enough that nothing is left to do.
JobCompletesAnyway ==
  /\ jobRec.step = "list"
  /\ AllCompleted /\ CompletedTasksCount > 0
  /\ JobWillPatch({"Completed"})
  /\ UNCHANGED <<patient, jobs, tasks, jobQueued, taskRec, born, ran>>

JobCompletes ==
  /\ jobRec.step = "list"
  /\ AllCompleted /\ AllDone
  /\ JobWillPatch({"Completed"})
  /\ UNCHANGED <<patient, jobs, tasks, jobQueued, taskRec, born, ran>>

\* Mutant of JobPicksNext: it goes on although all Tasks have completed.
JobPicksAnyway ==
  /\ jobRec.step = "list"
  /\ AllCompleted
  /\ jobRec' = [jobRec EXCEPT !.step = "create", !.index = CompletedTasksCount]
  /\ UNCHANGED <<patient, jobs, tasks, jobQueued, taskRec, born, ran>>

JobPicksNext ==
  /\ jobRec.step = "list"
  /\ AllCompleted /\ ~AllDone
  /\ CompletedTasksCount < jobRec.base.len
  /\ jobRec' = [jobRec EXCEPT !.step = "create", !.index = CompletedTasksCount]
  /\ UNCHANGED <<patient, jobs, tasks, jobQueued, taskRec, born, ran>>

\* job.Spec.Tasks[taskIndex] is out of range: the panic is recovered and
\* counts as an error.
OutOfRange ==
  /\ jobRec.step = "list"
  /\ AllCompleted /\ ~AllDone
  /\ CompletedTasksCount >= jobRec.base.len

JobPanics ==
  /\ OutOfRange
  /\ JobBack(TRUE)
  /\ UNCHANGED <<patient, jobs, tasks, taskRec, born, ran>>

JobCreatesTask ==
  /\ jobRec.step = "create"
  /\ ~TheTasks[jobRec.index].exists
  /\ PutTask(jobRec.index, OwnedTask(jobRec.base.uid))
  /\ JobWillPatch({})
  /\ UNCHANGED <<patient, jobs, jobQueued, taskRec, born, ran>>

\* A Task by that name exists, whosever it is.
JobCreateConflicts ==
  /\ jobRec.step = "create"
  /\ TheTasks[jobRec.index].exists
  /\ JobWillPatch({"Failed"})
  /\ UNCHANGED <<patient, jobs, tasks, jobQueued, taskRec, born, ran>>

\* The Job by that name is patched, whichever was read.  The error that goes
\* with Failed requeues a Job that the next reconciliation ignores.
JobPatches ==
  LET base == jobRec.base
      new  == jobRec.new IN
  /\ jobRec.step = "patch" /\ TheJob.uid # 0
  /\ PutJob([TheJob EXCEPT
       !.conds    = Merge(base.conds, new.conds, @),
       !.finished = Merge(base.finished, new.finished, @)])
  /\ JobBack("Failed" \in new.conds)
  /\ UNCHANGED <<patient, tasks, taskRec, born, ran>>

JobPatchFindsNone ==
  /\ jobRec.step = "patch" /\ TheJob.uid = 0
  /\ JobBack(TRUE)
  /\ UNCHANGED <<patient, jobs, tasks, taskRec, born, ran>>

JobWork ==
  \/ JobIgnored \/ JobStarts
  \/ JobWaits \/ JobSeesFailure \/ JobCompletes \/ JobPicksNext \/ JobPanics
  \/ JobCreatesTask \/ JobCreateConflicts
  \/ JobPatches \/ JobPatchFindsNone

(***************************************************************************)
(* TaskReconciler: reads a Task, talks to the BMC, patches the Task by     *)
(* that name.  When it is woken is left open.                              *)
(***************************************************************************)
TaskReads(i) ==
  LET task == Cached(tasks)[i] IN
  /\ taskRec[i].step = "idle"
  /\ task.exists /\ ~Terminal(task)
  /\ taskRec' = [taskRec EXCEPT ![i] = [step |-> "got", base |-> task]]
  /\ UNCHANGED <<patient, jobs, tasks, jobQueued, jobRec, born, ran>>

TaskPatches(i, started, conds) ==
  LET base == taskRec[i].base IN
  /\ \/ /\ TheTasks[i].exists
        /\ PutTask(i, [TheTasks[i] EXCEPT
             !.started = Merge(base.started, started, @),
             !.conds   = Merge(base.conds, conds, @)])
     \/ ~TheTasks[i].exists /\ UNCHANGED tasks
  /\ taskRec' = [taskRec EXCEPT ![i] = IdleTaskRec]
  /\ UNCHANGED <<patient, jobs, jobQueued, jobRec, born>>

\* A new run: the action is sent and accepted, and the StartTime patched.
TaskRuns(i) ==
  /\ taskRec[i].step = "got" /\ ~taskRec[i].base.started
  /\ ran' = ran \cup {<<taskRec[i].base.owner, i>>}
  /\ TaskPatches(i, TRUE, {})

\* The action is found done.
TaskCompletes(i) ==
  /\ taskRec[i].step = "got" /\ taskRec[i].base.started
  /\ TaskPatches(i, TRUE, {"Completed"})
  /\ UNCHANGED ran

\* The BMC cannot be reached, the action fails or takes too long.
TaskFails(i) ==
  /\ taskRec[i].step = "got"
  /\ TaskPatches(i, taskRec[i].base.started, {"Failed"})
  /\ UNCHANGED ran

TaskWork(i) == TaskReads(i) \/ TaskRuns(i) \/ TaskCompletes(i) \/ TaskFails(i)

Users     == CreateJob \/ DeleteJob \/ EditSpec
Collector == RemoveJob \/ \E i \in Index : CollectTask(i)

LifeNext ==
  \/ Users \/ Collector
  \/ DeliverJob \/ DeliverTask
  \/ JobWork
  \/ \E i \in Index : TaskWork(i)

LifeSpec == LifeInit /\ [][LifeNext]_lifeVars

\* Watches deliver, the collector collects, the Job controller works.
LifeFairSpec ==
  /\ LifeSpec
  /\ WF_lifeVars(DeliverJob) /\ WF_lifeVars(DeliverTask)
  /\ WF_lifeVars(RemoveJob)
  /\ \A i \in Index : WF_lifeVars(CollectTask(i))
  /\ WF_lifeVars(JobWork)

(***************************************************************************)
(* Properties.                                                             *)
(***************************************************************************)

\* "Condition Completed is set only if all the tasks were successful"
\* (api/v1alpha1/job.go:55): the Job marked Completed, by doReconcile or by a
\* patch meant for another Job, has had every one of its own Tasks run.
CompletedRanItsOwn ==
  "Completed" \in TheJob.conds =>
    \A i \in 0..(TheJob.len - 1) : <<TheJob.uid, i>> \in ran

\* With users who wait, a Job that doReconcile marks Completed has had every one
\* of its own Tasks run: a Job by the same name that is gone, whose Tasks the
\* index finds and whose patches fit, does not count for it.
PatienceSuffices == patient => CompletedRanItsOwn

\* createTaskWithOwner is never asked for a Task beyond Spec.Tasks, which would
\* panic: doReconcile counts no Task that is not the Job's own.
NeverOutOfRange == patient => ~OutOfRange

\* A Job that stays is failed only for a Task of its own: with users who wait,
\* patches, lists and names carry no failure from one Job to the next.
FailsForItsOwn ==
  patient /\ "Failed" \in TheJob.conds /\ ~TheJob.deleting =>
    \E i \in Index : TheTasks[i].exists /\ TheTasks[i].owner = TheJob.uid

\* A Job deleted for good leaves no Task behind, although a reconciliation
\* that still holds it may create one after its deletion: createTaskWithOwner
\* names the owner for the garbage collector.
LeavesNothing ==
  <>[](TheJob.uid = 0) => <>[](\A i \in Index : ~TheTasks[i].exists)


(***************************************************************************)
(* The inductive invariant.                                                *)
(***************************************************************************)

\* Whatever a controller holds belongs to some Job: a Task without an owner is
\* never created.
OwnersNamed ==
  /\ jobRec.step # "idle" => jobRec.base.uid # 0
  /\ \A p \in DOMAIN tasks : \A i \in Index :
       tasks[p][i].exists => tasks[p][i].owner # 0
  /\ \A i \in Index : taskRec[i].step = "got" => taskRec[i].base.owner # 0

\* Every version of the Job, and the copy doReconcile works on, is of the last
\* Job created, which has n Tasks.
OneJob(n) ==
  /\ \A p \in DOMAIN jobs :
       IF jobs[p].uid = 0 THEN jobs[p] = NoJob
                          ELSE jobs[p].uid = born /\ jobs[p].len = n
  /\ jobRec.step # "idle" => jobRec.base.uid = born /\ jobRec.base.len = n
  /\ jobRec.step = "create" => jobRec.index < n

\* What a Task's status says of action i was done for that Job.
ForTheJob(task, n, i) ==
  /\ task.owner = born /\ i < n
  /\ task.started \/ "Completed" \in task.conds => <<born, i>> \in ran

\* Every version of a Task is of that Job and tells the truth.
ItsTasks(n) ==
  \A i \in Index :
    /\ \A p \in DOMAIN tasks : tasks[p][i].exists => ForTheJob(tasks[p][i], n, i)
    /\ taskRec[i].step = "got" => ForTheJob(taskRec[i].base, n, i)

AllRan(n) == \A i \in 0..(n - 1) : <<born, i>> \in ran

\* Completed, written or about to be, is earned.
CompletedEarned(n) ==
  /\ \A p \in DOMAIN jobs : "Completed" \in jobs[p].conds => AllRan(n)
  /\ jobRec.step # "idle" /\ "Completed" \in jobRec.new.conds => AllRan(n)

\* While the Job stays no Task goes, and Failed, written or about to be, has a
\* Task to show for it.
TasksKept ==
  TheJob.uid # 0 /\ ~TheJob.deleting =>
    /\ \A p \in DOMAIN tasks : \A i \in Index :
         tasks[p][i].exists => TheTasks[i].exists
    /\ \/ "Failed" \in TheJob.conds
       \/ jobRec.step # "idle" /\ "Failed" \in jobRec.new.conds
       => \E i \in Index : TheTasks[i].exists

\* Patience leaves one Job in sight at a time, although the index, the patches
\* and the Tasks' names would mix up two.
LifeInv ==
  /\ LifeTypeOK /\ OwnersNamed
  /\ patient => /\ TasksKept
                /\ \E n \in 1..NumTasks :
                     OneJob(n) /\ ItsTasks(n) /\ CompletedEarned(n)
=============================================================================
