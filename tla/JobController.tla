--------------------------- MODULE JobController ---------------------------
(***************************************************************************)
(* JobReconciler (controller/job.go).  A reconciliation is split where     *)
(* another process can act in between: the read of the Job, the reads of   *)
(* the Machine and of the Tasks, the creation of a Task, and the patch of  *)
(* the Job's status.  The work queue never runs two reconciliations of one *)
(* key at a time, so one record holds the one in progress.                 *)
(***************************************************************************)
EXTENDS Cluster, FiniteSets

VARIABLE jobRec
  \* step  : the next call of the reconciliation; "idle" when there is none
  \* base  : the Job as read, what client.MergeFrom compares with
  \* new   : the Job as the reconciler has changed it in memory
  \* index : the Task that "create" will create
  \* fails : the reconciliation returns an error after its patch

JobRecord == [step : {"idle", "list", "create", "patch"},
              base : JobObject, new : JobObject,
              index : Index, fails : BOOLEAN]

IdleJobRecord == [step |-> "idle", base |-> NewJob, new |-> NewJob,
                  index |-> 0, fails |-> FALSE]

JobControllerTypeOK == jobRec \in JobRecord
JobControllerInit   == jobRec = IdleJobRecord

JobStatusSet(job, condition) ==
  [job EXCEPT !.conds = @ \cup {condition}]

\* The reconciliation returns; an error puts the key back into the queue.
JobReturns(withError) ==
  /\ jobRec' = IdleJobRecord
  /\ jobQueued' = (jobQueued \/ withError)

\* The reconciliation goes on to the patch of the status.
JobWillPatch(new, withError) ==
  jobRec' = [jobRec EXCEPT !.step = "patch", !.new = new, !.index = 0,
                           !.fails = withError]

(***************************************************************************)
(* Reconcile: get the Job, do nothing when it is terminal, otherwise mark  *)
(* it Running, in memory only.                                             *)
(***************************************************************************)
JobIgnored ==
  /\ jobRec.step = "idle" /\ jobQueued
  /\ Terminal(Cached(jobVersions))
  /\ jobQueued' = FALSE
  /\ UNCHANGED <<jobVersions, taskVersions, taskQueued, faults, jobRec>>

\* Mutant of JobStarts: a terminal Job is reconciled again.
JobStartsAlways ==
  /\ jobRec.step = "idle" /\ jobQueued
  /\ jobQueued' = FALSE
  /\ jobRec' = [jobRec EXCEPT
       !.step = "list",
       !.base = Cached(jobVersions),
       !.new  = JobStatusSet(Cached(jobVersions), "Running")]
  /\ UNCHANGED <<jobVersions, taskVersions, taskQueued, faults>>

JobStarts ==
  /\ jobRec.step = "idle" /\ jobQueued
  /\ ~Terminal(Cached(jobVersions))
  /\ jobQueued' = FALSE
  /\ jobRec' = [jobRec EXCEPT
       !.step = "list",
       !.base = Cached(jobVersions),
       !.new  = JobStatusSet(Cached(jobVersions), "Running")]
  /\ UNCHANGED <<jobVersions, taskVersions, taskQueued, faults>>

\* getMachine or the List of the owned Tasks fails: nothing is patched.
JobLookupFails ==
  /\ jobRec.step = "list"
  /\ Fault
  /\ JobReturns(TRUE)
  /\ UNCHANGED <<jobVersions, taskVersions, taskQueued>>

(***************************************************************************)
(* The loop over the owned Tasks.  The list has no order, so whichever of  *)
(* the unfinished Tasks comes first decides.                               *)
(***************************************************************************)
\* Mutants of Listed (the index misses the owned Tasks) and of HasCompleted
\* (a StartTime, or a failure, counts as completion).
NothingListed    == {}
HasStarted(i)    == Cached(taskVersions)[i].started
HasEnded(i)      == Terminal(Cached(taskVersions)[i])

Listed       == {i \in Index : Cached(taskVersions)[i].exists}
HasCompleted(i) == "Completed" \in Cached(taskVersions)[i].conds
HasFailed(i) == ~HasCompleted(i) /\ "Failed" \in Cached(taskVersions)[i].conds
Outstanding(i) == ~HasCompleted(i) /\ ~HasFailed(i)
CompletedTasksCount == Cardinality({i \in Listed : HasCompleted(i)})

\* A Task is outstanding: return without a patch.
JobWaits ==
  /\ jobRec.step = "list"
  /\ \E i \in Listed : Outstanding(i)
  /\ JobReturns(FALSE)
  /\ UNCHANGED <<jobVersions, taskVersions, taskQueued, faults>>

JobSeesFailure ==
  /\ jobRec.step = "list"
  /\ \E i \in Listed : HasFailed(i)
  /\ JobWillPatch(JobStatusSet(jobRec.new, "Failed"), TRUE)
  /\ UNCHANGED clusterVars

JobCompletes ==
  /\ jobRec.step = "list"
  /\ \A i \in Listed : HasCompleted(i)
  /\ CompletedTasksCount = NumTasks
  /\ JobWillPatch([JobStatusSet(jobRec.new, "Completed") EXCEPT !.finished = TRUE],
                  FALSE)
  /\ UNCHANGED clusterVars

\* Mutant of JobPicksNext: it goes on although all Tasks have completed.
JobPicksAnyway ==
  /\ jobRec.step = "list"
  /\ \A i \in Listed : HasCompleted(i)
  /\ jobRec' = [jobRec EXCEPT !.step = "create", !.index = CompletedTasksCount]
  /\ UNCHANGED clusterVars

JobPicksNext ==
  /\ jobRec.step = "list"
  /\ \A i \in Listed : HasCompleted(i)
  /\ CompletedTasksCount # NumTasks
  /\ jobRec' = [jobRec EXCEPT !.step = "create", !.index = CompletedTasksCount]
  /\ UNCHANGED clusterVars

(***************************************************************************)
(* createTaskWithOwner.  Any error of the Create fails the Job, that the   *)
(* Task exists already as well as one whose request did get through.       *)
(***************************************************************************)
TaskCreated(i) == PutTask(i, NewTask)

JobCreatesTask ==
  /\ jobRec.step = "create"
  /\ ~TheTasks[jobRec.index].exists
  /\ TaskCreated(jobRec.index)
  /\ JobWillPatch(jobRec.new, FALSE)
  /\ UNCHANGED <<jobVersions, jobQueued, taskQueued, faults>>

JobCreateConflicts ==
  /\ jobRec.step = "create"
  /\ TheTasks[jobRec.index].exists
  /\ JobWillPatch(JobStatusSet(jobRec.new, "Failed"), TRUE)
  /\ UNCHANGED clusterVars

JobCreateFails ==
  /\ jobRec.step = "create"
  /\ Fault
  /\ \/ UNCHANGED taskVersions
     \/ ~TheTasks[jobRec.index].exists /\ TaskCreated(jobRec.index)
  /\ JobWillPatch(JobStatusSet(jobRec.new, "Failed"), TRUE)
  /\ UNCHANGED <<jobVersions, jobQueued, taskQueued>>

(***************************************************************************)
(* patchStatus, the last call of a reconciliation.                         *)
(***************************************************************************)
JobPatches ==
  /\ jobRec.step = "patch"
  /\ PatchJob(jobRec.base, jobRec.new)
  /\ JobReturns(jobRec.fails)
  /\ UNCHANGED <<taskVersions, taskQueued, faults>>

JobPatchFails ==
  /\ jobRec.step = "patch"
  /\ Fault
  /\ UNCHANGED jobVersions \/ PatchJob(jobRec.base, jobRec.new)
  /\ JobReturns(TRUE)
  /\ UNCHANGED <<taskVersions, taskQueued>>

\* What the reconciler does when its calls succeed.
JobWork ==
  \/ JobIgnored \/ JobStarts
  \/ JobWaits \/ JobSeesFailure \/ JobCompletes \/ JobPicksNext
  \/ JobCreatesTask \/ JobCreateConflicts
  \/ JobPatches

JobFaults == JobLookupFails \/ JobCreateFails \/ JobPatchFails
=============================================================================
