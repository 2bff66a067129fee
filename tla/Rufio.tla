------------------------------- MODULE Rufio -------------------------------
(***************************************************************************)
(* The Job controller and the Task controller of one manager process, the  *)
(* API server between them, the watches, one BMC, and restarts of the      *)
(* manager.                                                                *)
(***************************************************************************)
EXTENDS JobController, TaskController

vars == <<clusterVars, jobRec, taskVars>>

Init == ClusterInit /\ JobControllerInit /\ TaskControllerInit

\* The manager process dies between two steps and is started again.  What
\* its reconcilers held in memory, and its queues and caches, are lost.
Restart ==
  /\ Fault
  /\ RelistAll
  /\ jobRec' = IdleJobRecord
  /\ taskRec' = [i \in Index |-> IdleTaskRecord]
  /\ UNCHANGED <<expired, bmc, history>>

Environment ==
  \/ ClusterStep /\ UNCHANGED <<jobRec, taskVars>>
  \/ BmcSettles /\ UNCHANGED <<clusterVars, jobRec, taskRec, expired, history>>
  \/ \E i \in Index : Expires(i) /\ UNCHANGED jobRec

JobStep == (JobWork \/ JobFaults) /\ UNCHANGED taskVars

TaskStep(i) == (TaskWork(i) \/ TaskFaults(i)) /\ UNCHANGED jobRec

Next ==
  \/ Environment
  \/ JobStep
  \/ \E i \in Index : TaskStep(i)
  \/ Restart

Spec == Init /\ [][Next]_vars

(***************************************************************************)
(* Fairness.  The manager's workers keep running and the watches keep      *)
(* delivering; a call that fails, a crash and a resync may never happen.   *)
(* The clock goes on, so that ten minutes do pass.                         *)
(***************************************************************************)
Fairness ==
  /\ WF_vars(Deliveries /\ UNCHANGED <<jobRec, taskVars>>)
  /\ WF_vars(JobWork /\ UNCHANGED taskVars)
  /\ \A i \in Index : /\ WF_vars(TaskWork(i) /\ UNCHANGED jobRec)
                      /\ WF_vars(Expires(i) /\ UNCHANGED jobRec)

FairSpec == Spec /\ Fairness

(***************************************************************************)
(* The system with watches that are never late: a reconciler takes a step  *)
(* only when both caches hold what the API server holds.                   *)
(***************************************************************************)
CachesFresh == Lag(jobVersions) = 0 /\ Lag(taskVersions) = 0

FreshNext ==
  \/ Deliveries /\ UNCHANGED <<jobRec, taskVars>>
  \/ CachesFresh /\ Next

FreshSpec == Init /\ [][FreshNext]_vars

\* Besides the manager and its watches, the machine makes progress; the ten
\* minutes of a Task need not pass before it does.
FreshFairness ==
  /\ WF_vars(Deliveries /\ UNCHANGED <<jobRec, taskVars>>)
  /\ WF_vars(CachesFresh /\ JobWork /\ UNCHANGED taskVars)
  /\ \A i \in Index : WF_vars(CachesFresh /\ TaskWork(i) /\ UNCHANGED jobRec)
  /\ WF_vars(/\ CachesFresh /\ BmcSettles
             /\ UNCHANGED <<clusterVars, jobRec, taskRec, expired, history>>)

FreshFairSpec == FreshSpec /\ FreshFairness

\* The objects, queues and records of JobReconciler and TaskReconciler have
\* their types; in particular the index of the Task that doReconcile creates is
\* always one of job.Spec.Tasks.
TypeOK == ClusterTypeOK /\ JobControllerTypeOK /\ TaskControllerTypeOK

(***************************************************************************)
(* Properties of every behaviour, however late the watches are.            *)
(***************************************************************************)

\* "Controller waits for one task to complete before executing the next"
\* (api/v1alpha1/job.go:53): however stale the Task list that
\* JobReconciler.doReconcile works from, a Task exists only when all Tasks
\* before it have reached a verdict on the server.
OneAtATime ==
  \A i, j \in Index :
    i < j /\ TheTasks[j].exists => Terminal(TheTasks[i])

\* A Job that doReconcile marks Completed has had every one of its actions
\* accepted by the BMC: no mixture of stale lists, repeated runs, lost
\* replies and restarts completes a Job one of whose Tasks never ran.
CompletedMeansAccepted ==
  "Completed" \in TheJob.conds => accepted = Index

\* The BMC gets the actions in the order of the Job's list: runTask may send
\* an action twice, but never once a later one has been sent.
ActionsInOrder == [][lastRun' >= lastRun]_vars

\* The two verdicts of a Job or of a Task exclude each other, although
\* reconciliations that started from stale copies patch the condition list.
OneVerdict ==
  LET Mixed(object) == {"Completed", "Failed"} \subseteq object.conds IN
  /\ ~Mixed(TheJob)
  /\ \A i \in Index : ~Mixed(TheTasks[i])

\* doReconcile and TaskReconciler.doReconcile between them bring every Job to
\* a verdict, whatever failed on the way: the ten-minute timeout ends a Task
\* whose machine never reaches the state asked for.
JobEnds == <>[]Terminal(TheJob)

(***************************************************************************)
(* Properties of the system with fresh caches.                             *)
(***************************************************************************)
TaskVerdict(task) ==
  CASE ~task.exists -> "none"
    [] task.exists /\ ~Terminal(task) -> "pending"
    [] task.exists /\ "Completed" \in task.conds -> "Completed"
    [] OTHER -> "Failed"

JobVerdict(job) ==
  CASE ~Terminal(job) -> "open"
    [] "Completed" \in job.conds /\ job.finished -> "Completed"
    [] OTHER -> "Failed"

Promise == INSTANCE SequentialJob
             WITH tasks   <- [i \in Index |-> TaskVerdict(TheTasks[i])],
                  verdict <- JobVerdict(TheJob)

\* The two reconcilers together keep the promise JobSpec documents
\* (SequentialJob), under every failed call and restart.
KeepsPromise == Promise!SJSpec

\* doReconcile fails a Job only for a reason: some call failed, or a Task
\* timed out.  In particular the creation of a Task never conflicts.
FailureHasCause ==
  "Failed" \in TheJob.conds => faults > 0 \/ expired # {}

\* Without failed calls and restarts, runTask sends each action exactly once,
\* whatever events and resyncs enqueue the Task again.
SentOnce == faults = 0 => repeated = {}

\* No wake-up is lost: a Job none of whose calls fails and none of whose Tasks
\* times out is completed, however its events and its reconciliations overlap.
JobSucceeds ==
  <>("Completed" \in TheJob.conds \/ faults > 0 \/ expired # {})

\* No action overtakes a change of power: when runTask sends the action of a
\* later Task, the machine has reached the state asked for by the Task before
\* it (checkTaskStatus is what waits for it).
ActionsWaitForPower ==
  [][lastRun' # lastRun =>
       /\ Action[lastRun] = "on" => bmc.power = "on"
       /\ Action[lastRun] \in {"off", "soft"} => bmc.power = "off"]_vars

\* A Completed Job leaves the machine in the power state its last checked
\* power action asked for, and on its way nowhere else.
Settling == {i \in Index : Action[i] \in {"on", "off"}}

PowerAsAsked ==
  "Completed" \in TheJob.conds =>
    \A i \in Settling :
      (\A j \in Index : j > i => Action[j] \in {"boot", "media", "status"})
        => bmc = [power |-> Action[i], heading |-> Action[i]]

(***************************************************************************)
(* What the documentation says and the code does not guarantee.            *)
(***************************************************************************)

\* "Ensure re-reconciling a job does nothing given the task is still
\* outstanding" (controller/job_test.go:108): doReconcile does not fail a
\* Job one of whose Tasks is outstanding.
WaitsForOutstanding ==
  [][(\E i \in Index : TheTasks[i].exists /\ ~Terminal(TheTasks[i]))
       /\ "Failed" \in TheJob'.conds => "Failed" \in TheJob.conds]_vars

\* "Job is Completed or Failed is noop" (controller/job.go:78).
JobVerdictFinal == [][Terminal(TheJob) => TheJob' = TheJob]_vars

\* "A single one-off action" (docs/README.md:70): runTask sends an action the
\* BMC has accepted no second time.
OneOff == repeated = {}
=============================================================================
