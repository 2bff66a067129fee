------------------------------ MODULE Cluster ------------------------------
(***************************************************************************)
(* The Kubernetes objects of one Job and of the Tasks it owns, the work    *)
(* queues of the two controllers that reconcile them, and the watches that *)
(* fill those queues.  The Tasks of a Job are named <job>-task-<n>         *)
(* (FormatTaskName), so a Task is identified by its index n.               *)
(***************************************************************************)
EXTENDS KubeStore

CONSTANTS
  NumTasks,   \* len(job.Spec.Tasks)
  MaxLag,     \* bound: undelivered watch events of a kind
  MaxFaults   \* bound: failed calls and crashes in a behaviour

ASSUME ClusterAssumption ==
  /\ NumTasks \in Nat \ {0}   \* +kubebuilder:validation:MinItems=1
  /\ MaxLag \in Nat \ {0}
  /\ MaxFaults \in Nat

Index == 0..(NumTasks - 1)

(***************************************************************************)
(* The status of the objects.  A condition type is in conds when its       *)
(* status is True: the controllers never set one to False or remove one.   *)
(* Job.Status.StartTime is written exactly when Running is added and       *)
(* nothing reads it; finished is "CompletionTime is set".  The age of a    *)
(* Task's StartTime is kept in TaskController.                             *)
(***************************************************************************)
JobObject == [conds : SUBSET {"Running", "Completed", "Failed"},
              finished : BOOLEAN]

TaskObject == [exists : BOOLEAN,
               started : BOOLEAN,
               conds : SUBSET {"Completed", "Failed"}]

Terminal(object) == object.conds \cap {"Completed", "Failed"} # {}

NewJob  == [conds |-> {}, finished |-> FALSE]
NoTask  == [exists |-> FALSE, started |-> FALSE, conds |-> {}]
NewTask == [exists |-> TRUE,  started |-> FALSE, conds |-> {}]

VARIABLES
  jobVersions,   \* the window of the Job
  taskVersions,  \* the window of the Tasks: functions from Index
  jobQueued,     \* the Job is in the Job controller's queue
  taskQueued,    \* the Tasks in the Task controller's queue
  faults         \* how many calls and processes have failed so far

clusterVars == <<jobVersions, taskVersions, jobQueued, taskQueued, faults>>

ClusterTypeOK ==
  /\ jobVersions \in Seq(JobObject) /\ Len(jobVersions) >= 1
  /\ taskVersions \in Seq([Index -> TaskObject]) /\ Len(taskVersions) >= 1
  /\ jobQueued \in BOOLEAN
  /\ taskQueued \in SUBSET Index
  /\ faults \in 0..MaxFaults

\* A user has created the Job and its event has reached the cache.
ClusterInit ==
  /\ jobVersions = <<NewJob>>
  /\ taskVersions = <<[i \in Index |-> NoTask]>>
  /\ jobQueued = TRUE
  /\ taskQueued = {}
  /\ faults = 0

TheJob   == Latest(jobVersions)
TheTasks == Latest(taskVersions)

\* Something outside the program goes wrong.
Fault == /\ faults < MaxFaults
         /\ faults' = faults + 1

(***************************************************************************)
(* Writes to the API server.                                               *)
(***************************************************************************)
PatchJob(base, new) ==
  /\ Lag(jobVersions) < MaxLag
  /\ jobVersions' = Put(jobVersions,
       [conds    |-> Merge(base.conds, new.conds, TheJob.conds),
        finished |-> Merge(base.finished, new.finished, TheJob.finished)])

PutTask(i, task) ==
  /\ Lag(taskVersions) < MaxLag
  /\ taskVersions' = Put(taskVersions, [TheTasks EXCEPT ![i] = task])

PatchTask(i, base, new) ==
  PutTask(i, [exists  |-> TheTasks[i].exists,
              started |-> Merge(base.started, new.started, TheTasks[i].started),
              conds   |-> Merge(base.conds, new.conds, TheTasks[i].conds)])

(***************************************************************************)
(* Watch events.  A Job event enqueues the Job (For), a Task event         *)
(* enqueues the Task (For) and, through its owner reference, the Job       *)
(* (Watches).  A resync replays the cached objects as events.              *)
(***************************************************************************)
DeliverJob ==
  /\ Lag(jobVersions) > 0
  /\ jobVersions' = Tail(jobVersions)
  /\ jobQueued' = TRUE
  /\ UNCHANGED <<taskVersions, taskQueued, faults>>

\* Mutant of DeliverTask: the Job controller does not watch Tasks.
DeliverTaskToTaskOnly ==
  /\ Lag(taskVersions) > 0
  /\ taskVersions' = Tail(taskVersions)
  /\ taskQueued' = taskQueued \cup
       {i \in Index : taskVersions[2][i] # taskVersions[1][i]}
  /\ UNCHANGED <<jobVersions, jobQueued, faults>>

DeliverTask ==
  /\ Lag(taskVersions) > 0
  /\ taskVersions' = Tail(taskVersions)
  /\ taskQueued' = taskQueued \cup
       {i \in Index : taskVersions[2][i] # taskVersions[1][i]}
  /\ jobQueued' = TRUE
  /\ UNCHANGED <<jobVersions, faults>>

ResyncJob ==
  /\ jobQueued' = TRUE
  /\ UNCHANGED <<jobVersions, taskVersions, taskQueued, faults>>

ResyncTask(i) ==
  /\ Cached(taskVersions)[i].exists
  /\ taskQueued' = taskQueued \cup {i}
  /\ jobQueued' = TRUE
  /\ UNCHANGED <<jobVersions, taskVersions, faults>>

Deliveries == DeliverJob \/ DeliverTask

ClusterStep == Deliveries \/ ResyncJob \/ \E i \in Index : ResyncTask(i)

\* The manager restarts: empty caches are filled by a list, and every object
\* listed is enqueued.
RelistAll ==
  /\ jobVersions' = Relist(jobVersions)
  /\ taskVersions' = Relist(taskVersions)
  /\ jobQueued' = TRUE
  /\ taskQueued' = {i \in Index : TheTasks[i].exists}
=============================================================================
