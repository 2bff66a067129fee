--------------------------- MODULE TaskController --------------------------
(***************************************************************************)
(* TaskReconciler (controller/task.go).  A reconciliation reads its Task,  *)
(* opens a BMC client, then either sends the Task's action (a new run) or  *)
(* checks on an action sent before, and patches the Task's status.  Other  *)
(* processes act between the read, the BMC calls and the patch.  Distinct  *)
(* Tasks may be reconciled at the same time (MaxConcurrentReconciles), one *)
(* Task never is.                                                          *)
(***************************************************************************)
EXTENDS Cluster, Bmc

CONSTANT Action   \* job.Spec.Tasks: what each Task asks of the BMC

ASSUME ActionAssumption == Action \in [Index -> ActionKinds]

VARIABLES
  taskRec,    \* the reconciliation in progress of each Task
  expired,    \* Tasks whose StartTime was last written 10 minutes ago or more
  \* The history of the calls made to the BMC, for the properties only:
  accepted,   \* Tasks whose action the BMC has accepted
  repeated,   \* Tasks whose action was sent again after it was accepted
  lastRun     \* the Task whose action was sent last (0 before any)

TaskRecord == [step : {"idle", "got", "patch"},
               base : TaskObject, new : TaskObject, fails : BOOLEAN]

IdleTaskRecord == [step |-> "idle", base |-> NoTask, new |-> NoTask,
                   fails |-> FALSE]

history  == <<accepted, repeated, lastRun>>
taskVars == <<taskRec, expired, bmc, history>>

TaskControllerTypeOK ==
  /\ taskRec \in [Index -> TaskRecord]
  /\ expired \in SUBSET Index
  /\ accepted \in SUBSET Index
  /\ repeated \in SUBSET Index
  /\ lastRun \in Index
  /\ BmcTypeOK

TaskControllerInit ==
  /\ taskRec = [i \in Index |-> IdleTaskRecord]
  /\ expired = {} /\ accepted = {} /\ repeated = {} /\ lastRun = 0
  /\ BmcInit

TaskStatusSet(task, condition) ==
  [task EXCEPT !.conds = @ \cup {condition}]

\* Mutant of TaskReturns: neither an error nor a RequeueAfter requeues.
TaskReturnsForGood(i, again) ==
  /\ taskRec' = [taskRec EXCEPT ![i] = IdleTaskRecord]
  /\ UNCHANGED taskQueued

\* The reconciliation returns; an error, or a RequeueAfter, puts the key
\* back into the queue.
TaskReturns(i, again) ==
  /\ taskRec' = [taskRec EXCEPT ![i] = IdleTaskRecord]
  /\ taskQueued' = IF again THEN taskQueued \cup {i} ELSE taskQueued

TaskWillPatch(i, new, withError) ==
  /\ taskRec' = [taskRec EXCEPT ![i].step = "patch", ![i].new = new,
                                ![i].fails = withError]
  /\ UNCHANGED <<jobVersions, taskVersions, jobQueued, taskQueued>>

(***************************************************************************)
(* Reconcile: get the Task, do nothing when it is gone or terminal.        *)
(***************************************************************************)
TaskIgnored(i) ==
  /\ taskRec[i].step = "idle" /\ i \in taskQueued
  /\ ~Cached(taskVersions)[i].exists \/ Terminal(Cached(taskVersions)[i])
  /\ taskQueued' = taskQueued \ {i}
  /\ UNCHANGED <<jobVersions, taskVersions, jobQueued, faults, taskVars>>

\* Mutant of TaskStarts: a terminal Task is reconciled again.
TaskStartsAlways(i) ==
  /\ taskRec[i].step = "idle" /\ i \in taskQueued
  /\ Cached(taskVersions)[i].exists
  /\ taskQueued' = taskQueued \ {i}
  /\ taskRec' = [taskRec EXCEPT ![i].step = "got",
                                ![i].base = Cached(taskVersions)[i],
                                ![i].new = Cached(taskVersions)[i]]
  /\ UNCHANGED <<jobVersions, taskVersions, jobQueued, faults, expired, bmc,
                 history>>

TaskStarts(i) ==
  /\ taskRec[i].step = "idle" /\ i \in taskQueued
  /\ Cached(taskVersions)[i].exists /\ ~Terminal(Cached(taskVersions)[i])
  /\ taskQueued' = taskQueued \ {i}
  /\ taskRec' = [taskRec EXCEPT ![i].step = "got",
                                ![i].base = Cached(taskVersions)[i],
                                ![i].new = Cached(taskVersions)[i]]
  /\ UNCHANGED <<jobVersions, taskVersions, jobQueued, faults, expired, bmc,
                 history>>

\* A Secret cannot be read: nothing is patched.
TaskSecretFails(i) ==
  /\ taskRec[i].step = "got"
  /\ Fault
  /\ TaskReturns(i, TRUE)
  /\ UNCHANGED <<jobVersions, taskVersions, jobQueued, expired, bmc, history>>

\* The BMC client cannot be opened: whatever the Task was doing, it fails.
TaskConnectFails(i) ==
  /\ taskRec[i].step = "got"
  /\ Fault
  /\ TaskWillPatch(i, TaskStatusSet(taskRec[i].base, "Failed"), TRUE)
  /\ UNCHANGED <<expired, bmc, history>>

(***************************************************************************)
(* The Task has a StartTime: its action was sent, check on it.             *)
(***************************************************************************)
Checking(i) == taskRec[i].step = "got" /\ taskRec[i].base.started

\* Mutants of ActionDone: the case of the power offs is missing; a state that
\* could not be read passes for the one asked for.
OnDone(kind, state) == kind = "on" => state = "on"
NotContrary(kind, state) ==
  /\ kind = "on" => state # "off"
  /\ kind \in {"off", "soft"} => state # "on"

\* checkTaskStatus finds the action done.
ActionDone(kind, state) ==
  /\ kind = "on" => state = "on"
  /\ kind \in {"off", "soft"} => state = "off"

TaskTimesOut(i) ==
  /\ Checking(i) /\ i \in expired
  /\ TaskWillPatch(i, TaskStatusSet(taskRec[i].base, "Failed"), TRUE)
  /\ UNCHANGED <<faults, expired, bmc, history>>

TaskCheckFails(i) ==
  /\ Checking(i) /\ i \notin expired
  /\ Action[i] \in PowerActions
  /\ Fault
  /\ TaskReturns(i, TRUE)
  /\ UNCHANGED <<jobVersions, taskVersions, jobQueued, expired, bmc, history>>

TaskStillPending(i) ==
  /\ Checking(i) /\ i \notin expired
  /\ \E raw \in Reports : ~ActionDone(Action[i], ToPowerState(raw))
  /\ TaskReturns(i, TRUE)
  /\ UNCHANGED <<jobVersions, taskVersions, jobQueued, faults, expired, bmc,
                 history>>

TaskCompletes(i) ==
  /\ Checking(i) /\ i \notin expired
  /\ \E raw \in Reports : ActionDone(Action[i], ToPowerState(raw))
  /\ TaskWillPatch(i, TaskStatusSet(taskRec[i].base, "Completed"), FALSE)
  /\ UNCHANGED <<faults, expired, bmc, history>>

(***************************************************************************)
(* A new run: the StartTime is set in memory, the action is sent.          *)
(***************************************************************************)
\* Mutants of NewRun (the action is sent whether or not there is a StartTime)
\* and of Started (the StartTime is not written).
AnyRun(i)       == taskRec[i].step = "got"
NotStarted(task) == task

NewRun(i) == taskRec[i].step = "got" /\ ~taskRec[i].base.started

Started(task) == [task EXCEPT !.started = TRUE]

Sent(i) ==
  /\ lastRun' = i
  /\ repeated' = IF i \in accepted THEN repeated \cup {i} ELSE repeated

TaskRuns(i) ==
  /\ NewRun(i)
  /\ bmc' \in Effects(Action[i])
  /\ Sent(i) /\ accepted' = accepted \cup {i}
  /\ TaskWillPatch(i, Started(taskRec[i].base), FALSE)
  /\ UNCHANGED <<faults, expired>>

\* Mutant of TaskRunFails: the error is returned, the Task not marked Failed.
TaskRunFailsQuietly(i) ==
  /\ NewRun(i)
  /\ Fault
  /\ bmc' \in Effects(Action[i]) \cup {bmc}
  /\ Sent(i) /\ UNCHANGED accepted
  /\ TaskWillPatch(i, Started(taskRec[i].base), TRUE)
  /\ UNCHANGED expired

\* The call fails; the BMC may have acted all the same.
TaskRunFails(i) ==
  /\ NewRun(i)
  /\ Fault
  /\ bmc' \in Effects(Action[i]) \cup {bmc}
  /\ Sent(i) /\ UNCHANGED accepted
  /\ TaskWillPatch(i, TaskStatusSet(Started(taskRec[i].base), "Failed"), TRUE)
  /\ UNCHANGED expired

(***************************************************************************)
(* patchStatus, the last call of a reconciliation.  A StartTime it writes  *)
(* is a recent one.                                                        *)
(***************************************************************************)
TaskPatched(i) ==
  /\ PatchTask(i, taskRec[i].base, taskRec[i].new)
  /\ expired' = IF taskRec[i].new.started # taskRec[i].base.started
                THEN expired \ {i} ELSE expired

TaskPatches(i) ==
  /\ taskRec[i].step = "patch"
  /\ TaskPatched(i)
  /\ TaskReturns(i, taskRec[i].fails)
  /\ UNCHANGED <<jobVersions, jobQueued, faults, bmc, history>>

TaskPatchFails(i) ==
  /\ taskRec[i].step = "patch"
  /\ Fault
  /\ UNCHANGED <<taskVersions, expired>> \/ TaskPatched(i)
  /\ TaskReturns(i, TRUE)
  /\ UNCHANGED <<jobVersions, jobQueued, bmc, history>>

\* Ten minutes pass since the Task's StartTime.
Expires(i) ==
  /\ TheTasks[i].started /\ i \notin expired
  /\ expired' = expired \cup {i}
  /\ UNCHANGED <<clusterVars, taskRec, bmc, history>>

\* What the reconciler does when its calls succeed.
TaskWork(i) ==
  \/ TaskIgnored(i) \/ TaskStarts(i)
  \/ TaskTimesOut(i) \/ TaskStillPending(i) \/ TaskCompletes(i)
  \/ TaskRuns(i)
  \/ TaskPatches(i)

TaskFaults(i) ==
  \/ TaskSecretFails(i) \/ TaskConnectFails(i) \/ TaskCheckFails(i)
  \/ TaskRunFails(i) \/ TaskPatchFails(i)
=============================================================================
