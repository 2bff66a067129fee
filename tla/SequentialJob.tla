--------------------------- MODULE SequentialJob ---------------------------
(***************************************************************************)
(* What a Job promises (JobSpec in api/v1alpha1/job.go): its Tasks are     *)
(* executed one after the other, each after the one before it completed;   *)
(* the Job is Completed only if all of them were successful, may otherwise *)
(* end up Failed, and then creates no further Task; no verdict, neither    *)
(* that of the Job nor that of a Task, is ever taken back.                 *)
(***************************************************************************)
EXTENDS Integers

CONSTANT NumTasks

VARIABLES
  tasks,    \* per Task: "none", "pending", or its verdict
  verdict   \* of the Job

Verdicts == {"Completed", "Failed"}

SJIndex == 0..(NumTasks - 1)

SJTypeOK == /\ tasks \in [SJIndex -> {"none", "pending"} \cup Verdicts]
            /\ verdict \in {"open"} \cup Verdicts

SJInit == /\ tasks = [i \in SJIndex |-> "none"]
          /\ verdict = "open"

CreateTask(i) ==
  /\ verdict = "open"
  /\ tasks[i] = "none"
  /\ \A j \in 0..(i - 1) : tasks[j] = "Completed"
  /\ tasks' = [tasks EXCEPT ![i] = "pending"]
  /\ UNCHANGED verdict

\* A Task may still finish after its Job has failed.
FinishTask(i) ==
  /\ tasks[i] = "pending"
  /\ \E v \in Verdicts : tasks' = [tasks EXCEPT ![i] = v]
  /\ UNCHANGED verdict

CompleteJob ==
  /\ verdict = "open"
  /\ \A i \in SJIndex : tasks[i] = "Completed"
  /\ verdict' = "Completed"
  /\ UNCHANGED tasks

FailJob ==
  /\ verdict = "open"
  /\ verdict' = "Failed"
  /\ UNCHANGED tasks

SJNext == \/ \E i \in SJIndex : CreateTask(i) \/ FinishTask(i)
          \/ CompleteJob \/ FailJob

SJSpec == SJInit /\ [][SJNext]_<<tasks, verdict>>
=============================================================================
