-------------------------- MODULE RufioInvariants --------------------------
(***************************************************************************)
(* The inductive invariants behind the safety properties of module Rufio:  *)
(* what ties together the versions of the Tasks that are still on their    *)
(* way to the cache, and what reconciliations in progress carry with them. *)
(***************************************************************************)
EXTENDS Rufio

\* The versions of the Tasks that somebody may still read.
TaskSnapshots == {taskVersions[p] : p \in DOMAIN taskVersions}

Busy(i) == taskRec[i].step # "idle"

(***************************************************************************)
(* For OneAtATime.                                                         *)
(***************************************************************************)
SnapshotsOrdered ==
  \A t \in TaskSnapshots, i \in Index :
    /\ Terminal(t[i]) \/ t[i].started => t[i].exists
    /\ t[i].exists => \A j \in Index : j < i => t[j].exists

NothingForgotten ==
  \A t \in TaskSnapshots, i \in Index :
    /\ t[i].exists => TheTasks[i].exists
    /\ Terminal(t[i]) => Terminal(TheTasks[i])

TaskRecordsSound ==
  \A i \in Index : Busy(i) =>
    /\ TheTasks[i].exists
    /\ taskRec[i].base.conds = {}
    /\ taskRec[i].new.conds \in {{}, {"Completed"}, {"Failed"}}

\* What the stale list justified when it was read is still true when the
\* Task is created.
CreatesInTurn ==
  jobRec.step = "create" =>
    \A i \in Index : i < jobRec.index => Terminal(TheTasks[i])

\* doReconcile of a Job creates a Task only when those before it have ended.
OrderInv ==
  /\ SnapshotsOrdered /\ NothingForgotten /\ TaskRecordsSound /\ CreatesInTurn
  /\ OneAtATime
(***************************************************************************)
(* For CompletedMeansAccepted.  A Task that was started may be Failed and  *)
(* never have been accepted; a later patch by a reconciliation that read   *)
(* the Task before it failed replaces that verdict by Completed only if    *)
(* what it read was the start of an accepted run.                          *)
(***************************************************************************)
\* What a copy of a Task says about the BMC is true of it.
Vouched(i, task) ==
  (\/ task.started /\ "Failed" \notin task.conds
   \/ "Completed" \in task.conds)
    => i \in accepted

\* Nothing that is written, pending or in memory claims more than the BMC did.
AcceptedInv ==
  /\ \A t \in TaskSnapshots, i \in Index : Vouched(i, t[i])
  /\ \A i \in Index : Busy(i) => /\ Vouched(i, taskRec[i].base)
                                 /\ Vouched(i, taskRec[i].new)
  /\ "Completed" \in jobRec.new.conds => accepted = Index
  /\ CompletedMeansAccepted

(***************************************************************************)
(* For ActionsInOrder.  Once a later Task is there, or about to be         *)
(* created, whoever reads or has read an earlier one finds it started, and *)
(* so does not send its action.                                            *)
(***************************************************************************)
\* Nobody sends the action of Task i any more.
Done(i) == /\ Cached(taskVersions)[i].started
           /\ Busy(i) => taskRec[i].base.started

StartsKept ==
  /\ \A p, q \in DOMAIN taskVersions :
       p <= q => \A i \in Index :
         taskVersions[p][i].started => taskVersions[q][i].started
  /\ \A i \in Index : Busy(i) =>
       /\ taskRec[i].base.started => Cached(taskVersions)[i].started
       /\ taskRec[i].base.started => taskRec[i].new.started
       /\ "Completed" \in taskRec[i].new.conds => taskRec[i].base.started

CompletedAreDone ==
  \A t \in TaskSnapshots, i \in Index : "Completed" \in t[i].conds => Done(i)

EarlierAreDone ==
  \A i, j \in Index : i < j =>
    /\ TheTasks[j].exists => Done(i)
    /\ jobRec.step = "create" /\ jobRec.index = j => Done(i)

LastRunExists == lastRun # 0 => TheTasks[lastRun].exists

\* No reconciliation of an earlier Task can still reach runTask.
SequenceInv ==
  StartsKept /\ CompletedAreDone /\ EarlierAreDone /\ LastRunExists

(***************************************************************************)
(* For OneVerdict.                                                         *)
(***************************************************************************)
\* A reconciliation of a Job marks it Completed or Failed once, at its end.
VerdictInv ==
  /\ OneVerdict
  /\ ~({"Completed", "Failed"} \subseteq jobRec.new.conds)
  /\ jobRec.step \in {"list", "create"} => ~Terminal(jobRec.new)

\* All four together, as the runs check them: what the reconcilers of Jobs and
\* Tasks maintain at every step, whatever they read.
IndInv == OrderInv /\ AcceptedInv /\ SequenceInv /\ VerdictInv

(***************************************************************************)
(* For the system with fresh caches (FreshSpec).                           *)
(***************************************************************************)
\* What a reconciliation in progress has read is what the server still holds.
RecordsCurrent ==
  /\ jobRec.step # "idle" => jobRec.base = TheJob /\ ~Terminal(TheJob)
  /\ \A i \in Index : Busy(i) => taskRec[i].base = TheTasks[i]

HasSucceeded(i) == "Completed" \in TheTasks[i].conds

\* The Task about to be created is the next one, and so does not exist.
CreatesNext ==
  /\ \A i, j \in Index : i < j /\ TheTasks[j].exists => HasSucceeded(i)
  /\ jobRec.step = "create" =>
       /\ ~TheTasks[jobRec.index].exists
       /\ \A i \in Index : i < jobRec.index => HasSucceeded(i)

\* A Job's Completed, given or about to be, is that of all its Tasks.
CompletionEarned ==
  /\ "Completed" \in jobRec.new.conds => jobRec.new.finished
  /\ "Completed" \in jobRec.new.conds \cup TheJob.conds =>
       \A i \in Index : HasSucceeded(i)

\* Something went wrong outside the program, or took more than ten minutes.
Cause == faults > 0 \/ expired # {}

FailuresCaused ==
  /\ "Failed" \in jobRec.new.conds \cup TheJob.conds => Cause
  /\ \A i \in Index :
       "Failed" \in taskRec[i].new.conds \cup TheTasks[i].conds => Cause
  /\ \A i \in expired : TheTasks[i].started

\* As long as no call fails, an accepted action leaves a trace in the Task's
\* StartTime, or in the reconciliation that will write it.
RunsRemembered ==
  faults = 0 =>
    /\ repeated = {}
    /\ \A i \in accepted :
         \/ TheTasks[i].started
         \/ taskRec[i].step = "patch" /\ taskRec[i].new.started

\* With fresh caches, no reconciliation acts on what has changed meanwhile.
FreshInv ==
  /\ RecordsCurrent /\ CreatesNext /\ CompletionEarned /\ FailuresCaused
  /\ RunsRemembered

(***************************************************************************)
(* For PowerAsAsked and ActionsWaitForPower: fresh caches, and a BMC that  *)
(* reports no transitional state.                                          *)
(***************************************************************************)
\* The Task's action was accepted, as far as the Task or its reconciliation
\* tells; checkTaskStatus found it done.
Ran(task) == task.started /\ "Failed" \notin task.conds
HasRun(i) == Ran(TheTasks[i]) \/ (Busy(i) /\ Ran(taskRec[i].new))
FoundDone(i) ==
  HasSucceeded(i) \/ (Busy(i) /\ "Completed" \in taskRec[i].new.conds)

RunsInTurn ==
  /\ \A i \in accepted : i <= lastRun
  /\ \A i \in Index : HasSucceeded(i) => TheTasks[i].started

\* The machine is in, or on its way to, the state the last action asked for.
HeadingAsAsked ==
  Action[lastRun] \in {"on", "off"} /\ HasRun(lastRun)
    => bmc.heading = Action[lastRun]

\* Once an "on" or an "off" was found done, the machine stays so until an
\* action that changes its power is sent.
PowerNeutral == {"boot", "media", "status"}

StaysAsFound ==
  \A i \in Settling :
    /\ i <= lastRun
    /\ \A j \in Index : i < j /\ j <= lastRun => Action[j] \in PowerNeutral
    /\ FoundDone(i)
    => bmc = [power |-> Action[i], heading |-> Action[i]]

\* What the machine owes to the actions sent so far.
AsAsked == HeadingAsAsked /\ StaysAsFound

\* A machine that is off and coming up was asked to: by the last action, which
\* is still checked on, or by a cycle or reset, which are not.
OnItsWay == bmc.power = "off" /\ bmc.heading = "on"

WhyOnItsWay ==
  OnItsWay =>
    \/ Action[lastRun] \in {"on", "off"}
    \/ \E k \in Index : /\ k <= lastRun /\ Action[k] \in {"cycle", "reset"}
                        /\ \A m \in Index : k < m /\ m <= lastRun =>
                             Action[m] \notin {"on", "off"}

\* No soft power off is asked for while a cycle or a reset may be under way.
SoftOffsApart ==
  \A k, j \in Index :
    k < j /\ Action[k] \in {"cycle", "reset"} /\ Action[j] = "soft" =>
      \E m \in Index : k < m /\ m < j /\ Action[m] \in {"on", "off"}

\* Then a soft power off that was found done leaves the machine off.
SoftOffsLast ==
  SoftOffsApart /\ Action[lastRun] = "soft" /\ FoundDone(lastRun)
    => bmc = [power |-> "off", heading |-> "off"]

\* What the actions sent so far say of the power of the machine.
PowerInv == RunsInTurn /\ AsAsked /\ WhyOnItsWay /\ SoftOffsLast
=============================================================================
