------------------------------ MODULE TwoJobs ------------------------------
(***************************************************************************)
(* Two Jobs, A and B, of different names for one Machine.  Each is the     *)
(* system of module Rufio with objects, queues and reconciliations of its  *)
(* own; what they share is the machine.  Nothing in Rufio's controllers     *)
(* keeps their Tasks apart.  Failed calls and restarts are left to Rufio.  *)
(* The instances are of FreshProofs, which extends Rufio, so that what is  *)
(* proved there of one Job can be cited for each of the two.               *)
(***************************************************************************)
EXTENDS Integers, Sequences

CONSTANTS
  MaxLag, Transients,              \* as in module Rufio
  ANumTasks, BNumTasks,            \* how many Tasks each Job has
  AAction, BAction                 \* and what they ask for

ASSUME TwoAssumption ==
  /\ ANumTasks \in Nat \ {0} /\ BNumTasks \in Nat \ {0}
  /\ MaxLag \in Nat \ {0}

VARIABLES
  aJobVersions, aTaskVersions, aJobQueued, aTaskQueued, aFaults, aJobRec,
  aTaskRec, aExpired, aAccepted, aRepeated, aLastRun,
  bJobVersions, bTaskVersions, bJobQueued, bTaskQueued, bFaults, bJobRec,
  bTaskRec, bExpired, bAccepted, bRepeated, bLastRun,
  bmc,
  lastSender   \* whose action on the power was sent last (history)

aVars == <<aJobVersions, aTaskVersions, aJobQueued, aTaskQueued, aFaults, aJobRec,
          aTaskRec, aExpired, aAccepted, aRepeated, aLastRun>>
bVars == <<bJobVersions, bTaskVersions, bJobQueued, bTaskQueued, bFaults, bJobRec,
          bTaskRec, bExpired, bAccepted, bRepeated, bLastRun>>

aTaskVars == <<aTaskRec, aExpired, bmc, aAccepted, aRepeated, aLastRun>>
bTaskVars == <<bTaskRec, bExpired, bmc, bAccepted, bRepeated, bLastRun>>

jobVars == <<aVars, bVars, bmc, lastSender>>

A == INSTANCE FreshProofs
       WITH NumTasks <- ANumTasks,
            MaxFaults <- 0,
            Action <- AAction,
            jobVersions <- aJobVersions,
            taskVersions <- aTaskVersions,
            jobQueued <- aJobQueued,
            taskQueued <- aTaskQueued,
            faults <- aFaults,
            jobRec <- aJobRec,
            taskRec <- aTaskRec,
            expired <- aExpired,
            accepted <- aAccepted,
            repeated <- aRepeated,
            lastRun <- aLastRun

B == INSTANCE FreshProofs
       WITH NumTasks <- BNumTasks,
            MaxFaults <- 0,
            Action <- BAction,
            jobVersions <- bJobVersions,
            taskVersions <- bTaskVersions,
            jobQueued <- bJobQueued,
            taskQueued <- bTaskQueued,
            faults <- bFaults,
            jobRec <- bJobRec,
            taskRec <- bTaskRec,
            expired <- bExpired,
            accepted <- bAccepted,
            repeated <- bRepeated,
            lastRun <- bLastRun

ASSUME ActionsAssumption ==
  /\ AAction \in [A!Index -> A!ActionKinds]
  /\ BAction \in [B!Index -> B!ActionKinds]
  /\ Transients \subseteq {"PoweringOn", "PoweringOff"}

(***************************************************************************)
(* Steps of one Job leave the other's objects alone.                       *)
(***************************************************************************)
ASends == \E i \in A!Index : /\ AAction[i] \notin A!PowerNeutral
                             /\ A!TaskRuns(i) \/ A!TaskRunFails(i)
BSends == \E i \in B!Index : /\ BAction[i] \notin B!PowerNeutral
                             /\ B!TaskRuns(i) \/ B!TaskRunFails(i)

AWorks ==
  \/ A!Deliveries /\ UNCHANGED <<aJobRec, aTaskVars>>
  \/ /\ A!CachesFresh
     /\ A!Environment \/ A!JobStep \/ \E i \in A!Index : A!TaskStep(i)

BWorks ==
  \/ B!Deliveries /\ UNCHANGED <<bJobRec, bTaskVars>>
  \/ /\ B!CachesFresh
     /\ B!Environment \/ B!JobStep \/ \E i \in B!Index : B!TaskStep(i)

ATurn == /\ AWorks
         /\ lastSender' = IF ASends THEN "A" ELSE lastSender
         /\ UNCHANGED bVars

BTurn == /\ BWorks
         /\ lastSender' = IF BSends THEN "B" ELSE lastSender
         /\ UNCHANGED aVars

TwoInit == A!Init /\ B!Init /\ lastSender = "none"

TwoNext == ATurn \/ BTurn

TwoSpec == TwoInit /\ [][TwoNext]_jobVars

\* Fairness for each Job is that of module Rufio with fresh caches.
TwoFairSpec == TwoSpec /\ A!FreshFairness /\ B!FreshFairness

(***************************************************************************)
(* Properties.                                                             *)
(***************************************************************************)
ACompleted == "Completed" \in A!TheJob.conds
BCompleted == "Completed" \in B!TheJob.conds

\* The Job that had the last word: a Job that doReconcile completed leaves the
\* machine as its last "on" or "off" asked, if no other Job's runTask has sent
\* an action on the power since; what the other did before does not linger.
LastWord ==
  /\ ACompleted /\ lastSender = "A" => A!PowerAsAsked
  /\ BCompleted /\ lastSender = "B" => B!PowerAsAsked

\* However the Tasks of two Jobs undo what the other waits for, they do not
\* block each other for good: unless a Task times out, one of the Jobs is
\* completed.
SomebodyCompletes ==
  <>(ACompleted \/ BCompleted \/ aExpired # {} \/ bExpired # {})

\* Sharing a machine does not bring a Job's doReconcile out of step: each Job
\* keeps the promise that JobSpec documents (SequentialJob).
BothKeepPromise == A!KeepsPromise /\ B!KeepsPromise

\* What each Job's reconcilers maintain, whatever the other Job's do.
ASound == A!TypeOK /\ A!IndInv /\ A!FreshInv
BSound == B!TypeOK /\ B!IndInv /\ B!FreshInv

\* Inductive, for LastWord: each Job sends its actions in turn, and the machine
\* does as asked by the one whose runTask was the last to act on its power.
TwoInv ==
  /\ ASound /\ BSound
  /\ A!RunsInTurn /\ B!RunsInTurn
  /\ lastSender = "A" => A!AsAsked
  /\ lastSender = "B" => B!AsAsked
=============================================================================
