--------------------------- MODULE TwoJobsProofs ---------------------------
(***************************************************************************)
(* Two Jobs that share a machine: each keeps its books and its promise as  *)
(* if it were alone, and the one that acted last on the power of the       *)
(* machine finds it as it asked.  What FreshProofs shows of one Job is     *)
(* used for both.                                                          *)
(***************************************************************************)
EXTENDS TwoJobs, TLAPS

(***************************************************************************)
(* Job A.                                                                  *)
(***************************************************************************)

\* A starts as a Job alone.
LEMMA AStarts ==
  ASSUME A!Init
  PROVE  ASound /\ A!RunsInTurn
<1>1. A!Sound /\ A!FreshInv /\ A!PowerInv
  BY A!SoundInit, A!FreshInit, A!PowerInit, TwoAssumption, ActionsAssumption
<1>. QED
  BY <1>1 DEF ASound, A!Sound, A!PowerInv

\* What A does is a step of a Job alone whose caches keep up.
LEMMA AIsAlone ==
  ASSUME AWorks
  PROVE  A!FreshNext
BY DEF AWorks, A!FreshNext, A!Next, A!taskVars, A!history, aTaskVars

\* Whether A acts or stutters, its books stay in order.
LEMMA AActs ==
  ASSUME ASound, [A!FreshNext]_A!vars
  PROVE  ASound'
<1>1. A!Sound /\ A!FreshInv
  BY DEF ASound, A!Sound
<1>2. [A!Next]_A!vars
  BY DEF A!FreshNext, A!Next, A!Environment, A!ClusterStep
<1>3. A!Sound' /\ A!FreshInv'
  BY <1>1, <1>2, A!SoundStep, A!FreshStep, TwoAssumption, ActionsAssumption
<1>. QED
  BY <1>3 DEF ASound, A!Sound

\* Its own actions are sent in turn, and one on the power is obeyed.
LEMMA AAsks ==
  ASSUME Transients = {}, ASound, A!RunsInTurn, A!FreshNext
  PROVE  /\ A!RunsInTurn'
         /\ A!AsAsked \/ ASends => A!AsAsked'
<1>1. A!Sound /\ A!FreshInv
  BY DEF ASound, A!Sound
<1>2. /\ A!PowerKept
      /\ \A i \in A!Index :
           AAction[i] \notin A!PowerNeutral /\ (A!TaskRuns(i) \/ A!TaskRunFails(i))
             => A!AsAsked'
  BY <1>1, A!PowerStep, TwoAssumption, ActionsAssumption
<1>. QED
  BY <1>2 DEF A!PowerKept, ASends

(***************************************************************************)
(* Job B.                                                                  *)
(***************************************************************************)

\* B starts as a Job alone.
LEMMA BStarts ==
  ASSUME B!Init
  PROVE  BSound /\ B!RunsInTurn
<1>1. B!Sound /\ B!FreshInv /\ B!PowerInv
  BY B!SoundInit, B!FreshInit, B!PowerInit, TwoAssumption, ActionsAssumption
<1>. QED
  BY <1>1 DEF BSound, B!Sound, B!PowerInv

\* What B does is a step of a Job alone whose caches keep up.
LEMMA BIsAlone ==
  ASSUME BWorks
  PROVE  B!FreshNext
BY DEF BWorks, B!FreshNext, B!Next, B!taskVars, B!history, bTaskVars

\* Whether B acts or stutters, its books stay in order.
LEMMA BActs ==
  ASSUME BSound, [B!FreshNext]_B!vars
  PROVE  BSound'
<1>1. B!Sound /\ B!FreshInv
  BY DEF BSound, B!Sound
<1>2. [B!Next]_B!vars
  BY DEF B!FreshNext, B!Next, B!Environment, B!ClusterStep
<1>3. B!Sound' /\ B!FreshInv'
  BY <1>1, <1>2, B!SoundStep, B!FreshStep, TwoAssumption, ActionsAssumption
<1>. QED
  BY <1>3 DEF BSound, B!Sound

\* Its own actions are sent in turn, and one on the power is obeyed.
LEMMA BAsks ==
  ASSUME Transients = {}, BSound, B!RunsInTurn, B!FreshNext
  PROVE  /\ B!RunsInTurn'
         /\ B!AsAsked \/ BSends => B!AsAsked'
<1>1. B!Sound /\ B!FreshInv
  BY DEF BSound, B!Sound
<1>2. /\ B!PowerKept
      /\ \A i \in B!Index :
           BAction[i] \notin B!PowerNeutral /\ (B!TaskRuns(i) \/ B!TaskRunFails(i))
             => B!AsAsked'
  BY <1>1, B!PowerStep, TwoAssumption, ActionsAssumption
<1>. QED
  BY <1>2 DEF B!PowerKept, BSends

(***************************************************************************)
(* Both.                                                                   *)
(***************************************************************************)

\* While B acts, A keeps what it has; unless B sends an action on the power,
\* the machine still does as A asked.
LEMMA AWaits ==
  ASSUME ASound, BWorks, UNCHANGED aVars, B!BmcTypeOK'
  PROVE  /\ ASound'
         /\ A!RunsInTurn => A!RunsInTurn'
         /\ UNCHANGED <<A!TheJob, A!TheTasks>>
         /\ A!AsAsked /\ ~BSends => A!AsAsked'
<1>1. UNCHANGED A!ownVars
  BY DEF aVars, A!ownVars, A!clusterVars, A!history
<1>2. A!BmcTypeOK'
  BY DEF A!BmcTypeOK, B!BmcTypeOK, A!Powers, B!Powers
<1>3. ~BSends => bmc' = bmc \/ A!BmcSettles
  <2>1. B!FreshNext
    BY BIsAlone
  <2>2. \/ bmc' = bmc \/ B!BmcSettles
        \/ \E i \in B!Index : /\ BAction[i] \notin B!PowerNeutral
                              /\ B!TaskRuns(i) \/ B!TaskRunFails(i)
    BY <2>1, B!WhoMovesTheMachine, TwoAssumption, ActionsAssumption
  <2>. QED
    BY <2>2 DEF BSends, B!BmcSettles, A!BmcSettles
<1>4. /\ A!Sound => A!Sound'
      /\ A!FreshInv => A!FreshInv'
      /\ A!RunsInTurn => A!RunsInTurn'
      /\ UNCHANGED <<A!TheJob, A!TheTasks>>
      /\ A!TypeOK /\ (bmc' = bmc \/ A!BmcSettles) /\ A!AsAsked => A!AsAsked'
  BY <1>1, <1>2, A!OthersAct, TwoAssumption, ActionsAssumption
<1>. QED
  BY <1>3, <1>4 DEF ASound, A!Sound

\* While A acts, B keeps what it has; unless A sends an action on the power,
\* the machine still does as B asked.
LEMMA BWaits ==
  ASSUME BSound, AWorks, UNCHANGED bVars, A!BmcTypeOK'
  PROVE  /\ BSound'
         /\ B!RunsInTurn => B!RunsInTurn'
         /\ UNCHANGED <<B!TheJob, B!TheTasks>>
         /\ B!AsAsked /\ ~ASends => B!AsAsked'
<1>1. UNCHANGED B!ownVars
  BY DEF bVars, B!ownVars, B!clusterVars, B!history
<1>2. B!BmcTypeOK'
  BY DEF B!BmcTypeOK, A!BmcTypeOK, B!Powers, A!Powers
<1>3. ~ASends => bmc' = bmc \/ B!BmcSettles
  <2>1. A!FreshNext
    BY AIsAlone
  <2>2. \/ bmc' = bmc \/ A!BmcSettles
        \/ \E i \in A!Index : /\ AAction[i] \notin A!PowerNeutral
                              /\ A!TaskRuns(i) \/ A!TaskRunFails(i)
    BY <2>1, A!WhoMovesTheMachine, TwoAssumption, ActionsAssumption
  <2>. QED
    BY <2>2 DEF ASends, A!BmcSettles, B!BmcSettles
<1>4. /\ B!Sound => B!Sound'
      /\ B!FreshInv => B!FreshInv'
      /\ B!RunsInTurn => B!RunsInTurn'
      /\ UNCHANGED <<B!TheJob, B!TheTasks>>
      /\ B!TypeOK /\ (bmc' = bmc \/ B!BmcSettles) /\ B!AsAsked => B!AsAsked'
  BY <1>1, <1>2, B!OthersAct, TwoAssumption, ActionsAssumption
<1>. QED
  BY <1>3, <1>4 DEF BSound, B!Sound

\* A step in which nothing happens to A or to the machine.
LEMMA AStutters ==
  ASSUME ASound, UNCHANGED jobVars
  PROVE  /\ ASound'
         /\ A!RunsInTurn => A!RunsInTurn'
         /\ UNCHANGED <<A!TheJob, A!TheTasks>>
         /\ A!AsAsked => A!AsAsked'
<1>1. UNCHANGED A!ownVars /\ bmc' = bmc
  BY DEF jobVars, aVars, A!ownVars, A!clusterVars, A!history
<1>2. A!BmcTypeOK'
  BY <1>1 DEF ASound, A!TypeOK, A!TaskControllerTypeOK, A!BmcTypeOK
<1>3. /\ A!Sound => A!Sound'
      /\ A!FreshInv => A!FreshInv'
      /\ A!RunsInTurn => A!RunsInTurn'
      /\ UNCHANGED <<A!TheJob, A!TheTasks>>
      /\ A!TypeOK /\ A!AsAsked => A!AsAsked'
  BY <1>1, <1>2, A!OthersAct, TwoAssumption, ActionsAssumption
<1>. QED
  BY <1>3 DEF ASound, A!Sound

\* A step in which nothing happens to B or to the machine.
LEMMA BStutters ==
  ASSUME BSound, UNCHANGED jobVars
  PROVE  /\ BSound'
         /\ B!RunsInTurn => B!RunsInTurn'
         /\ UNCHANGED <<B!TheJob, B!TheTasks>>
         /\ B!AsAsked => B!AsAsked'
<1>1. UNCHANGED B!ownVars /\ bmc' = bmc
  BY DEF jobVars, bVars, B!ownVars, B!clusterVars, B!history
<1>2. B!BmcTypeOK'
  BY <1>1 DEF BSound, B!TypeOK, B!TaskControllerTypeOK, B!BmcTypeOK
<1>3. /\ B!Sound => B!Sound'
      /\ B!FreshInv => B!FreshInv'
      /\ B!RunsInTurn => B!RunsInTurn'
      /\ UNCHANGED <<B!TheJob, B!TheTasks>>
      /\ B!TypeOK /\ B!AsAsked => B!AsAsked'
  BY <1>1, <1>2, B!OthersAct, TwoAssumption, ActionsAssumption
<1>. QED
  BY <1>3 DEF BSound, B!Sound

\* A turn of either keeps the books of both.
LEMMA TurnsKeepOrder == ASound /\ BSound /\ [TwoNext]_jobVars => ASound' /\ BSound'
<1>. SUFFICES ASSUME ASound, BSound, [TwoNext]_jobVars PROVE ASound' /\ BSound'
  OBVIOUS
<1>1. CASE ATurn
  <2>1. AWorks /\ UNCHANGED bVars
    BY <1>1 DEF ATurn
  <2>2. ASound'
    BY <2>1, AIsAlone, AActs
  <2>3. A!BmcTypeOK'
    BY <2>2 DEF ASound, A!TypeOK, A!TaskControllerTypeOK
  <2>. QED
    BY <2>1, <2>2, <2>3, BWaits
<1>2. CASE BTurn
  <2>1. BWorks /\ UNCHANGED aVars
    BY <1>2 DEF BTurn
  <2>2. BSound'
    BY <2>1, BIsAlone, BActs
  <2>3. B!BmcTypeOK'
    BY <2>2 DEF BSound, B!TypeOK, B!TaskControllerTypeOK
  <2>. QED
    BY <2>1, <2>2, <2>3, AWaits
<1>. QED
  BY <1>1, <1>2, AStutters, BStutters DEF TwoNext

\* Whatever two Jobs do to one machine, what IndInv and FreshInv say of the
\* Tasks, the caches and the reconciliations of a Job is true of both.
THEOREM BothInOrder == TwoSpec => [](ASound /\ BSound)
<1>1. TwoInit => ASound /\ BSound
  BY AStarts, BStarts DEF TwoInit
<1>. QED
  BY <1>1, TurnsKeepOrder, PTL DEF TwoSpec

\* Sharing a machine makes neither Job send an action twice, and a Job is Failed
\* only when one of its own Tasks has timed out.
THEOREM EachForItself ==
  TwoSpec => []( /\ aRepeated = {} /\ bRepeated = {}
                 /\ "Failed" \in A!TheJob.conds => aExpired # {}
                 /\ "Failed" \in B!TheJob.conds => bExpired # {} )
<1>1. ASound => /\ aRepeated = {}
                /\ "Failed" \in A!TheJob.conds => aExpired # {}
  <2>. SUFFICES ASSUME ASound
                PROVE  /\ aRepeated = {}
                       /\ "Failed" \in A!TheJob.conds => aExpired # {}
    OBVIOUS
  <2>1. aFaults = 0
    BY DEF ASound, A!TypeOK, A!ClusterTypeOK
  <2>. QED
    BY <2>1 DEF ASound, A!FreshInv, A!RunsRemembered, A!FailuresCaused, A!Cause
<1>2. BSound => /\ bRepeated = {}
                /\ "Failed" \in B!TheJob.conds => bExpired # {}
  <2>. SUFFICES ASSUME BSound
                PROVE  /\ bRepeated = {}
                       /\ "Failed" \in B!TheJob.conds => bExpired # {}
    OBVIOUS
  <2>1. bFaults = 0
    BY DEF BSound, B!TypeOK, B!ClusterTypeOK
  <2>. QED
    BY <2>1 DEF BSound, B!FreshInv, B!RunsRemembered, B!FailuresCaused, B!Cause
<1>. QED
  BY <1>1, <1>2, BothInOrder, PTL

\* A turn of A: an action on the power makes A the one that is obeyed.
LEMMA AsTurn ==
  ASSUME Transients = {}, TwoInv, ATurn
  PROVE  TwoInv'
<1>1. /\ AWorks /\ UNCHANGED bVars
      /\ lastSender' = IF ASends THEN "A" ELSE lastSender
  BY DEF ATurn
<1>2. ASound' /\ BSound'
  BY TurnsKeepOrder DEF TwoInv, TwoNext
<1>3. A!RunsInTurn' /\ (A!AsAsked \/ ASends => A!AsAsked')
  BY <1>1, AIsAlone, AAsks DEF TwoInv
<1>4. A!BmcTypeOK'
  BY <1>2 DEF ASound, A!TypeOK, A!TaskControllerTypeOK
<1>5. B!RunsInTurn' /\ (B!AsAsked /\ ~ASends => B!AsAsked')
  BY <1>1, <1>4, BWaits DEF TwoInv
<1>. QED
  BY <1>1, <1>2, <1>3, <1>5 DEF TwoInv

\* A turn of B: an action on the power makes B the one that is obeyed.
LEMMA BsTurn ==
  ASSUME Transients = {}, TwoInv, BTurn
  PROVE  TwoInv'
<1>1. /\ BWorks /\ UNCHANGED aVars
      /\ lastSender' = IF BSends THEN "B" ELSE lastSender
  BY DEF BTurn
<1>2. ASound' /\ BSound'
  BY TurnsKeepOrder DEF TwoInv, TwoNext
<1>3. B!RunsInTurn' /\ (B!AsAsked \/ BSends => B!AsAsked')
  BY <1>1, BIsAlone, BAsks DEF TwoInv
<1>4. B!BmcTypeOK'
  BY <1>2 DEF BSound, B!TypeOK, B!TaskControllerTypeOK
<1>5. A!RunsInTurn' /\ (A!AsAsked /\ ~BSends => A!AsAsked')
  BY <1>1, <1>4, AWaits DEF TwoInv
<1>. QED
  BY <1>1, <1>2, <1>3, <1>5 DEF TwoInv

\* TwoInv is an invariant of two Jobs with fresh caches and a BMC that reports
\* no transitional state.
THEOREM TwoInvariant ==
  ASSUME Transients = {}
  PROVE  TwoSpec => []TwoInv
<1>1. TwoInit => TwoInv
  <2>. SUFFICES ASSUME TwoInit PROVE TwoInv
    OBVIOUS
  <2>1. lastSender = "none"
    BY DEF TwoInit
  <2>. QED
    BY <2>1, AStarts, BStarts DEF TwoInit, TwoInv
<1>2. TwoInv /\ [TwoNext]_jobVars => TwoInv'
  <2>1. TwoInv /\ UNCHANGED jobVars => TwoInv'
    BY AStutters, BStutters DEF TwoInv, jobVars
  <2>. QED
    BY <2>1, AsTurn, BsTurn DEF TwoNext
<1>. QED
  BY <1>1, <1>2, PTL DEF TwoSpec

\* Whoever acted last on the power of the machine and is Completed finds it as
\* its last "on" or "off" asked, however the steps of two Jobs with any lists
\* of actions alternate.
THEOREM WhoActsLast ==
  ASSUME Transients = {}
  PROVE  TwoSpec => []LastWord
<1>1. TwoInv => LastWord
  <2>. SUFFICES ASSUME TwoInv PROVE LastWord
    OBVIOUS
  <2>1. lastSender = "A" => A!PowerAsAsked
    BY A!SettledAsAsked, TwoAssumption, ActionsAssumption
       DEF TwoInv, ASound, A!Sound
  <2>2. lastSender = "B" => B!PowerAsAsked
    BY B!SettledAsAsked, TwoAssumption, ActionsAssumption
       DEF TwoInv, BSound, B!Sound
  <2>. QED
    BY <2>1, <2>2 DEF LastWord
<1>. QED
  BY <1>1, TwoInvariant, PTL

\* Every step is one of A's promise, or shows nothing of A.
LEMMA AKeepsPromise ==
  ASound /\ BSound /\ ASound' /\ BSound' /\ [TwoNext]_jobVars =>
    \/ A!Promise!SJNext
    \/ A!TaskView' = A!TaskView /\ A!JobView' = A!JobView
<1>. SUFFICES ASSUME ASound, BSound, ASound', BSound', [TwoNext]_jobVars
              PROVE  \/ A!Promise!SJNext
                     \/ A!TaskView' = A!TaskView /\ A!JobView' = A!JobView
  OBVIOUS
<1>1. CASE ATurn
  <2>1. A!FreshNext
    BY <1>1, AIsAlone DEF ATurn
  <2>2. A!Sound /\ A!FreshInv /\ A!FreshInv'
    BY DEF ASound, A!Sound
  <2>. QED
    BY <2>1, <2>2, A!PromiseStep, TwoAssumption, ActionsAssumption
<1>2. UNCHANGED <<A!TheJob, A!TheTasks>> =>
        A!TaskView' = A!TaskView /\ A!JobView' = A!JobView
  BY DEF A!TaskView, A!JobView, A!TaskVerdict, A!JobVerdict
<1>3. CASE BTurn
  <2>1. B!BmcTypeOK'
    BY DEF BSound, B!TypeOK, B!TaskControllerTypeOK
  <2>. QED
    BY <1>2, <1>3, <2>1, AWaits DEF BTurn
<1>4. CASE UNCHANGED jobVars
  BY <1>2, <1>4, AStutters
<1>. QED
  BY <1>1, <1>3, <1>4 DEF TwoNext

\* Every step is one of B's promise, or shows nothing of B.
LEMMA BKeepsPromise ==
  ASound /\ BSound /\ ASound' /\ BSound' /\ [TwoNext]_jobVars =>
    \/ B!Promise!SJNext
    \/ B!TaskView' = B!TaskView /\ B!JobView' = B!JobView
<1>. SUFFICES ASSUME ASound, BSound, ASound', BSound', [TwoNext]_jobVars
              PROVE  \/ B!Promise!SJNext
                     \/ B!TaskView' = B!TaskView /\ B!JobView' = B!JobView
  OBVIOUS
<1>1. CASE BTurn
  <2>1. B!FreshNext
    BY <1>1, BIsAlone DEF BTurn
  <2>2. B!Sound /\ B!FreshInv /\ B!FreshInv'
    BY DEF BSound, B!Sound
  <2>. QED
    BY <2>1, <2>2, B!PromiseStep, TwoAssumption, ActionsAssumption
<1>2. UNCHANGED <<B!TheJob, B!TheTasks>> =>
        B!TaskView' = B!TaskView /\ B!JobView' = B!JobView
  BY DEF B!TaskView, B!JobView, B!TaskVerdict, B!JobVerdict
<1>3. CASE ATurn
  <2>1. A!BmcTypeOK'
    BY DEF ASound, A!TypeOK, A!TaskControllerTypeOK
  <2>. QED
    BY <1>2, <1>3, <2>1, BWaits DEF ATurn
<1>4. CASE UNCHANGED jobVars
  BY <1>2, <1>4, BStutters
<1>. QED
  BY <1>1, <1>3, <1>4 DEF TwoNext

\* Each Job keeps the promise of SequentialJob although the other undoes what
\* it does to the machine.
THEOREM BothRefineSequentialJob == TwoSpec => BothKeepPromise
<1>1. TwoInit => A!Promise!SJInit
  BY A!PromiseInit, TwoAssumption, ActionsAssumption DEF TwoInit
<1>2. A!TaskView' = A!TaskView /\ A!JobView' = A!JobView =>
        UNCHANGED <<[i \in A!Index |-> A!TaskVerdict(A!TheTasks[i])],
                    A!JobVerdict(A!TheJob)>>
  BY DEF A!TaskView, A!JobView
<1>3. TwoSpec => A!KeepsPromise
  BY <1>1, <1>2, AKeepsPromise, BothInOrder, PTL
     DEF TwoSpec, A!KeepsPromise, A!Promise!SJSpec
<1>4. TwoInit => B!Promise!SJInit
  BY B!PromiseInit, TwoAssumption, ActionsAssumption DEF TwoInit
<1>5. B!TaskView' = B!TaskView /\ B!JobView' = B!JobView =>
        UNCHANGED <<[i \in B!Index |-> B!TaskVerdict(B!TheTasks[i])],
                    B!JobVerdict(B!TheJob)>>
  BY DEF B!TaskView, B!JobView
<1>6. TwoSpec => B!KeepsPromise
  BY <1>4, <1>5, BKeepsPromise, BothInOrder, PTL
     DEF TwoSpec, B!KeepsPromise, B!Promise!SJSpec
<1>. QED
  BY <1>3, <1>6, PTL DEF BothKeepPromise
=============================================================================
