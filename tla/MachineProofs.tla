--------------------------- MODULE MachineProofs ---------------------------
(***************************************************************************)
(* The Machine controller: types, and the report of a settled Machine, for *)
(* every bound and every set of transitional states.                       *)
(***************************************************************************)
EXTENDS MachineController, KubeStoreProofs, FiniteSetTheorems

\* A status patched by MachineReconciler is that of one reconciliation, if the
\* copy it was compared with was the server's; otherwise its event is pending.
LEMMA PatchMachineEffect ==
  ASSUME MachineTypeOK, PatchMachine
  PROVE  /\ machineVersions' \in Seq(MachineObject) /\ Len(machineVersions') >= 1
         /\ machineRec.base = TheMachine => TheMachine' = machineRec.new
         /\ Lag(machineVersions) <= Lag(machineVersions')
<1>. DEFINE base == machineRec.base
            new  == machineRec.new
            v    == [power       |-> Merge(base.power, new.power, TheMachine.power),
                     contactable |-> Merge(base.contactable, new.contactable,
                                           TheMachine.contactable)]
<1>1. TheMachine \in MachineObject
  BY EndsOfWindow DEF MachineTypeOK, TheMachine
<1>2. base \in MachineObject /\ new \in MachineObject
  BY DEF MachineTypeOK, MachineRecord
<1>3. v \in MachineObject /\ (base = TheMachine => v = new)
  BY <1>1, <1>2 DEF MachineObject, Merge
<1>4. machineVersions' = Put(machineVersions, v)
  BY DEF PatchMachine
<1>. HIDE DEF v
<1>5. /\ machineVersions' \in Seq(MachineObject) /\ Len(machineVersions') >= 1
      /\ Latest(machineVersions') = v
  BY <1>3, <1>4, PutWindow DEF MachineTypeOK
<1>6. Lag(machineVersions) <= Lag(machineVersions')
  BY <1>3, <1>4 DEF Put, Lag, MachineTypeOK
<1>. QED
  BY <1>3, <1>5, <1>6 DEF TheMachine

\* What the BMC does to the machine leaves it in one of its power states.
LEMMA PowerChangesType ==
  ASSUME BmcTypeOK,
         BmcSettles \/ \E kind \in ActionKinds : bmc' \in Effects(kind)
  PROVE  BmcTypeOK'
BY DEF BmcTypeOK, Powers, BmcSettles, Effects, ActionKinds, PowerActions

\* Every step of the Machine controller and around it preserves the types.
LEMMA MachineStepType ==
  ASSUME MachineTypeOK, [MachineNext]_machineVars
  PROVE  MachineTypeOK'
<1>. USE DEF MachineTypeOK, MachineRecord
<1>0. /\ IdleMachineRecord \in MachineRecord
      /\ \A text \in ErrorTexts : Unreachable(text) \in MachineObject
      /\ \A raw : Reached(ToPowerState(raw)) \in MachineObject
  BY DEF IdleMachineRecord, NewMachine, Unreachable, Reached, ToPowerState,
         MachineObject
<1>1. Cached(machineVersions) \in MachineObject
  BY EndsOfWindow
<1>a. ASSUME MachineFault PROVE machineFaults' \in 0..MaxFaults
  BY <1>a, MachineAssumption DEF MachineFault
<1>b. NoEcho => echoes' \in 0..(MaxEchoes + 1)
  BY MachineAssumption DEF NoEcho
<1>2. CASE MachineStarts
  <2>1. echoes' \in 0..(MaxEchoes + 1)
    BY <1>2, MachineAssumption DEF MachineStarts, Echo
  <2>. QED
    BY <1>1, <1>2, <2>1 DEF MachineStarts, BmcTypeOK
<1>3. CASE MachineSecretFails
  BY <1>0, <1>b, <1>3 DEF MachineSecretFails, BmcTypeOK
<1>4. CASE MachineUnreachable
  BY <1>0, <1>4 DEF MachineUnreachable, MachineWillReport, BmcTypeOK
<1>5. CASE MachineReadsPower
  <2>1. PICK raw \in Reports : MachineWillReport(Reached(ToPowerState(raw)))
    BY <1>5 DEF MachineReadsPower
  <2>2. Reached(ToPowerState(raw)) \in MachineObject
    BY <1>0
  <2>3. machineRec' \in MachineRecord
    BY <2>1, <2>2 DEF MachineWillReport
  <2>. QED
    BY <2>1, <2>3 DEF MachineWillReport, BmcTypeOK
<1>6. CASE MachinePatches
  BY <1>0, <1>6, PatchMachineEffect DEF MachinePatches, BmcTypeOK
<1>7. CASE MachinePatchFails
  BY <1>0, <1>a, <1>b, <1>7, PatchMachineEffect DEF MachinePatchFails, BmcTypeOK
<1>8. CASE IntervalEnds
  BY <1>8, <1>b DEF IntervalEnds, BmcTypeOK
<1>9. CASE DeliverMachine
  <2>1. Len(machineVersions) >= 2
    BY <1>9 DEF DeliverMachine, Lag
  <2>. QED
    BY <1>9, <2>1, TailWindow DEF DeliverMachine, BmcTypeOK
<1>10. CASE ResyncMachine
  BY <1>10, <1>b DEF ResyncMachine, BmcTypeOK
<1>11. CASE PowerChanges
  BY <1>11, <1>b, PowerChangesType DEF PowerChanges
<1>14. CASE LinkChanges
  BY <1>14, <1>b DEF LinkChanges, BmcTypeOK
<1>12. CASE MachineRestart
  BY <1>0, <1>a, <1>b, <1>12, RelistWindow DEF MachineRestart, BmcTypeOK
<1>13. CASE UNCHANGED machineVars
  BY <1>13 DEF machineVars, BmcTypeOK
<1>. QED
  BY <1>2, <1>3, <1>4, <1>5, <1>6, <1>7, <1>8, <1>9, <1>10, <1>11, <1>12,
     <1>13, <1>14 DEF MachineNext, MachineWork

\* MachineReconciler and its surroundings keep their state of the right type.
THEOREM MachineTypeCorrect == MachineSpec => []MachineTypeOK
<1>a. NewMachine \in MachineObject /\ IdleMachineRecord \in MachineRecord
  BY DEF NewMachine, MachineObject, IdleMachineRecord, MachineRecord
<1>b. <<NewMachine>> \in Seq(MachineObject) /\ Len(<<NewMachine>>) >= 1
  BY <1>a
<1>c. 0 \in 0..MaxFaults /\ 0 \in 0..(MaxEchoes + 1)
  BY MachineAssumption
<1>1. MachineInit => MachineTypeOK
  BY <1>a, <1>b, <1>c DEF MachineInit, MachineTypeOK, BmcInit, BmcTypeOK
<1>. QED
  BY <1>1, MachineStepType, PTL DEF MachineSpec

\* No step of MachineReconciler lets go of the queue with a stale copy in hand.
LEMMA MachineStepReport ==
  ASSUME MachineTypeOK, ReportInv, [MachineNext]_machineVars
  PROVE  ReportInv'
<1>. USE DEF ReportInv, SettledReport, Settled
<1>0. Lag(machineVersions) = 0 => Cached(machineVersions) = TheMachine
  <2>1. /\ Cached(machineVersions) = machineVersions[1]
        /\ TheMachine = machineVersions[Len(machineVersions)]
    BY EndsOfWindow DEF TheMachine, MachineTypeOK
  <2>2. Lag(machineVersions) = 0 => Len(machineVersions) = 1
    BY DEF Lag, MachineTypeOK
  <2>. HIDE DEF ReportInv, SettledReport, Settled
  <2>. QED
    BY <2>1, <2>2
<1>1. /\ \A text \in ErrorTexts : OneReport(Unreachable(text))
      /\ \A raw : OneReport(Reached(ToPowerState(raw)))
  BY DEF OneReport, ToPowerState
<1>k. ASSUME UNCHANGED machineVersions
      PROVE  TheMachine' = TheMachine /\ Lag(machineVersions)' = Lag(machineVersions)
  BY <1>k DEF TheMachine
<1>i. IdleMachineRecord.step = "idle"
  BY DEF IdleMachineRecord
<1>2. CASE MachineStarts
  BY <1>0, <1>2, <1>k DEF MachineStarts
<1>3. CASE MachineSecretFails
  BY <1>3, <1>i DEF MachineSecretFails
<1>4. CASE MachineUnreachable
  BY <1>1, <1>4, <1>k DEF MachineUnreachable, MachineWillReport, MachineTypeOK,
     MachineRecord
<1>5. CASE MachineReadsPower
  BY <1>1, <1>5, <1>k DEF MachineReadsPower, MachineWillReport, MachineTypeOK,
     MachineRecord
<1>6. CASE MachinePatches
  <2>1. /\ machineRec.base = TheMachine => TheMachine' = machineRec.new
        /\ Lag(machineVersions) <= Lag(machineVersions')
        /\ Lag(machineVersions) >= 0
    BY <1>6, PatchMachineEffect DEF MachinePatches, MachineTypeOK, Lag
  <2>2. Lag(machineVersions') = 0 /\ ~machineQueued' => OneReport(TheMachine')
    BY <1>6, <2>1, MachineStepType DEF MachinePatches, Lag, MachineTypeOK
  <2>. QED
    BY <1>6, <1>i, <2>2 DEF MachinePatches, OneReport, Reached, Unreachable
<1>7. CASE MachinePatchFails
  BY <1>7, <1>i DEF MachinePatchFails
<1>8. CASE IntervalEnds
  BY <1>8 DEF IntervalEnds
<1>9. CASE DeliverMachine
  BY <1>9 DEF DeliverMachine
<1>10. CASE ResyncMachine
  BY <1>10 DEF ResyncMachine
<1>11. CASE PowerChanges
  BY <1>11, <1>k DEF PowerChanges
<1>14. CASE LinkChanges
  BY <1>14, <1>k DEF LinkChanges
<1>12. CASE MachineRestart
  BY <1>12, <1>i DEF MachineRestart
<1>13. CASE UNCHANGED machineVars
  BY <1>13, <1>k DEF machineVars
<1>. QED
  BY <1>2, <1>3, <1>4, <1>5, <1>6, <1>7, <1>8, <1>9, <1>10, <1>11, <1>12,
     <1>13, <1>14 DEF MachineNext, MachineWork

\* When no event and no queued name is pending, a reconciliation of the Machine
\* in progress works from the server's copy: the patch of MachineReconciler
\* never mixes its report with an older one that nothing will correct.
THEOREM ReportInvariant == MachineSpec => []ReportInv
<1>1. MachineInit => ReportInv
  BY DEF MachineInit, ReportInv, SettledReport, Settled, IdleMachineRecord
<1>. QED
  BY <1>1, MachineTypeCorrect, MachineStepReport, PTL DEF MachineSpec

\* A settled Machine shows the report of one reconciliation, however late the
\* watch was and whatever failed.
THEOREM SettledMachine == MachineSpec => []SettledReport
<1>1. ReportInv => SettledReport
  BY DEF ReportInv
<1>. QED
  BY <1>1, ReportInvariant, PTL


-----------------------------------------------------------------------------
(***************************************************************************)
(* The controller does not keep waking itself.                             *)
(***************************************************************************)

\* A status has two fields.
LEMMA FieldsCount ==
  /\ IsFiniteSet(WrongFields) /\ Cardinality(WrongFields) \in 0..2
  /\ IsFiniteSet(WrongFields') /\ Cardinality(WrongFields') \in 0..2
<1>. DEFINE fields == {"power", "contactable"}
<1>1. IsFiniteSet({"power"}) /\ Cardinality({"power"}) = 1
  BY FS_Singleton
<1>2. IsFiniteSet({"power"} \cup {"contactable"})
      /\ Cardinality({"power"} \cup {"contactable"}) = 2
  BY <1>1, FS_AddElement
<1>3. fields = {"power"} \cup {"contactable"}
  OBVIOUS
<1>4. IsFiniteSet(fields) /\ Cardinality(fields) = 2
  BY <1>2, <1>3
<1>5. WrongFields \in SUBSET fields /\ WrongFields' \in SUBSET fields
  BY DEF WrongFields
<1>. HIDE DEF fields
<1>6. /\ IsFiniteSet(WrongFields) /\ Cardinality(WrongFields) <= 2
      /\ IsFiniteSet(WrongFields') /\ Cardinality(WrongFields') <= 2
  BY <1>4, <1>5, FS_Subset
<1>. QED
  BY <1>6, FS_CardinalityType

\* With one error text, and the machine at rest, a reconciliation can make one
\* report only.
LEMMA OneAnswer ==
  ASSUME \A s, t \in ErrorTexts : s = t, bmc.power = bmc.heading,
         NEW a \in Answers, NEW b \in Answers
  PROVE  a = b
BY DEF Answers, Reports

\* A patch of that report adds an event only where it corrects a field.
LEMMA PatchCorrects ==
  ASSUME MachineTypeOK, \A s, t \in ErrorTexts : s = t,
         bmc.power = bmc.heading, UNCHANGED <<bmc, link>>,
         PatchMachine, machineRec.new \in Answers
  PROVE  Lag(machineVersions)' + Cardinality(WrongFields)'
           <= Lag(machineVersions) + Cardinality(WrongFields)
<1>. DEFINE base == machineRec.base
            new  == machineRec.new
            v    == [power       |-> Merge(base.power, new.power, TheMachine.power),
                     contactable |-> Merge(base.contactable, new.contactable,
                                           TheMachine.contactable)]
<1>1. TheMachine \in MachineObject /\ new \in MachineObject
  BY EndsOfWindow DEF MachineTypeOK, TheMachine, MachineRecord
<1>2. /\ v \in MachineObject
      /\ \A f \in {"power", "contactable"} : v[f] \in {new[f], TheMachine[f]}
      /\ v # TheMachine =>
           \E f \in {"power", "contactable"} : v[f] # TheMachine[f]
  BY <1>1 DEF MachineObject, Merge, MachineTypeOK, MachineRecord
<1>3. machineVersions' = Put(machineVersions, v)
  BY DEF PatchMachine
<1>. HIDE DEF v
<1>4. TheMachine' = v
  BY <1>2, <1>3, PutWindow DEF MachineTypeOK, TheMachine
<1>5. Answers' = Answers /\ \A a \in Answers : a = new
  BY OneAnswer DEF Answers, Reports
<1>6. WrongFields = {f \in {"power", "contactable"} : TheMachine[f] # new[f]}
  BY <1>5 DEF WrongFields
<1>7. WrongFields' = {f \in {"power", "contactable"} : v[f] # new[f]}
  BY <1>4, <1>5 DEF WrongFields
<1>8. WrongFields' \subseteq WrongFields
  BY <1>2, <1>6, <1>7
<1>9. Cardinality(WrongFields') <= Cardinality(WrongFields)
      /\ (Cardinality(WrongFields') = Cardinality(WrongFields)
            => WrongFields' = WrongFields)
  BY <1>8, FieldsCount, FS_Subset
<1>a. /\ Cardinality(WrongFields) \in Int /\ Cardinality(WrongFields') \in Int
      /\ Lag(machineVersions) \in Int
  BY <1>8, FieldsCount, FS_Subset, FS_CardinalityType DEF Lag, MachineTypeOK
<1>10. CASE v = TheMachine
  <2>1. Lag(machineVersions)' = Lag(machineVersions)
    BY <1>3, <1>10 DEF Put, TheMachine
  <2>. QED
    BY <1>9, <1>a, <2>1
<1>11. CASE v # TheMachine
  <2>1. Lag(machineVersions)' = Lag(machineVersions) + 1
    BY <1>2, <1>3, <1>11 DEF Put, TheMachine, Lag, MachineTypeOK
  <2>2. WrongFields' # WrongFields
    BY <1>2, <1>6, <1>7, <1>11
  <2>. QED
    BY <1>9, <1>a, <2>1, <2>2
<1>. QED
  BY <1>10, <1>11


\* No step around the controller, and none of its own, makes more work than it
\* does.
LEMMA MachineStepEcho ==
  ASSUME MachineTypeOK, EchoInv, \A s, t \in ErrorTexts : s = t,
         [MachineNext]_machineVars
  PROVE  EchoInv'
<1>0. /\ machineVersions \in Seq(MachineObject) /\ Len(machineVersions) >= 1
      /\ MaxLag \in Nat /\ MaxLag >= 1 /\ Lag(machineVersions) <= MaxLag
      /\ Lag(machineVersions) \in Nat /\ machineQueued \in BOOLEAN
      /\ echoes \in Nat
  BY MachineAssumption DEF MachineTypeOK, EchoInv, Lag
<1>a. ASSUME NoEcho, Lag(machineVersions)' <= MaxLag
      PROVE  EchoInv'
  BY <1>a DEF EchoInv, NoEcho
<1>b. ASSUME PatchMachine
      PROVE  Lag(machineVersions)' <= MaxLag
  BY <1>0, <1>b DEF PatchMachine, Put, Lag
<1>c. ASSUME UNCHANGED <<machineVersions, bmc, link>>
      PROVE  /\ Lag(machineVersions)' = Lag(machineVersions)
             /\ Cardinality(WrongFields)' = Cardinality(WrongFields)
             /\ Answers' = Answers
  BY <1>c DEF WrongFields, Answers, Reports, TheMachine
<1>1. CASE MachineStarts
  <2>1. /\ Lag(machineVersions)' = Lag(machineVersions)
        /\ Cardinality(WrongFields)' = Cardinality(WrongFields)
        /\ machineQueued = TRUE /\ machineQueued' = FALSE
        /\ machineRec'.step = "got" /\ bmc' = bmc
    BY <1>1, <1>c DEF MachineStarts
  <2>2. CASE bmc.power # bmc.heading
    BY <1>0, <1>1, <2>1, <2>2 DEF MachineStarts, Echo, EchoInv
  <2>3. CASE bmc.power = bmc.heading
    <3>1. echoes' \in {echoes, echoes + 1}
      BY <1>1, <2>3 DEF MachineStarts, Echo
    <3>2. Cardinality(WrongFields) \in 0..2
      BY FieldsCount
    <3>3. echoes' + 0 + Lag(machineVersions) + Cardinality(WrongFields) <= MaxLag + 3
      BY <1>0, <2>1, <3>1, <3>2 DEF EchoInv
    <3>. QED
      BY <1>0, <2>1, <2>3, <3>3 DEF EchoInv
  <2>. QED
    BY <2>2, <2>3
<1>2. CASE MachineUnreachable \/ MachineReadsPower
  <2>1. /\ UNCHANGED <<machineVersions, machineQueued, echoes, link, bmc>>
        /\ machineRec'.new \in Answers
    <3>1. CASE MachineUnreachable
      <4>1. PICK text \in ErrorTexts : MachineWillReport(Unreachable(text))
        BY <3>1 DEF MachineUnreachable
      <4>. QED
        BY <3>1, <4>1 DEF MachineUnreachable, MachineWillReport, Answers,
           MachineTypeOK, MachineRecord
    <3>2. CASE MachineReadsPower
      <4>1. PICK raw \in Reports : MachineWillReport(Reached(ToPowerState(raw)))
        BY <3>2 DEF MachineReadsPower
      <4>. QED
        BY <3>2, <4>1 DEF MachineReadsPower, MachineWillReport, Answers,
           MachineTypeOK, MachineRecord
    <3>. QED
      BY <1>2, <3>1, <3>2
  <2>. QED
    BY <1>0, <1>c, <2>1 DEF EchoInv
<1>3. CASE MachinePatches
  <2>1. /\ UNCHANGED <<machineQueued, echoes, link, bmc>> /\ PatchMachine
        /\ machineRec.step = "patch" /\ machineRec'.step = "idle"
    BY <1>3 DEF MachinePatches, IdleMachineRecord
  <2>2. CASE echoes > 0
    <3>1. Lag(machineVersions)' + Cardinality(WrongFields)'
            <= Lag(machineVersions) + Cardinality(WrongFields)
      BY <2>1, <2>2, PatchCorrects DEF EchoInv
    <3>2. /\ Cardinality(WrongFields) \in Nat /\ Cardinality(WrongFields)' \in Nat
          /\ Lag(machineVersions)' \in Int
      <4>1. MachineTypeOK'
        BY MachineStepType
      <4>. QED
        BY <4>1, FieldsCount DEF Lag, MachineTypeOK
    <3>. QED
      BY <1>0, <1>b, <2>1, <2>2, <3>1, <3>2 DEF EchoInv
  <2>3. CASE ~(echoes > 0)
    BY <1>b, <2>1, <2>3 DEF EchoInv
  <2>. QED
    BY <2>2, <2>3
<1>4. CASE DeliverMachine
  <2>1. Len(machineVersions) >= 2
    BY <1>0, <1>4 DEF DeliverMachine, Lag
  <2>2. /\ Lag(machineVersions)' = Lag(machineVersions) - 1
        /\ TheMachine' = TheMachine
    BY <1>0, <1>4, <2>1, TailWindow DEF DeliverMachine, Lag, TheMachine
  <2>3. /\ Cardinality(WrongFields)' = Cardinality(WrongFields)
        /\ Answers' = Answers
    BY <1>4, <2>2 DEF DeliverMachine, WrongFields, Answers, Reports
  <2>4. Cardinality(WrongFields) \in 0..2
    BY FieldsCount
  <2>. QED
    BY <1>0, <1>4, <2>2, <2>3, <2>4 DEF DeliverMachine, EchoInv
<1>5. CASE MachineRestart
  <2>1. Lag(machineVersions)' = 0
    BY <1>0, <1>5 DEF MachineRestart, Relist, Lag
  <2>. QED
    BY <1>0, <1>5, <1>a, <2>1 DEF MachineRestart
<1>6. CASE MachinePatchFails
  BY <1>0, <1>6, <1>a, <1>b DEF MachinePatchFails
<1>7. CASE MachineSecretFails \/ IntervalEnds \/ ResyncMachine \/ PowerChanges
           \/ LinkChanges
  <2>1. NoEcho /\ Lag(machineVersions)' = Lag(machineVersions)
    BY <1>7 DEF MachineSecretFails, IntervalEnds, ResyncMachine, PowerChanges,
       LinkChanges
  <2>. QED
    BY <1>0, <1>a, <2>1
<1>8. CASE UNCHANGED machineVars
  BY <1>8, <1>c DEF machineVars, EchoInv
<1>. QED
  BY <1>1, <1>2, <1>3, <1>4, <1>5, <1>6, <1>7, <1>8 DEF MachineNext, MachineWork

\* The potential that MachineReconciler's patches use up, when a lost BMC fails
\* with one text (with more, each failure may be an event).
THEOREM EchoInvariant ==
  ASSUME \A s, t \in ErrorTexts : s = t
  PROVE  MachineSpec => []EchoInv
<1>1. MachineInit => EchoInv
  BY MachineAssumption DEF MachineInit, EchoInv, Lag
<1>. QED
  BY <1>1, MachineTypeCorrect, MachineStepEcho, PTL DEF MachineSpec

\* At most MaxLag + 3 reconciliations of the Machine follow one another with
\* nothing happening around the controller: then it waits for its interval.
THEOREM SoonQuiet ==
  ASSUME \A s, t \in ErrorTexts : s = t, MaxEchoes >= MaxLag + 3
  PROVE  MachineSpec => []NoHotLoop
<1>1. MachineTypeOK /\ EchoInv => NoHotLoop
  <2>. SUFFICES ASSUME MachineTypeOK, EchoInv PROVE echoes <= MaxEchoes
    BY DEF NoHotLoop
  <2>1. /\ echoes \in Nat /\ Lag(machineVersions) \in Nat
        /\ Cardinality(WrongFields) \in 0..2
        /\ MaxLag \in Nat /\ MaxEchoes \in Nat
    BY FieldsCount, MachineAssumption DEF MachineTypeOK, Lag
  <2>. QED
    BY <2>1 DEF EchoInv
<1>. QED
  BY <1>1, MachineTypeCorrect, EchoInvariant, PTL
=============================================================================
