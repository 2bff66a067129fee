------------------------- MODULE MachineController -------------------------
(***************************************************************************)
(* MachineReconciler (controller/machine.go) and one Machine: every three  *)
(* minutes, and whenever an event asks for it, the reconciler asks the BMC *)
(* for the power state and writes what it learnt into the Machine's        *)
(* status.  It never acts on the machine; Tasks, and people, do.           *)
(***************************************************************************)
EXTENDS KubeStore, Bmc, FiniteSets

CONSTANTS
  ErrorTexts, \* what the errors of a BMC that cannot be reached may say
  MaxLag,     \* bound: undelivered watch events of the Machine
  MaxFaults,  \* bound: failed calls and crashes in a behaviour
  MaxEchoes   \* bound: where the count of echoes stops

ASSUME MachineAssumption ==
  /\ ErrorTexts \cap {"none", "True"} = {}
  /\ MaxLag \in Nat \ {0} /\ MaxFaults \in Nat /\ MaxEchoes \in Nat

\* Machine.Status: the power state ("none" before the first report) and the
\* condition Contactable: True, or False with the error's text as its message.
MachineObject == [power : {"none", "on", "off", "unknown"},
                  contactable : {"none", "True"} \cup ErrorTexts]

NewMachine        == [power |-> "none", contactable |-> "none"]
Unreachable(text) == [power |-> "unknown", contactable |-> text]
Reached(power)    == [power |-> power, contactable |-> "True"]

\* How the Machine's BMC is connected: its Secret may be missing, its client
\* or its GetPowerState may fail.
Links == {"up", "noSecret", "down"}

VARIABLES
  machineVersions,   \* the window of the Machine
  machineQueued,     \* the Machine is in the controller's queue
  machineDelayed,    \* it will be again when machineRequeueInterval has passed
  machineFaults,     \* how many calls and processes have failed so far
  machineRec,        \* the reconciliation in progress
  link,              \* the state of the connection
  echoes             \* reconciliations since anything happened around the
                     \* controller (history, read by no action)

machineVars == <<machineVersions, machineQueued, machineDelayed,
                 machineFaults, machineRec, link, echoes, bmc>>

MachineRecord == [step : {"idle", "got", "patch"},
                  base : MachineObject, new : MachineObject]

IdleMachineRecord == [step |-> "idle", base |-> NewMachine, new |-> NewMachine]

TheMachine == Latest(machineVersions)

\* The Machine's status, as MachineReconciler writes it, is one the API accepts:
\* toPowerState leaves no other power state than on, off and unknown.
MachineTypeOK ==
  /\ machineVersions \in Seq(MachineObject) /\ Len(machineVersions) >= 1
  /\ machineQueued \in BOOLEAN /\ machineDelayed \in BOOLEAN
  /\ machineFaults \in 0..MaxFaults
  /\ machineRec \in MachineRecord
  /\ link \in Links
  /\ echoes \in 0..(MaxEchoes + 1)
  /\ BmcTypeOK

MachineInit ==
  /\ machineVersions = <<NewMachine>>
  /\ machineQueued = TRUE /\ machineDelayed = FALSE
  /\ machineFaults = 0
  /\ machineRec = IdleMachineRecord
  /\ link \in Links
  /\ echoes = 0
  /\ BmcInit

MachineFault == /\ machineFaults < MaxFaults
                /\ machineFaults' = machineFaults + 1

PatchMachine ==
  LET base == machineRec.base
      new  == machineRec.new IN
  /\ Lag(machineVersions) < MaxLag
  /\ machineVersions' = Put(machineVersions,
       [power       |-> Merge(base.power, new.power, TheMachine.power),
        contactable |-> Merge(base.contactable, new.contactable,
                              TheMachine.contactable)])

(***************************************************************************)
(* One reconciliation.                                                     *)
(***************************************************************************)
\* While the machine is on its way its reports may differ: not counted.
Echo == echoes' = CASE bmc.power # bmc.heading -> 0
                    [] echoes > MaxEchoes -> echoes
                    [] OTHER -> echoes + 1

NoEcho == echoes' = 0

MachineStarts ==
  /\ machineRec.step = "idle" /\ machineQueued
  /\ machineQueued' = FALSE
  /\ machineRec' = [step |-> "got", base |-> Cached(machineVersions),
                    new |-> Cached(machineVersions)]
  /\ Echo
  /\ UNCHANGED <<machineVersions, machineDelayed, machineFaults, link, bmc>>

\* A Secret cannot be read: nothing is patched.
MachineSecretFails ==
  /\ machineRec.step = "got" /\ link = "noSecret"
  /\ machineQueued' = TRUE
  /\ machineRec' = IdleMachineRecord
  /\ NoEcho
  /\ UNCHANGED <<machineVersions, machineDelayed, machineFaults, link, bmc>>

MachineWillReport(status) ==
  /\ machineRec' = [machineRec EXCEPT !.step = "patch", !.new = status]
  /\ UNCHANGED <<machineVersions, machineQueued, machineDelayed,
                 machineFaults, link, echoes, bmc>>

\* Mutants of MachineUnreachable: the power state is left as it was; the error
\* is returned before the status is patched.
MachineUnreachableOnly ==
  /\ machineRec.step = "got" /\ link = "down"
  /\ \E text \in ErrorTexts :
       MachineWillReport([machineRec.base EXCEPT !.contactable = text])
MachineUnreachableSilently ==
  /\ machineRec.step = "got" /\ link = "down"
  /\ machineQueued' = TRUE
  /\ machineRec' = IdleMachineRecord
  /\ NoEcho
  /\ UNCHANGED <<machineVersions, machineDelayed, machineFaults, link, bmc>>

\* The BMC client cannot be opened, or its GetPowerState fails.
MachineUnreachable ==
  /\ machineRec.step = "got" /\ link = "down"
  /\ \E text \in ErrorTexts : MachineWillReport(Unreachable(text))

MachineReadsPower ==
  /\ machineRec.step = "got" /\ link = "up"
  /\ \E raw \in Reports : MachineWillReport(Reached(ToPowerState(raw)))

\* Mutants of MachinePatches: no RequeueAfter; a requeue at once instead.
MachinePatchesOnce ==
  /\ machineRec.step = "patch"
  /\ PatchMachine
  /\ machineRec' = IdleMachineRecord
  /\ UNCHANGED <<machineQueued, machineDelayed, machineFaults, link, echoes,
                 bmc>>
MachinePatchesAndRequeues ==
  /\ machineRec.step = "patch"
  /\ PatchMachine
  /\ machineQueued' = TRUE
  /\ machineRec' = IdleMachineRecord
  /\ UNCHANGED <<machineDelayed, machineFaults, link, echoes, bmc>>

\* Patched or not, the Machine comes back: after the interval, or sooner.
MachinePatches ==
  /\ machineRec.step = "patch"
  /\ PatchMachine
  /\ machineDelayed' = TRUE
  /\ machineRec' = IdleMachineRecord
  /\ UNCHANGED <<machineQueued, machineFaults, link, echoes, bmc>>

\* Mutant of MachinePatchFails: the error does not requeue.
MachinePatchFailsQuietly ==
  /\ machineRec.step = "patch"
  /\ MachineFault
  /\ UNCHANGED machineVersions \/ PatchMachine
  /\ machineRec' = IdleMachineRecord
  /\ NoEcho
  /\ UNCHANGED <<machineQueued, machineDelayed, link, bmc>>

MachinePatchFails ==
  /\ machineRec.step = "patch"
  /\ MachineFault
  /\ UNCHANGED machineVersions \/ PatchMachine
  /\ machineQueued' = TRUE
  /\ machineRec' = IdleMachineRecord
  /\ NoEcho
  /\ UNCHANGED <<machineDelayed, link, bmc>>

MachineWork ==
  \/ MachineStarts
  \/ MachineSecretFails \/ MachineUnreachable \/ MachineReadsPower
  \/ MachinePatches

(***************************************************************************)
(* What happens around it.                                                 *)
(***************************************************************************)
IntervalEnds ==
  /\ machineDelayed
  /\ machineDelayed' = FALSE
  /\ machineQueued' = TRUE
  /\ NoEcho
  /\ UNCHANGED <<machineVersions, machineFaults, machineRec, link, bmc>>

DeliverMachine ==
  /\ Lag(machineVersions) > 0
  /\ machineVersions' = Tail(machineVersions)
  /\ machineQueued' = TRUE
  /\ UNCHANGED <<machineDelayed, machineFaults, machineRec, link, echoes, bmc>>

\* A resync, or an event of the spec.
ResyncMachine ==
  /\ machineQueued' = TRUE
  /\ NoEcho
  /\ UNCHANGED <<machineVersions, machineDelayed, machineFaults, machineRec,
                 link, bmc>>

\* A Task, or somebody else, acts on the machine, or it gets where it was sent.
PowerChanges ==
  /\ BmcSettles \/ \E kind \in ActionKinds : bmc' \in Effects(kind)
  /\ NoEcho
  /\ UNCHANGED <<machineVersions, machineQueued, machineDelayed,
                 machineFaults, machineRec, link>>

\* A Secret is deleted or restored, the BMC lost or found again.
LinkChanges ==
  /\ link' \in Links
  /\ NoEcho
  /\ UNCHANGED <<machineVersions, machineQueued, machineDelayed,
                 machineFaults, machineRec, bmc>>

MachineRestart ==
  /\ MachineFault
  /\ machineVersions' = Relist(machineVersions)
  /\ machineQueued' = TRUE /\ machineDelayed' = FALSE
  /\ machineRec' = IdleMachineRecord
  /\ NoEcho
  /\ UNCHANGED <<link, bmc>>

MachineNext ==
  \/ MachineWork \/ MachinePatchFails
  \/ IntervalEnds \/ DeliverMachine \/ ResyncMachine
  \/ PowerChanges \/ LinkChanges \/ MachineRestart

MachineSpec == MachineInit /\ [][MachineNext]_machineVars

\* The controller's workers run, the watch delivers, the clock goes on.
MachineFairSpec ==
  /\ MachineSpec
  /\ WF_machineVars(MachineWork)
  /\ WF_machineVars(IntervalEnds)
  /\ WF_machineVars(DeliverMachine)

(***************************************************************************)
(* Properties.                                                             *)
(***************************************************************************)

\* Whatever stale copies MachineReconciler worked from and whatever failed, a
\* machine that comes to rest and can be reached is in the end reported as
\* what it is: the condition, a list patched whole, and the power, a field of
\* its own, are both repaired once they disagree.
StatusConverges ==
  \A b \in {p \in Powers : p.power = p.heading} :
    <>[](bmc = b /\ link = "up") => <>[](TheMachine = Reached(b.power))

\* A BMC that is lost for good is in the end reported lost, and its machine's
\* power unknown, however the connection came and went before: MachineReconciler
\* patches a status even when it could not open its client.
LossIsReported ==
  <>[](link = "down") =>
    <>[](\E text \in ErrorTexts : TheMachine = Unreachable(text))

\* When there is nothing left to do, power and Contactable tell of the same
\* reconciliation (Contactable is False just when the power is unknown because
\* nobody answered), although each is patched only if it differs from a copy
\* that may have been stale.
Settled == /\ Lag(machineVersions) = 0
           /\ machineRec.step = "idle" /\ ~machineQueued

OneReport(status) ==
  \/ \E text \in ErrorTexts : status = Unreachable(text)
  \/ \E p \in {"on", "off", "unknown"} : status = Reached(p)

SettledReport == Settled => OneReport(TheMachine)

\* MachineReconciler does not keep waking itself: its patches are events of the
\* Machine it watches, but reconciling what it reported changes nothing, so that
\* it soon waits for its interval.
NoHotLoop == echoes <= MaxEchoes

\* What makes SettledReport inductive: the reconciler's copy is stale only
\* while an event, or the queue, still holds the promise of another
\* reconciliation.
ReportInv ==
  /\ SettledReport
  /\ machineRec.step = "patch" => OneReport(machineRec.new)
  /\ Lag(machineVersions) = 0 /\ machineRec.step # "idle" /\ ~machineQueued
       => machineRec.base = TheMachine


\* What a reconciliation that reads the BMC now reports.
Answers ==
  CASE link = "up"   -> {Reached(ToPowerState(raw)) : raw \in Reports}
    [] link = "down" -> {Unreachable(text) : text \in ErrorTexts}
    [] OTHER         -> {}

\* The fields of the status that such a report would correct.
WrongFields == {f \in {"power", "contactable"} :
                  \E status \in Answers : TheMachine[f] # status[f]}

\* What makes NoHotLoop inductive: with nothing happening around it, every
\* reconciliation uses up an event or the place in the queue, and every event
\* that a patch adds, a wrong field of the status.
EchoInv ==
  /\ Lag(machineVersions) <= MaxLag
  /\ echoes > 0 =>
       /\ bmc.power = bmc.heading
       /\ machineRec.step = "patch" => machineRec.new \in Answers
       /\ echoes + (IF machineQueued THEN 1 ELSE 0) + Lag(machineVersions)
            + Cardinality(WrongFields) <= MaxLag + 3
=============================================================================
