# Rufio in TLA+

Rufio is a Kubernetes controller that manages machines through their baseboard
management controllers (BMCs). A *Machine* names a BMC, a *Job* lists actions
for one Machine, and a *Task* is one of those actions, created by the Job
controller and executed by the Task controller. These modules model the three
controllers, the caches and queues they work from, and the BMC they talk to.
TLC checks them on small instances; TLAPS proves the safety properties of all of
them, and the refinement, for every number of Tasks, every list of actions and
every bound.

## 1. Inventory

| Component | State it keeps | Operations | Talks to |
|---|---|---|---|
| Job controller (`controller/job.go`) | none of its own: the Job's status (conditions Running, Completed, Failed; StartTime, CompletionTime) | read the Job, look up the Machine, list the owned Tasks, create the next Task, patch the Job's status | API server; woken by events of Jobs and of the Tasks they own |
| Task controller (`controller/task.go`) | the Task's status (conditions Completed, Failed; StartTime, CompletionTime) | read the Task, get Secrets, open a BMC client, perform the action or check on it, time out after ten minutes, patch the status | API server, BMC; woken by events of Tasks, `RequeueAfter` and errors |
| Machine controller (`controller/machine.go`) | the Machine's status (power state, condition Contactable) | read the Machine, get Secrets, ask the BMC, patch the status, come back after three minutes | API server, BMC |
| API types (`api/v1alpha1`) | the objects | SetCondition, HasCondition, FormatTaskName | used by all |
| Helpers (`controller/kube.go`) | none | resolveAuthSecretRef, toPowerState | Task and Machine controllers |
| BMC client factory (`controller/client.go`) | none; the Secrets read so far for one connection | read the Secrets of the login or of each HMAC algorithm one by one, translate options, open a client within a timeout | API server, bmclib |
| Manager (`main.go`) | one cache per kind, one work queue per controller | start, stop | controller-runtime |
| API server, informers, garbage collector, BMC (external) | the objects; what the cache has seen of them; the machine's power | accept writes, deliver events, resync, relist, collect what a deleted Job owned; change power | |

The controllers never call one another. The Job controller learns of a Task
through the watch, the Task controller of a Job's progress through the Task it
created. What makes this hard:

- **Reads are late, writes are not.** `client.Get` and `client.List` answer
  from an informer cache; `Create` and `Status().Patch` go to the server. A
  reconciler that has just written may read the state from before its write.
- **Patches overwrite.** `client.MergeFrom` sends, without a resource version,
  each field that differs from the copy that was read; the conditions are one
  such field.
- **Several calls, one outcome.** A Task is created and then the Job patched;
  an action is sent and then the Task patched. The process may stop in between,
  and each call may fail before or after it took effect.
- **Errors after success.** Several paths patch a verdict and then return an
  error, so that the key is reconciled again at once, from a cache that may not
  hold the verdict.
- **Wake-ups.** A Job with an outstanding Task returns without a requeue; a
  Task that has sent its action does too. Each relies on the other's event.
- **Names outlive objects.** Owned Tasks are found by their owner's name, and a
  status is patched by name; a Job may be deleted and another created under it.
- **One machine, many Jobs.** Nothing keeps the Tasks of two Jobs apart.
- **Time.** Power changes take a while, a BMC may report the change in
  progress, and a Task fails ten minutes after its start.

What makes each component correct: the Job controller executes one Task after
the other and decides the Job only as its Tasks justify; the Task controller
sends an action in its turn and completes a Task only when the machine is where
it should be; the Machine controller's report is coherent and in the end true;
a BMC client is opened only with all it needs.
`PROJECT.json` lists the places where this could go wrong (`hazards`) with the
properties that would show it.

## 2. Modules

| Module | Models | Extends |
|---|---|---|
| `KubeStore` | one kind of object: the versions from the one in the cache to the one on the server; writes, events, relist, merge patch | |
| `Cluster` | a Job and its Tasks on the server and in the caches, the two queues, the watches that fill them, failed calls | `KubeStore` |
| `JobController` | `JobReconciler` | `Cluster` |
| `Bmc` | power of a machine, what actions do to it, what it reports; `toPowerState` | |
| `TaskController` | `TaskReconciler` | `Cluster`, `Bmc` |
| `Rufio` | both controllers together, restarts of the manager, fairness, the properties | the two controllers |
| `SequentialJob` | abstract: what `JobSpec` promises | |
| `RufioInvariants` | the inductive invariants | `Rufio` |
| `MCRufio` | lists of actions for TLC | `RufioInvariants` |
| `MachineController` | `MachineReconciler` with its surroundings (Secret and BMC that come and go) and properties | `KubeStore`, `Bmc` |
| `JobLifecycle` | Jobs deleted, created again under the same name and edited; the owner index, the garbage collector, reconciliations that outlive their Job | `KubeStore` |
| `TwoJobs`, `MCTwoJobs` | two Jobs over one machine: two instances of `Rufio` that share the variable `bmc` | `INSTANCE FreshProofs` twice: `Rufio` with what is proved of one Job |
| `BmcClient`, `MCBmcClient` | reading Secrets for a connection, translating its options, opening and closing the client | |
| `KubeStoreProofs` | lemmas about windows | `KubeStore` |
| `RufioProofs`, `AcceptedProofs` | theorems of `Spec`, with late watches | `RufioInvariants`, `RufioProofs` |
| `FreshProofs` | theorems of `FreshSpec`, where caches keep up; the refinement | `AcceptedProofs` |
| `TwoJobsProofs` | theorems of `TwoSpec` | `TwoJobs` |
| `MachineProofs`, `LifecycleProofs`, `ClientProofs` | theorems of `MachineController`, `JobLifecycle`, `BmcClient` | those modules |

### How state corresponds to code

- A *window* `<<v1, ..., vn>>` is one kind's history that still matters: `v1` is
  in the cache, `vn` on the server. All Tasks share one window, since one watch
  delivers them; Jobs have their own, so a Job controller may see a new Task and
  an old Job or the other way round.
- `jobRec` and `taskRec[i]` are reconciliations in progress: where they are
  (`step`), the copy they read (`base`, what `MergeFrom` was given) and the copy
  they changed in memory (`new`). The work queue never runs one key twice at a
  time, so one record for each key is enough. Different Tasks may be reconciled
  at once, a superset of the default `max-concurrent-reconciles=1`.
- A condition is in `conds` when its status is True; neither controller writes
  any other status for a Job or a Task. A Job's StartTime is left out: it is
  written exactly with Running and nothing reads it. A Task's is `started`, and
  its age is the set `expired`: a Task joins it when ten minutes have passed and
  leaves it when a patch writes a fresh StartTime.
- `accepted`, `repeated` and `lastRun` record the calls to the BMC for the
  properties; no action reads them. Neither does any read `echoes`
  (`MachineController`: reconciliations since something happened around the
  controller), `ran` (`JobLifecycle`), `lastSender` (`TwoJobs`) or `seen`
  (`BmcClient`: the values a Secret has had since the reconciliation began).
- In `MachineController`, `link` says whether the connection works (`"up"`), its
  Secret is missing or its BMC does not answer; the condition Contactable is
  True or False with one of `ErrorTexts` as its message.
- In `JobLifecycle` a Job is a UID under one name, with the length of its list
  of Tasks; a Task carries the UID in its controller reference. A reconciliation
  keeps the Job it read. `patient` is chosen once: whether users wait until
  nothing is left of a Job (no Task, no event, no reconciliation) before they
  create the next, and leave specs alone. The garbage collector compares UIDs;
  the owner reference does not block its owner's deletion, so a Job deleted in
  the foreground may go before its Tasks.
- In `BmcClient` a setting is abstracted to who has the last word on it: the
  user, Rufio's defaults, or bmclib. A Secret is its keys and a value.

### How actions correspond to code

A reconciliation is split exactly where somebody else can act in between:

| Code | Actions |
|---|---|
| `JobReconciler.Reconcile`, up to `doReconcile`'s Running | `JobIgnored`, `JobStarts` |
| `getMachine`, `List` and the loop | `JobLookupFails`, `JobWaits`, `JobSeesFailure`, `JobCompletes`, `JobPicksNext` |
| `createTaskWithOwner` | `JobCreatesTask`, `JobCreateConflicts`, `JobCreateFails` |
| `patchStatus` | `JobPatches`, `JobPatchFails` |
| `TaskReconciler.Reconcile` | `TaskIgnored`, `TaskStarts` |
| Secrets, client factory | `TaskSecretFails`, `TaskConnectFails` |
| `StartTime` set: timeout, `checkTaskStatus` | `TaskTimesOut`, `TaskCheckFails`, `TaskStillPending`, `TaskCompletes` |
| new run: `runTask` | `TaskRuns`, `TaskRunFails` |
| `patchStatus` | `TaskPatches`, `TaskPatchFails` |
| `MachineReconciler` | `MachineStarts`, `MachineSecretFails`, `MachineUnreachable`, `MachineReadsPower`, `MachinePatches`, `MachinePatchFails` |
| `TaskOwnerIndexFunc`, and `createTaskWithOwner` out of range (`JobLifecycle`) | `Listed`; `JobPanics`: controller-runtime recovers the panic, which then counts as an error |
| `patchStatus` of a Job or Task that is gone (`JobLifecycle`) | `JobPatchFindsNone`, `TaskPatches` |
| `resolveAuthSecretRef`, `retrieveHMACSecrets` (`BmcClient`) | `AuthSecretRead`, `AuthSecretFails`, `HmacSecretRead`, `HmacSecretFails`, `HmacSecretsRead` |
| `NewClientFunc`, `Translate`, `translateRPC` (`BmcClient`) | `Opens`, `OpenFails`, `Closes`; `Setting`, `AmtPort` |

The loop over the listed Tasks stops at the first Task that is not Completed.
A list from the cache has no order, so if there are both failed and outstanding
Tasks either may be met first: `JobSeesFailure` and `JobWaits` are then both
possible. `Restart` is the death of the manager and its start: records and
queues are lost, caches are filled by a list, and every listed object enqueued.

## 3. Runs

| Run | Specification and bounds | Checks |
|---|---|---|
| `stale` | `Spec`; 2 Tasks (off, on), 2 events late per kind, 1 fault | `TypeOK`, `OneAtATime`, `CompletedMeansAccepted`, `OneVerdict`, `ActionsInOrder`, and `IndInv`, the inductive invariant |
| `fresh` | `FreshFairSpec`; 3 Tasks (off, boot device, on), 2 faults | `KeepsPromise` (refines `SequentialJob`), `JobVerdictFinal`, `FailureHasCause`, `SentOnce`, `ActionsWaitForPower`, `PowerAsAsked`, `JobSucceeds`, and `FreshInv`, `PowerInv`, inductive |
| `liveness` | `FairSpec`; 2 Tasks, 1 event late, 1 fault | `JobEnds` |
| `machine` | `MachineFairSpec`; 2 events late, 2 faults, all transitional states | `MachineTypeOK`, `SettledReport`, `NoHotLoop`, `StatusConverges`, `LossIsReported`, and `ReportInv`, `EchoInv`, inductive |
| `lifecycle` | `LifeFairSpec`; up to 2 Tasks, 1 event late, 2 Jobs of patient users or 1 of others | `LifeTypeOK`, `PatienceSuffices`, `NeverOutOfRange`, `FailsForItsOwn`, `LeavesNothing`, and `LifeInv`, inductive |
| `two_jobs` | `TwoFairSpec`; one Job on and boot device, the other off, caches that keep up | `LastWord`, `SomebodyCompletes`, `BothKeepPromise` (each refines `SequentialJob`), and `TwoInv`, inductive |
| `client` | `ConnSpec`; 2 Secrets of 2 values, 2 HMAC algorithms, 1 optional field, 5 ports | `EverySecretCounts`, `NeverAnonymous`, `SignatureCoversTimestamp`, `AmtPortAsAsked`, and `ConnInv`, inductive |

`Spec` lets watches be as late as the bound. `FreshSpec` lets a reconciler take
a step only when both caches are up to date: it separates what is true of the
reconcilers from what depends on the watches keeping up. The two sets of
properties are different because late watches do break the second set, which the
following runs show.

`lifecycle` says what keeps Jobs of one name apart: that users wait. Each part
of `NothingLeft` is needed: without the Tasks, the events, or the
reconciliations in progress in it, TLC finds one of the properties violated.
`LeavesNothing` needs no patience: a Task created after its Job's deletion
names an owner that is gone, and is collected. In `two_jobs` a completed Job
need not find the machine as it left it (see below); what remains is that
whoever sent the last action *on the power* has what it asked for. The last
action of any kind will not do: a Job that switches the machine on and then sets
its boot device may send the latter after the other Job has switched the machine
off, and is Completed with the machine off.

Runs that find a counterexample to what the repository says of itself:

| Run | Says | TLC finds |
|---|---|---|
| `outstanding` | `job_test.go:108`, "re-reconciling a job does nothing given the task is still outstanding" | the Job controller is woken before the Task it created is in its cache, tries to create it again, gets AlreadyExists and fails the Job, while the Task is executed |
| `job_noop` | `job.go:78`, "Job is Completed or Failed is noop" | a reconciliation that read the Job before its verdict replaces the list of conditions: a Failed Job goes on |
| `one_off` | `docs/README.md:70`, "a single one-off action" | an action is sent again after a restart, or a failed patch, between `runTask` and `patchStatus` |
| `transient` | `docs/README.md:91`, "ensures the action was completed" | `PoweringOn` contains "on": Tasks, and the Job, are completed while the machine is in the other state |
| `recreate` | `api/v1alpha1/job.go:55`, "Completed is set only if all the tasks were successful" | a Job is deleted and created again at once: the Tasks of the first, found by the owner's name, count for the second, which is Completed although none of its actions was sent |

Further differences between what the repository says and what the code does,
which take no run to see:

- "Task is Completed or Failed is noop" (`task.go:76`) fails as `job_noop` does.
- `docs/README.md:64` has a Job marked Running before its first Task is created;
  `doReconcile` patches the status after `createTaskWithOwner`, so the first
  action may be sent before.
- "Contactable defines that a connection can be made" (`api/v1alpha1/machine.go:37`):
  while a Secret cannot be read, `doReconcile` returns before it patches
  anything, and the last report stands.
- `machineRequeueInterval` "should only be used when the power state was
  successfully retrieved" (`machine.go:49`); it is used after failures too.
- An error's text becomes the condition's message. `NoHotLoop` assumes that a BMC
  that cannot be reached always says the same; when texts differ (a port, a
  duration), every patch is an event that wakes the reconciler at once. Set
  `ErrorTexts = {"timeout", "refused"}` in `machine.cfg` to see it.
- `checkTaskStatus` does not wait for a cycle or a reset. The list cycle, soft,
  on has its soft power off found done while the machine is off for the cycle,
  and the next action is sent although the machine is on its way to on: with
  `Action = <<"cycle", "soft", "on">>` in `fresh`, TLC finds `ActionsWaitForPower`
  violated, and the theorem about it has a hypothesis that excludes such lists.
- A list of Tasks edited while a reconciliation works from the old one
  (`EditSpec`) may be Completed without its new Tasks; nothing makes it immutable.
- A Job need not "bring a machine to a desired state" (`docs/README.md:5`) when
  another Job acts on the same machine: the machine is looked at when a Task is
  checked, not when the Job is completed.
- `mergo.WithOverride` (`client.go:136`) lets Rufio's defaults win over a user's
  TimestampHeader, HeaderName and IncludedPayloadHeaders: they have no effect.
- `LogNotificationsDisabled`, `Connection.Port` and `InsecureTLS` are read by no
  code; an HMAC Secret without the key `secret` counts as the empty string.

### Mutants

For every property of a passing run the modules hold a *mutant* of a definition:
the same operation with a mistake somebody could make in the code (a terminal
Job reconciled again, an error that is swallowed, a missing requeue, a Task
counted as completed once it is started). Each mutant stands before the
definition it varies, no specification uses it, and `PROJECT.json` says which
property it breaks when it takes the definition's place: the properties do
depend on the code.

### Bounds

`MaxLag` bounds how many events of a kind are undelivered, `MaxFaults` how many
calls fail and processes die in a behaviour. A write is disabled while its
window is full; a delivery then makes room, so nothing is stuck. Two events
late are what the stale scenarios need: a reconciler that misses both its own
last write and the one before. Two Tasks are enough for one to overtake the
other; three, with an unchecked action in the middle, let the refinement and
the power properties meet a first, a middle and a last Task. One fault anywhere
covers every partial failure and every restart once, two cover a failure during
recovery. Resyncs are not bounded.

`MaxEchoes = 5` is the largest number of reconciliations the Machine controller
makes of its own accord with events two late, `MaxLag + 3` (theorem
`SoonQuiet`); `NoHotLoop` fails at 4. In
`lifecycle` two Jobs (`MaxUid`) are enough for one to be taken for the other, and
one of a hasty user (`MaxHasty`) for everything its deletion and edits may do;
patient users with two events late pass as well. In `client` one optional field
at a time shows which of three origins wins, since no field's translation reads
another, and no connection has both optional fields and HMAC secrets, which no
code relates; `MaxUint32 = 99999` stands for 2^32 - 1 (TLC's integers are
narrower), with a port on either side of it and one below zero. `two_jobs` has
caches that keep up and no failures, which `stale` and `fresh` have; its two
lists have what opposes each other (on, off) and an action that does not concern
the power.

### Fairness

Weak fairness of each controller's work, of the delivery of events and of the
clock: worker goroutines keep taking keys from the queue, watches reconnect, and
ten minutes pass. Neither failures nor restarts nor resyncs are fair, so that
no property relies on one. In `liveness` the machine itself owes nothing: a
Task whose machine never gets there is ended by the timeout. In `fresh` the
machine settles, and the timeout is not forced. Faults are bounded, so the
liveness properties say what happens after the last one. `StatusConverges`
asks the machine to come to rest with its connection up, `LossIsReported` the
BMC to stay lost. `LifeFairSpec` is fair to the watches, the garbage collector
and the Job controller; users need not act, and a Task that is never executed
is collected all the same. `TwoFairSpec` is the fairness of `fresh`, for each
Job.

## 4. Theorems

The theorems are of the specifications with every failure, restart and, except
where `FreshSpec` or `TwoSpec` is named, every staleness (`TwoSpec` has no
failures either), for every value of the constants
that satisfies the named assumptions (`ClusterAssumption`: at least one Task, as
the CRD's `MinItems=1` demands; `ActionAssumption`, `TransientsAssumption`,
`MachineAssumption`, `LifecycleAssumption`, `ClientAssumption`,
`TwoAssumption`, `ActionsAssumption`: types and non-empty bounds). Further hypotheses are stated in the theorem.

### The two controllers, with late watches (`Spec`)

1. **`TypeCorrect`** (`[]TypeOK`). The point of interest is `CountType`: the
   number of completed Tasks in the cache, if it is not all of them, is the
   index of an entry of `job.Spec.Tasks`.
2. **`TasksOneAtATime`** (`[]OneAtATime`), through **`OrderInv`**. The property
   alone is not inductive: a Task is created on the strength of an old list.
   `NothingForgotten` says that what any version still in the window tells (a
   Task exists, a Task is terminal) is still true on the server, although the
   verdict may have been replaced by the other one; `SnapshotsOrdered` says that
   in each version the Tasks that exist are the first ones, so that the *count*
   of completed Tasks is the *index* of the next (`CountIsIndex`);
   `TaskRecordsSound` that a stale patch replaces a verdict by a verdict and
   never removes one; `CreatesInTurn` carries the fact from the list to the
   create.
3. **`CompletedJobsRan`** (`[]CompletedMeansAccepted`), through **`AcceptedInv`**:
   every version of a Task, and every copy in a reconciliation, that is started
   and not failed, or is Completed, belongs to an action the BMC has accepted
   (`Vouched`).
4. **`ActionsSentInOrder`** (`ActionsInOrder`), through **`SequenceInv`**: when a
   later Task exists, or is about to, the cache and any reconciliation of each
   earlier Task show a StartTime, so that `runTask` is out of their reach
   (`Done`). This is where the order of delivered versions matters: a StartTime
   once in the window stays (`StartsKept`).
5. **`VerdictsExclude`** (`[]OneVerdict`), through **`VerdictInv`**: a
   reconciliation of a Job gives a verdict only to a copy that has none, and
   every patch leaves the conditions of one copy or of the other, never a
   mixture. For Tasks this rests on `TaskRecordsSound`.
6. **`WholeInvariant`** (`[]IndInv`): the four invariants together, which is what
   `stale` checks.

### The two controllers, with caches that keep up (`FreshSpec`)

A step of `FreshSpec` is a step of `Spec` (`FreshIsSpec`), so that all of the
above holds of it too.

7. **`FreshInvariant`** (`[]FreshInv`). The copy a reconciliation works from is
   still what the server holds (`RecordsCurrent`): the caches are fresh when it starts, and nobody else
   writes that object. From this follow that the Task about to be created is the
   first that does not exist (`CreatesNext`), so that a create never conflicts
   but with a create whose answer was lost, and that verdicts are earned
   (`CompletionEarned`, `FailuresCaused`).
8. **`JobsFailForACause`** (`[]FailureHasCause`), **`ActionsSentOnce`**
   (`[]SentOnce`), **`VerdictsLeftAlone`** (`JobVerdictFinal`, which `job_noop`
   shows to fail with late watches).
9. **`RefinesSequentialJob`** (`KeepsPromise`): the controllers implement
   `SequentialJob` under the refinement mapping of `Rufio`. The initial states
   map to the initial state; of the steps, the creation of a Task and the
   patches that give a Task or the Job its verdict map to steps of
   `SequentialJob`, the others to stutters.
10. **`PowerInvariant`** (`[]PowerInv`), **`CompletedJobsSettle`**
   (`[]PowerAsAsked`), **`ActionsWait`** (`ActionsWaitForPower`): for a BMC that
   reports no transitional state (`Transients = {}`; with them, `transient` shows
   the opposite). `RunsInTurn` says that no accepted action comes after the last
   one sent in the list, `HeadingAsAsked` where the last on or off sends the machine,
   `StaysAsFound` that an action found done stays so until a later one moves the
   machine, `WhyOnItsWay` which actions can have a machine that is not at rest.
   `ActionsWait` also assumes `SoftOffsApart`: no soft power off while a cycle or
   a reset may be under way (see section 3 for what happens otherwise).

### The Machine controller (`MachineSpec`)

11. **`MachineTypeCorrect`** (`[]MachineTypeOK`), **`ReportInvariant`**
   (`[]ReportInv`) and **`SettledMachine`** (`[]SettledReport`): a copy is stale
   only while an undelivered event or the queue promises another reconciliation.
12. **`EchoInvariant`** (`[]EchoInv`) and **`SoonQuiet`** (`[]NoHotLoop`), when
   there is only one error text (see section 3) and `MaxEchoes`, where the
   history variable stops counting, is at least `MaxLag + 3`. A reconciliation uses up the
   Machine's place in the queue; a delivery turns an event into such a place; a
   patch adds an event only where it corrects a field of the status, of which
   there are two (`PatchCorrects`). The sum of all of these and of the
   reconciliations so far does not grow.

### Jobs that follow one another (`LifeSpec`)

13. **`LifeTypeCorrect`** (`[]LifeTypeOK`), for users of either kind.
14. **`LifeInvariant`** (`[]LifeInv`), **`PatientJobsComplete`**
   (`[]PatienceSuffices`), **`TasksInRange`** (`[]NeverOutOfRange`),
   **`FailuresAreOwn`** (`[]FailsForItsOwn`). With users who wait, every version
   of the Job and the copy in the reconciliation are of the last Job created,
   with one list of Tasks (`OneJob`), and so are all Tasks and the copies of
   them (`ItsTasks`): then what the owner index finds is the Job's own
   (`CountsItsOwn`: never more Tasks than it has, and all of them run if as
   many). `TasksKept`: the garbage collector takes none while the Job stays, so
   that a failure always has a Task to show for it.

### The BMC client (`ConnSpec`)

15. **`ConnInvariant`** (`[]ConnInv`), **`EverySecretCounted`**
   (`[]EverySecretCounts`), **`AlwaysLoggedIn`** (`[]NeverAnonymous`),
   **`TimestampSigned`** (`[]SignatureCoversTimestamp`), **`AmtPortsFit`**
   (`[]AmtPortAsAsked`), for all Secrets, lists of HMAC secrets, options and
   ports. `ReadInOrder`: what has been read of an algorithm are values its first
   references have had since the reconciliation began; `ReadingAll`: a client is
   about to be opened only when nothing is left unread.

### Two Jobs on one machine (`TwoSpec`)

16. **`BothInOrder`** (`[](ASound /\ BSound)`): the type invariant, `IndInv` and
    `FreshInv` of each Job, whatever the other does. A step of one Job is a step
    of `FreshNext` for it (`AIsAlone`), so that the step lemmas of
    `FreshProofs` apply; to the other it is a step that leaves all variables
    but `bmc` alone, and of those invariants only the types mention `bmc`
    (`OthersAct`).
17. **`EachForItself`**: neither Job sends an action twice, and a Job is Failed
    only when a Task of its own timed out. (No call fails in `TwoSpec`.)
18. **`TwoInvariant`** (`[]TwoInv`) and **`WhoActsLast`** (`[]LastWord`), again
    for a BMC that reports no transitional state: `AsAsked` (what `PowerInv`
    says of where the machine is heading, and of actions found done) holds of the
    Job whose action on the power was sent last. It is established by
    every such action even if it did not hold before (`PowerStep`), and only
    such an action of the other Job ends it (`WhoMovesTheMachine`).
19. **`BothRefineSequentialJob`** (`BothKeepPromise`): a step of the other Job is a
    stutter of this Job's promise.

Each proof of an invariant has one lemma per group of steps and one case per
action. The facts `Init => Inv` and `Inv /\ [Next]_vars => Inv'` are lemmas of
their own where another module needs them (`SoundInit`, `SoundStep`,
`FreshStep`, `PowerStep`, `PromiseStep`).

Only model-checked: all liveness (`JobSucceeds`, `JobEnds`, `StatusConverges`,
`LossIsReported`, `LeavesNothing`, `SomebodyCompletes`), which is out of the
prover's reach. All safety properties that a passing run checks are proved.

## 5. Not modelled, and why

- Two managers active at once (leader election is off by default, one replica)
  and requests of a dead process that are still in flight.
- Failed calls and restarts together with deletion and recreation: `Rufio` has
  the first, `JobLifecycle` the second; together they are out of TLC's reach.
- A Task created by hand: it has the steps of `TaskController` and no Job.
- Rate limits of the queue: a key put back is reconciled later, at a time the
  model leaves open.
- The messages of Jobs and Tasks, transition times, timestamps other than the age
  of a Task's StartTime, events, logging: no code reads them. (A Machine's
  `LastUpdateTime` changes exactly with its condition's status.)
- What bmclib does with its options and credentials, and a BMC call that never
  returns: bmclib has timeouts of its own; the code passes it only the
  reconciliation's context.
- The text of provider options (header names, payloads): only who decides them.
- Flags and health checks of `main.go`; generated code and manifests.

## 6. Plan

All modules of the plan exist but one of its own for conditions:
`SetCondition` keeps one entry of a type, and the controllers set no other
status than True for Jobs and Tasks, so that a set says the same. What could
come next:

1. Failed calls and restarts in `TwoJobs`. `OthersAct` holds with them; a
   restart is one step of both Jobs.
2. One specification of `Rufio` and `JobLifecycle` together, abstracted far
   enough for TLC.
