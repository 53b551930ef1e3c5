# A verification project for the ACK Route 53 controller

The controller watches three kinds of Kubernetes custom resources (CRs), `RecordSet`,
`HostedZone` and `HealthCheck`, and makes Route 53 agree with each of them. Most of its
code is a resource manager per kind: functions that the ACK runtime's reconciler calls
to read, create, update and delete the AWS resource. This directory holds TLA+ models
of the managers, the TLC runs that check them, and TLAPS proofs about them.
`src/` below is the repository.

## 1. The system

| Component | Code | State it keeps | Operations |
|---|---|---|---|
| record set manager | `src/pkg/resource/record_set/{hooks,sdk,manager,delta,descriptor}.go` | none of its own; the CR's spec, `Status.ID` (a *change* ID), `Status.Status`, conditions and finalizer; the zone in Route 53 | `sdkFind`, `sdkCreate`, `customUpdateRecordSet`, `sdkDelete`, `syncStatus` |
| record set names | `hooks.go` `getDNSName`, `decodeRecordName`; the filter in `sdkFind` | none | name written, name found again |
| hosted zone manager | `src/pkg/resource/hosted_zone/{hook,sdk,manager,delta,descriptor}.go` | the CR's `Status.ID`; zones, VPC associations and tags in Route 53 | `sdkFind`, `sdkCreate`, `customUpdateHostedZone` with `syncTags` and `syncVPCAssociations`, `sdkDelete` with pre-cleanup |
| health check manager | `src/pkg/resource/health_check/...` | the CR's `Status.ID` and `Status.HealthCheckVersion`; health checks in Route 53 | `sdkFind`, `sdkCreate`, `customUpdateHealthCheck`, `syncTags`, `sdkDelete` |
| errors and conditions | `terminalAWSError`, `updateConditions`, `onError`, `onSuccess`, `demoteTransientChangeBatchError` | none | error to condition, condition to "retry or wait for the user" |
| resource manager cache | `manager_factory.go` of each kind | `rmCache` under a `sync.RWMutex` | `ManagerFor` |
| references | `record_set/references.go` | none; the CRs it reads, the resolved IDs in the worker's copy of the spec | `ResolveReferences`, `ClearResolvedReferences` |
| adoption | `resource.go`, `identifiers.go` of each kind | none | `SetIdentifiers`, `PopulateResourceFromAnnotation` |
| tag conversion | `tags.go`, and in `manager.go` `EnsureTags`, `FilterSystemTags` | none | merge, mirror and filter of tags |
| API types | `src/apis/v1alpha1` | the CRs' fields, immutability rules | generated |
| start-up | `src/cmd/controller/main.go` | none | leader election, registration |

How they interact. A worker of the runtime takes a CR from its queue, asks the kind's
factory for the manager of the account, region and role (`ManagerFor`), resolves
references, and calls `ReadOne`; depending on the answer it calls `Create`, `Update`,
`Delete` or nothing. The manager calls AWS, returns a resource and an error, and
`onError` / `onSuccess` put conditions on the resource. The runtime patches the CR's
metadata (finalizer) and status, and puts the CR back into the queue. One CR has one
worker at a time; workers of one kind share the manager cache only. Everything else
that two actors share lives outside the process: the CR in Kubernetes, which users
edit at any time, and Route 53, which other writers change and which propagates
changes by itself.

What is hard here:

* **Two stores and no transaction.** Each AWS call and each patch may fail, or succeed
  without anyone learning of it, and the process may stop between any two. What
  survives is the CR and Route 53.
* **Errors are control flow.** An API error with a listed code is Terminal: nobody
  retries until the user changes the CR. An API error of a create may cost the CR its
  finalizer. A marked (post-create) or demoted error does neither. One wrong class
  means an orphaned resource or a CR that never converges.
* **Stale knowledge.** A change ID that is reported as settled is never polled again; a
  version is one reconciliation old when it is sent; DELETE names what was read.
* **Loops of calls.** VPCs and tags are moved from one set to another call by call.
* **Several owners.** The zone and the health check of a RecordSet may belong to other
  CRs, with users and controllers of their own; tags of AWS services stand among the
  user's.
* **Concurrency** of reconcilers on the manager cache.

What makes each part correct: no AWS resource without a CR that will delete it; none
deleted or overwritten that is not the CR's own; a CR that says Synced (and INSYNC)
only when that is so; deletion and convergence under transient failures; one AWS
resource per CR; tags and VPCs that were wanted before and after are never dropped on
the way; no manager of another role.

## 2. Modules

| Module | Models | Kind |
|---|---|---|
| `AckErrors` | error classes and the condition each becomes | functions |
| `Tags` | `EnsureTags`, `mirrorAWSTags`, the difference that `syncTags` works off | functions |
| `ManagedResource` | what a manager and the reconciler promise, whatever the kind | abstract specification |
| `RecordSet`, `MCRecordSet` | one RecordSet CR, its worker, its record sets in Route 53 | state machine |
| `HostedZone`, `MCHostedZone` | one HostedZone CR, its worker, its zones | state machine |
| `HealthCheck`, `MCHealthCheck` | one HealthCheck CR, its worker, its health checks | state machine |
| `References`, `MCReferences` | one RecordSet CR with references, and the HostedZone and HealthCheck CRs it refers to | state machine, composition |
| `ManagerFactory`, `MCManagerFactory` | `ManagerFor` called by concurrent reconcilers | state machine |
| `DNSNames`, `MCDNSNames` | names written and names found by `sdkFind` | functions and a loop |
| `RecordSetProofs`, `HostedZoneProofs`, `HealthCheckProofs`, `ReferencesProofs`, `ManagerFactoryProofs`, `DNSNamesProofs`, `ManagedResourceProofs` | the proofs about these seven | proofs |

`AckErrors` is used by every manager, `Tags` by the two kinds that have tags.
`ManagedResource` is instantiated by `RecordSet`, `HostedZone`, `HealthCheck` and
`References`, with a refinement mapping in each.

### The three managers

`RecordSet`, `HostedZone` and `HealthCheck` are built alike.

*State.* `cr` is the CR as Kubernetes stores it: `phase` (gone, live, deleting), `fin`
(the finalizer), the spec, the status fields the code relies on, and `cond`, what the
conditions say: Synced, NotSynced, Recoverable or Terminal. `queued` is the work
queue. `pc`, `mode`, `des`, `obs` and `ret` are the worker: the call it makes next, why
it reads, `desired`, `latest`, and the status and condition it is about to persist.
The rest is Route 53. One field is a ghost that no action depends on: `obs.fresh` says
that nobody else has worked on the resource since the reconciliation began, which is the
one thing a worker that reads and then writes cannot know. `SyncedReflects` and
`NeverDetached` are stated for those reconciliations, with any number of other writers
in the rest of the behaviour.

*Actions.* A reconciliation is cut at every call that leaves the process, because
that is where users, other writers, Route 53 and a crash come in:

| Action | Code |
|---|---|
| `Reconcile` | the worker takes the CR, `EnsureTags`, `manager.go` `ReadOne` begins |
| `FindZone`, `FindList`, `FindChange` (RecordSet); `Find`, `FindTags` | the calls of `sdkFind`; `ReadOne` then mirrors AWS's tags into desired |
| `Decide` | the runtime compares and picks `Update`, `Delete`, adoption or nothing |
| `AddFinalizer`, `Adopt`, `ReleaseFinalizer`, `RemoveFinalizer` | the runtime's patches through `descriptor.go` `MarkManaged`, `MarkUnmanaged` |
| `CreateZone`, `CreateCall`, `CreateTags` | the calls of `sdkCreate` |
| `UpdateZone`, `UpdateCall`, `UpdateChange` (RecordSet) | the calls of `customUpdateRecordSet` |
| `SyncUntag`, `SyncTag`, `SyncAssociate`, `SyncDisassociate` (HostedZone) | the calls of `syncTags` and `syncVPCAssociations`, one VPC at a time in any order (a Go map) |
| `UpdateCall`, `UpdateUntag`, `UpdateTag` (HealthCheck) | the calls of `customUpdateHealthCheck` and of its `syncTags` |
| `PatchSpec` (HealthCheck) | the runtime patches into the CR's spec what `customUpdateHealthCheck` overwrote in its answer |
| `DeleteZone`, `DeleteCall` | the calls of `sdkDelete`; in HostedZone the pre-cleanup goes through `SyncAssociate` and `SyncDisassociate` as in the code |
| `PatchStatus` | the runtime patches the status and requeues |
| `User`, `OtherWriter` / `Meddler`, `Propagate`, `Crash` | the environment |

Every call has the outcomes the code tells apart: applied, refused with one of the
codes it looks at, failed without effect, and applied with the answer lost (an error
that is no API error). Where the answer of a tag or VPC call is lost, a crash after the
call leaves the same and stands for it.

*The runtime is external.* Its source is not in the repository. It is modelled from
the way this code is written against it, and these assumptions are the ones to check
when the runtime is upgraded:

1. The finalizer is patched onto the CR before `Create`. If `Create` fails with an API
   error or a Terminal one that is not marked post-create, the finalizer *may* be
   taken off again (the model does either). `demoteTransientChangeBatchError` and
   `WrapPostCreateError` exist to prevent that.
2. A resource that exists while its CR had no finalizer is not touched (Terminal), unless
   the CR carries the policy adopt-or-create: then the finalizer is put on and the
   resource is brought up to date.
3. The status is patched at the end, also after an error; a failed patch is ignored.
4. Everything but Terminal is requeued (at once, with backoff or after the resync
   period). Terminal waits for an edit, even if the patch that says so was lost.
5. After a successful `Create` the resource is read once more.
6. Without an error, and unless the manager says otherwise, the CR becomes Synced.
7. Reads of Route 53 see earlier writes (`ListResourceRecordSets`, `GetHostedZone`).
8. `EnsureTags` is called before anything is compared; `FilterSystemTags` acts on what
   the runtime patches into the CR and on nothing that is sent to AWS.
9. A CR in deletion goes on with whatever `ResolveReferences` returned, its error
   ignored. A patch of the spec sends the difference of two copies that have both been
   through `ClearResolvedReferences`.
10. After a successful `Update` the runtime patches into the CR's spec the fields in which
   the manager's answer differs from desired, and a failure of that patch is an ordinary
   error. The answers of the other two kinds have desired's spec, but for a resolved ID
   (`SpecPatch` in `References`).

Users are taken to write no tag whose key begins with `aws:` and one value for a key
(`TagsAssumption`, which TLC evaluates).

`RecordSet` abstracts names (see `DNSNames`) and contents: a record set is identified
by its set identifier, a number in alphabetical order with 0 for "none", and its
contents are one value. `HostedZone` makes `Spec.VPC` and `Spec.VPCs` one wish, which may
be one that `validateVPCFields` refuses: both fields, a VPC for an explicitly public zone,
or an incomplete entry; tags are pairs. Whether Route 53 lists the name of the zone as
`Spec.Name` has it is a constant (`Renamed`): if not, every reconciliation has a difference
and an update that calls nothing but `validateVPCFields`. `HealthCheck` keeps two fields of
the configuration: `cfg`, an int64, for those that `UpdateHealthCheck` is given, and
`latency` for those that only `CreateHealthCheck` is given.

### References

The record set manager once more, with `RecordSet`'s detail left out and what it takes
for given put in: where the zone ID and the health check ID come from.
`Reconcile`, `ResolveHealthCheck`, `ResolveHostedZone` are `ResolveReferences` in the
order of the code: the error of `validateReferenceFields` is shadowed by the two
resolutions and returned after them. `Read`, `AddFinalizer`, `LookupZone`, `WriteCall`,
`DeleteCall` and `RemoveFinalizer` are what follows; `SpecPatch` is what
`ClearResolvedReferences` lets through to the API server. `ReferencedUser`,
`ReferencedController` and `Vanish` are the users of the referenced CRs, the controllers
that provide them with AWS resources (the other two managers, each as the one promise
References needs of it), and whoever removes the resource itself. Route 53 refuses to
delete a zone that has a record. A target is what the user writes into `HostedZoneRef` and
`HostedZoneID`, valid or not; `clash` says that `HealthCheckRef` and `HealthCheckID` are both
there, and `EmptyRef` is a reference whose `From` is nil, which is validated and then passed over.

### ManagedResource

Three variables, the phase of the CR, its finalizer and whether its AWS resource
exists, and eight steps. The controller may put the finalizer on (`Manage`), also along
with a resource that is there (`Adopt`), create or recreate under it (`Make`), remove the
resource of a CR in deletion (`Remove`) and take the finalizer off once nothing exists
(`Release`); the world may submit, withdraw and destroy. `Managed` says of each
of the four state machines that its behaviours are behaviours of this one, and that a step
of the *worker* is a step of the abstract *controller*: it is never the worker that does what
only the world may. What follows from that alone is stated here once, for all four:
`NoLeak`, a resource that exists has a CR with the finalizer, and `LastToGo`, the CR goes
only when the resource is gone. In `RecordSet` the resource is the record the controller put there
(`mine`), in `HostedZone` and `HealthCheck` the one that `Status.ID` names, and in
`References` a record in any zone.

### ManagerFactory

`Call`, `Lookup` (the read-locked section), `Lock`, and `Build` (the write-locked section)
of any number of workers. `newResourceManager` returns no error at this commit
(`record_set/manager.go:353`), so building does not fail. The read-locked section is one step as
nothing in it blocks. A manager is a record of the target it acts for, who built it
and the how-manieth it is, so that two managers for one target differ.

### DNSNames

A name is its sequence of labels. Behaviours start in every zone over a small
set of names, and walk `sdkFind`'s loop over the listed record sets in any order. Route 53
lists a label in a form of its own, `Stored`: the wildcard escaped, letters in lower case.
Which form that is belongs to Route 53; all that is assumed is that the wildcard becomes
`\052` and that a label that was listed once is listed like that.

## 3. Runs

| Run | Expect | Question |
|---|---|---|
| `RecordSet` | pass | A record set with a set identifier, the next one of its name and a simple one: `SyncedReflects`, `NoOrphan`, `SettledForGood`, `SyncedIsSettled`, `WritesAreManaged`, `DeletesOnlyOwn`, `Managed`, and the invariant `Inv` of the proofs, under refusals, lost answers, crashes, edits and other writers |
| `RecordSetLive` | pass | `Converges`: the record, a new or an adopted one, ends in the zone and the CR Synced; `Deletes`: a deleted CR goes away, also after its zone |
| `RecordSetInsync` | violation | Finding 1 |
| `RecordSetForeign` | violation | Finding 2 |
| `HostedZone` | pass | Creation, tags, edits and deletion: `OneZone`, `ZoneIsManaged`, `SystemTagsUntouched`, `KeptTagsStay`, `Managed`, and the `Inv` of the proofs |
| `HostedZoneUpdate` | pass | Moving between sets of VPCs: `SyncedReflects`, `NeverDetached`, `RoundEnds`, `Converges`, `Deletes` |
| `HostedZonePostCreate` | violation | Finding 3 |
| `HealthCheck` | pass | `SyncedReflects`, `Unmangled`, `OneCheck`, `NoLostUpdate`, `Managed`, `Converges`, `Deletes`, and the `Inv` of the proofs |
| `References` | pass | `Managed`, `WritesWhereAsked`, `Converges`, `Deletes` while the referenced CRs come and go, and the `Inv` of the proofs |
| `ReferencesRetarget` | violation | Finding 4 |
| `ManagerFactory` | pass | `OwnManager`, `BuiltOnce`, the `Inv` of the proofs, and `Returns`: every call comes back |
| `DNSNames` | pass | `OnlyNamesake`, `NamesakeFound` |

Every state machine but `DNSNames` has its type invariant `TypeOK`, which the runs check as
the first conjunct of `Inv`. `HostedZoneUpdate` has no other writers; with them
`SyncedReflects` is checked in `HostedZone`, as a conjunct of `Inv`.

`SyncedReflects` is the promise of the condition Synced: when the worker is about to say
it, Route 53 holds what the CR asked for, whether the resource was found so, created,
adopted or updated, one call after the other. `RoundEnds` says why a reconciliation cannot
hang in its own loops and re-reads: a bound on the calls that are left, `CallsLeft`, goes
down with every step of the worker, whatever others do in between. That is the safety
part of every liveness property here. (`RoundEnds` of `RecordSet` is proved and has no
run.)

**Bounds.** `MaxFaults` (`MaxFailures`, `MaxLosses`) bounds failing calls and crashes,
`MaxEdits` the steps of users (in `RecordSet` also of other writers), `MaxMeddling`
those of others, `MaxMoves` what happens to the CRs that are referred to and
`MaxRetargets` the edits that take a valid target away, and CRs made anew with another
target while the worker is busy with the old one. Two faults are what the hazards
need: a lost answer and then a failure of the retry, or a crash after it. Three edits are
create, edit, delete; `RecordSetForeign` has a fourth for the foreign writer.
`HostedZoneUpdate` and `HealthCheck` have two, create and then one edit or deletion, as the
values to choose from are many; others change the resource besides in `HostedZone` and
`HealthCheck`. `References` has three edits, so that a CR is created, deleted and made anew
while the worker may still be busy with the first; one fault; and four moves: both
referenced CRs are submitted, which leaves two for a resource or a CR that disappears
under the worker.
`RecordSetLive` starts with or without a record under the CR's key, and with CRs that ask
for its adoption or do not (`PreKeys`, `Adoption`). Identifiers (`ChangeIds`,
`ZoneIds`, `CheckIds`) are reused when nothing refers to them any more, and their
number is one or two more than can be referred to at once, so that no step is blocked
for lack of one. In `RecordSet` the keys 0, 1 and 2 are a simple record set, the CR's
own and the next one listed, which is enough for the mutual exclusion of simple and
identified record sets and for the filter to have something to refuse. Two VPCs tell a
zone that may be deleted from one that may not; in `HostedZoneUpdate` three let a swap
keep, add and remove at the same time, and a fourth is held by another zone. The tag lists
of `HostedZone` share one pair and differ in another with the same key; a default tag is
overridden by them, another is not, and one tag is AWS's. The specs of `HealthCheck` are two
values with and without a tag of the user's, one value that is refused, one that does not fit, and
one that differs in `latency` from the first, so that an edit changes `latency` alone or along with
`cfg` or the tags. No tag is refused in `HostedZone` and `HealthCheck` (`BadTags`, finding 3). Integers
of three bits stand for 32: `int32` wraps in the same way, and 4 is the first value that
does not fit. The labels of `DNSNames` are one that is listed as it is, one that is listed in
lower case and then reads like the first, and the wildcard. Two roles of one account and
region are enough for a cache key to be too coarse, and two workers for a race. When users and faults are used up the system settles,
which is when the liveness properties bite. Symmetry is used only for the zone
identifiers of `HostedZone`, in a run without liveness properties.

**Deadlock.** A CR at rest, a deleted CR and the end of the loop in `DNSNames` are
legitimate ends, so deadlock is checked only in `ManagerFactory`.

**Fairness.** `WF_vars(Worker)`: a Go process that is scheduled, with a client that
returns, makes its next call; the requeue of a CR is part of the end of a reconciliation.
Nothing is assumed of users, other writers, the controllers of referenced CRs, faults or
crashes: in `References` liveness is asked for only where the references resolve.
`WF_vars(Propagate(id))`: Route 53
finishes every change. `SF_vars(Lookup(w))`, `SF_vars(Lock(w))`: a `sync.RWMutex`
lets nobody wait for ever; weak fairness would not do, since other workers take and
release the lock again and again. Fairness does not decide between the outcomes of a
call; that a call does not fail for ever is the bound on faults.

## 4. Findings

Each is a run that TLC finds violated, and quotes the text it contradicts
(`PROJECT.json`, "findings").

1. `RecordSetInsync`: `GetChange` fails after an UPSERT; the CR keeps the previous ID
   and its INSYNC (`record_set/hooks.go:269`). `InsyncIsCurrentHolds` shows that without a
   failing call it does not happen.
2. `RecordSetForeign`: without a set identifier `sdkFind` accepts any, and `sdkDelete`
   removes it (`record_set/sdk.go:259`). `RecordSet` and the theorem
   `DeletesOnlyOwnHolds` show that a CR with an identifier never does so.
3. `HostedZonePostCreate`: `onError` replaces a post-create error by Terminal
   (`hosted_zone/manager.go:404`). `HostedZone` is run with tags that are never refused,
   for otherwise `ZoneIsManaged` depends on whether the runtime then takes the
   finalizer off; `PostCreateMarkedHolds` shows that a mark is lost in no other way.
   The health check manager has the same code (`health_check/sdk.go:456`, `manager.go:402`):
   `HealthCheck` has the refusal, is run without it for the same reason, and its theorems about
   the finalizer have it as their hypothesis.
4. `ReferencesRetarget`: `HostedZoneRef` may be edited to name another zone, and the record
   in the old one is left behind (`record_set/references.go:204`), although
   `generator.yaml:80` makes `HostedZoneID` immutable for this very reason. `References` is
   run without such edits, and `NoOrphanHolds` in `ReferencesProofs` shows that there is no
   other way to leave a record behind than to take a valid target away.

Seen while modelling; the models have the behaviour, no run is kept for it, unless said
otherwise:

* A refused UPSERT clears the ID of the previous batch, which may still be pending
  (`record_set/hooks.go:240`). Once the user takes the edit back the CR is Synced with
  nothing left to poll. `SyncedIsSettled` is therefore stated of the changes the status
  names.
* The empty name is written as the domain and never found again (`record_set/sdk.go:138`):
  every reconciliation tries to create it, and when the CR is deleted nothing is found that
  would have to be removed. The same happens to a name that Route 53 lists in another form than it was
  written in, with upper-case letters or characters other than `*` that are escaped, since
  the comparison is byte by byte (`record_set/sdk.go:228`). `NamesakeFound` excepts
  both (`Empty`, `Canonical`), and is proved to except nothing else.
* A RecordSet CR that is deleted while it has no finalizer yet, and made anew with another
  target while the worker is still creating the first one's record, gets the first one's
  finalizer, and the record in the first one's zone is left behind. It counts as a retarget in
  `References`; the runtime's patch of the finalizer is taken to name the CR and not its UID.
* An edit of `MeasureLatency`, `RequestInterval`, `RoutingControlARN` or `Type` of a health check
  is never sent: `delta.go` sees it, `customUpdateHealthCheck` has no line for it
  (`health_check/hooks.go:51`), and the answer of the update then replaces the spec
  (`hooks.go:256`). One `UpdateHealthCheck` is made, the edit disappears from the CR, and the CR
  is Synced. A field the user removes comes back in the same way. This is `latency` and
  `PatchSpec`; `SyncedReflects` and `Converges` are about the spec as it is then.
* An edit of a hosted zone's `HostedZoneConfig` is ignored: `sdkFind` compares the CR's own with
  itself. The update for a zone name without its trailing dot, which Route 53 adds, is made on every
  reconciliation and calls nothing (`hosted_zone/delta.go:72`).
* A name without the trailing dot is relative even if it ends in the domain
  (`record_set/hooks.go:368`); the comment on `Spec.Name`
  (`apis/v1alpha1/record_set.go:253`) calls the dot optional.
* A RecordSet CR is to be deleted before the HostedZone and HealthCheck CRs it refers to.
  Otherwise Route 53 refuses to delete the zone, its CR is not Synced, the reference cannot
  be resolved, and zone and record wait for each other (`record_set/references.go:237`).
  `Deletes` of `References` excepts exactly this.
* If the zone or the health check behind a reference is replaced after it was resolved, the
  write is refused with `NoSuchHostedZone` or `NoSuchHealthCheck`, which is Terminal
  (`record_set/sdk.go:590`), although the reference is good again. `Converges` of
  `References` excepts a Terminal CR.
* The error of `validateReferenceFields` comes after the resolutions
  (`record_set/references.go:67`): harmless where it ends the reconciliation
  (`WritesWhereAsked`), but in deletion, where it is ignored, a CR with both reference and ID
  is looked for in the zone of the reference.
* The `id` of an adoption annotation becomes the change ID in the status
  (`record_set/resource.go:119`), which `GetChange` does not know: every `ReadOne` then fails
  (`sdk.go:291`). Not modelled, as nothing else depends on it.
* `compareVPCs` looks at regions, `syncVPCAssociations` only at IDs
  (`hosted_zone/hook.go:391`): a region that was edited is never synchronised although
  every update reports success. `Achievable` asks for `misplaced = {}`.
* `ConflictingDomainExists` is taken for "already associated" (`hosted_zone/hook.go:409`)
  also when another zone of the same name holds the VPC. This is the `\ Taken` in
  `SyncedReflects`, and why `NeverDetached` has an exception: a zone that is to have
  only such VPCs runs into `LastVPCAssociation`.
* Two reconcilers that miss the cache together both build a manager
  (`record_set/manager_factory.go:70`). Harmless as far as `OwnManager` and `BuiltOnce`
  go, which are proved.

## 5. Proofs

TLAPS checks these for every value of the constants; the assumptions are the ASSUMEs of
the modules, which TLC evaluates in the runs, and what is named here. What is assumed
besides is never one on a bound: it is part of the statement, of the behaviour or of the
state, so that it says exactly when the property may fail, and for each of the four findings
a theorem says that nothing else breaks the property that the run shows violated.

| Module | Theorems | Assumed besides |
|---|---|---|
| `RecordSetProofs` | `TypeCorrect`, `InvHolds`, `NoOrphanHolds`, `SettledForGoodHolds`, `SyncedIsSettledHolds`, `SyncedReflectsHolds`, `WritesAreManagedHolds`, `RoundEndsHolds`, `ManagedHolds`, `NeverLeaksHolds` | |
| | `DeletesOnlyOwnHolds` | `Own # 0`; finding 2 without |
| | `InsyncIsCurrentHolds` | in states with `faults = 0`; finding 1 without |
| `HealthCheckProofs` | `TypeCorrect`, `UnmangledHolds`, `SyncedReflectsHolds`, `NoLostUpdateHolds` | |
| | `InvHolds`, `OneCheckHolds`, `ManagedHolds`, `NeverLeaksHolds` | behaviours with `[]TagsAccepted`, as for hosted zones; finding 3 without |
| `HostedZoneProofs` | `TypeCorrect`, `SyncedReflectsHolds`, `SystemTagsUntouchedHolds`, `KeptTagsStayHolds`, `NeverDetachedHolds`, `RoundEndsHolds` | |
| | `InvHolds`, `OneZoneHolds`, `ZoneIsManagedHolds`, `PostCreateMarkedHolds`, `ManagedHolds`, `NeverLeaksHolds` | behaviours with `[]TagsAccepted`: no tag of a new zone is refused; finding 3 without |
| `ReferencesProofs` | `TypeCorrect`, `InvHolds`, `WritesWhereAskedHolds` | |
| | `NoOrphanHolds` | in states with `retargets = 0`; finding 4 without |
| | `ManagedHolds`, `NeverLeaksHolds` | behaviours with `[](retargets = 0)` |
| `ManagedResourceProofs` | `NoLeakHolds`, `LastToGoHolds` | |
| `ManagerFactoryProofs` | `TypeCorrect`, `InvHolds`, `OwnManagerHolds`, `BuiltOnceHolds` | |
| `DNSNamesProofs` | `OnlyNamesakeHolds`, `NamesakeFoundHolds` | |

In each module the invariant is proved part by part, with a lemma per action, and the
action properties follow from it in the state before the step.

*RecordSet.* `NoOrphan` says that a record the controller put into the zone has a CR with
a finalizer. It is not inductive. Why does the step that takes a finalizer off keep it?
Because that step is only reached after `sdkFind` or the API said that nothing of ours is
there, and nothing of ours can appear in between: that is `KnowledgeInv`. Why is a record
only written with the finalizer on? Because the worker's belief `des.fin` implies
`cr.fin`, at every step before the status patch: `ManagedInv`. And the answer "already
there" or "absent" is only worth something if the zone obeys Route 53's own rules:
`ZoneInv`. `SettledForGood` needs every copy of a status, not only the persisted one, to
be settled: `StatusInv`; an apply cannot break it since it takes an unused change ID.
`SyncedIsSettled` adds that Synced, in the CR or on its way to it, is only said with
INSYNC or with no change ID at all: `HonestInv`, which with `StatusInv` gives it.
`SyncedReflects` follows the contents through a reconciliation that nobody interrupts: what
was read is what is there, and after a CREATE or an UPSERT what was asked for
(`ReflectsInv`). `InsyncIsCurrent` is about the last batch: until something fails, every
status that may still reach the CR is empty or names that batch (`LatestInv` over
`Spoken`, the copies that are still to be persisted at each point).
`RoundEnds`: the read after a create is in `mode` "post", from which no create is
reached, so a reconciliation makes at most nineteen steps (`RoundIsShort`).

*HealthCheck.* `NoLostUpdate` is about three versions: the one an update sends was
persisted by an earlier reconciliation, the one this reconciliation read came later, and
the current one may be later still. `VersionInv` orders them, sent before read before
current; so if Route 53 accepts the version sent, all three are the same, and a version
that was read comes with the configuration that was read (`AsRead`). `Unmangled` needs
that what the worker sends is what a user wrote: `SpecInv`, which also has that tags no
`ReadOne` has mirrored yet contain no key of AWS's, so that the tags after a create are not
refused. `ManagedInv` is that of `RecordSet` with the ID in place of the record: whoever
holds the ID of a check that exists holds the same one, and its CR has the finalizer.
`OneCheck` counts the checks nobody holds any more: only a lost answer, a failed patch or
a crash makes one (`StrayInv`). Only the strays need to be finitely many for that, which
the invariant says itself; nothing is assumed of the IDs. `SyncedReflects` is about the
check as a whole, its configuration, version and tags, at each point of a reconciliation
that nobody interrupts (`SettledInv`): one call that removes keys and one that adds pairs
make the tags that were asked for, since keys are unique on both sides (`KeysInv`); and
`latency`, which no call changes, is put back into what was asked for (`PatchSpec`). A tag that
is refused after a create loses the post-create mark, hence `TagsAccepted` for all that is about
the finalizer and the number of checks.

*HostedZone.* Tags: `TagsInv` says that AWS's tags are wanted exactly as read, from the
comparison to the last call of `syncTags`, and that keys are unique on both sides. So the
keys removed and the pairs added are never AWS's (`SystemTagsUntouched`), and a key that is
removed before its pair is added is one whose value changes (`KeptTagsStay`). VPCs:
`VpcInv` follows the two loops. While nobody else touches the zone, what is wanted and
can be had is in the zone or still to be visited by the first loop; the second starts with
all of it there and with what is too much still to be visited. At its end the zone
has what was asked for; with the tags at each point (`SettledInv`) that is
`SyncedReflects`. Both loops visit a VPC once, so a reconciliation makes at most fifteen
steps and two for each VPC (`RoundEnds`, `RoundIsShort`). `NeverDetached` follows from the
order of the loops: if the last VPC to be taken away is the last of all, none of those wanted is there. The rest is
as in `HealthCheck`; `TagsAccepted` is needed since a refused tag after a create loses the post-create
mark and with it, possibly, the finalizer.

*ManagerFactory.* `OwnManager` needs that what is cached belongs to its key (`CacheInv`).
`BuiltOnce` needs that whoever missed has not built: a target a worker built for stays in
the cache (`BuiltInv`, nothing is ever evicted), so a later lookup hits; `MissInv` carries
that over the gap between the two locks.

*References.* The zone ID is resolved once and used several calls later. `ResolvedInv` is why
that is safe: as long as the zone with the resolved ID exists, the reference still denotes
it, for the controller of the referenced CR gives it another ID only when the old zone is
gone; users cannot change that. Until one of them takes a valid target away
(`retargets = 0`), the target in the CR is the one the worker holds (`TargetInv`), as
`ClearResolvedReferences` keeps the resolved ID out of every patch, and `RecordInv` says where
records can be: only in the zone the CR names, and the worker looks for them there and
nowhere else, so that when it finds nothing there is nothing (`NothingFound`), and taking the
finalizer off leaves no record behind. In deletion an error of the resolution is ignored: then
the worker looks where the ID points, which for a valid target is the record's zone or no
zone at all (`GivenZone`).

*DNSNames.* What was listed is listed as it is, so decoding a listed label gives a label with
the same listed form (`DecodedListed`), and cutting off the domain undoes appending it
(`TrimListed`): equal after both means listed under the same name (`MatchIsNamesake`). The
converse needs a label to be restored by decoding, which is `Canonical`
(`NamesakeMatches`). `LoopInv` carries both through the loop.

*Refinement.* `ManagedHolds` maps each step of the four workers to a step of the abstract
controller or to a stutter. What it takes is `ManagedInv`: a write needs `Make`'s
finalizer, a delete needs `Remove`'s CR in deletion, and a release needs that nothing exists.
`NoLeak` and `LastToGo` are proved once, of `ManagedResource`; each manager instantiates
those theorems with its own refinement mapping and so inherits them through `ManagedHolds`
(`NeverLeaksHolds`).

*Only model-checked:* all liveness, `Converges`, `Deletes` and `Returns` (out of the prover's
reach with fairness); `RoundEnds` is what could be proved of it. `DeletesOnlyOwn`,
`InsyncIsCurrent`, `PostCreateMarked` and `NoOrphanedRecordSet` are false as they stand and
are proved under the hypotheses of the table.

## 6. Not modelled, and why

* `SetIdentifiers` and `PopulateResourceFromAnnotation` copy fields of an annotation before
  the first `ReadOne`; what follows is modelled as adopt-or-create in `RecordSet`. Adoption
  of hosted zones and health checks differs only in which status field is filled.
* `FilterSystemTags` acts on what the runtime patches into the spec, and there no update changes
  the tags. The only thing in a spec that the controller changes is `latency` in `HealthCheck`.
* The field-by-field conversions of `sdkFind` and `newCreateRequestPayload`: copies. A
  test with every field set says more about them than a model.
* Comments and delegation sets, a `Spec.VPC` without ID or region, which `validateVPCFields`
  lets pass, and which region a VPC is placed in, in HostedZone.
* In References, a health check given by its ID alone, which nothing resolves.
* Letter case and the trailing dot of alias targets, which make `delta.go` see a difference
  for ever (`record_set/delta.go:51`): the contents of a record are one value. `DNSNames` has
  the names of record sets only.
* Generated types and deep copies, start-up, deployment: data, or a sequence without state.
* Panics (a nil `Spec.RecordType` on adoption, `record_set/sdk.go:166`) are left to unit tests.
* The retain deletion policy, cross-region and cross-account setup: the runtime's.
* Pagination: `sdkFind` reads one page; a page starts at the name and type looked for.

## 7. Plan

Done: the modules of section 2 and the theorems of section 5. What is left, in the order
of what it would add:

1. Manual intervention on a Terminal CR in deletion, which `RecordSetLive` needs
   before it can run with other writers of the record (`record_set/sdk.go:459`).
2. Alias targets with the form in which Route 53 lists them (`record_set/delta.go:51`).
3. `References` with targets that are taken away, once the code forbids or handles that:
   `Managed` then loses its hypothesis `retargets = 0`, and `HostedZone` and `HealthCheck`
   their hypothesis `TagsAccepted` once `onError` keeps the mark of a post-create error.
4. `RoundEnds` for `HealthCheck` and `References`, whose reconciliations have no loops.
