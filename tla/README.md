# A verification of machine-api-provider-gcp

The repository is the GCP provider of OpenShift's Machine API: a manager that
creates, tracks and deletes one GCP instance per `Machine` object, a controller
that annotates `MachineSet` objects for the autoscaler, and a small daemon that
reports the preemption of spot instances.  This directory holds TLA+ models of
these parts, TLC configurations that check them on small instances, and proofs
checked by TLAPS.

## The system

| Part | Code | State | Operations |
|---|---|---|---|
| machine controller | vendored `machine-api-operator/pkg/controller/machine/controller.go` | none of its own; reads the informer cache | `Reconcile`, `updateStatus`, `deleteNode` |
| drain controller | `drain_controller.go` beside it | none | `Reconcile`: drain, then the `Drained` condition |
| actuator | `actuators/machine/actuator.go` | none | `Create`, `Exists`, `Update`, `Delete` |
| machine scope | `actuators/machine/machine_scope.go` | copies of the machine, its provider spec and status | `Close`: one patch for the object, one for its status |
| reconciler | `actuators/machine/reconciler.go`, `conditions.go` | instance, target pools, control plane instance groups, backend service, all in GCP | `create`, `update`, `exists`, `delete` |
| MachineSet controller | `actuators/machineset/` | cache of machine types | `Reconcile` |
| helpers | `actuators/util/` | none | labels, tags, images, credentials, architecture |
| GCP services | `actuators/services/` | none | pass-through calls |
| termination handler | `pkg/termination`, `cmd/termination-handler` | two goroutines, one context | `Run`, `run`, `markNodeForDeletion` |
| manager | `cmd/manager/main.go` | informer cache, workqueues | set-up |

A `Machine` is written by its owner (a MachineSet or a user), by the machine
controller (phase, conditions, finalizer), by the actuator's scope (provider ID,
addresses, instance state), by the drain controller (`Drained`), by the nodelink
controller (`nodeRef`) and by owners of lifecycle hooks.  All of them use merge
patches or versioned updates on one object, and all but one work from a cache.
GCP is changed by the reconciler and by whoever else has access to the project.

What is hard here is not in any single function: a reconcile is a dozen calls,
each of which may fail, lose its answer or be the last one before the process
dies, and between any two of them the object, the instance, the Node and the
spec may change.  The next reconcile starts from what happens to be stored.

## Modules

| Module | What it models |
|---|---|
| `MachineObject` | the Machine object as the code branches on it, and what each patch does to the stored one |
| `MachineLifecycle` | one Machine under machine controller, actuator, reconciler, scope and drain controller, with its owner, GCP, the kubelet, nodelink and crashes |
| `MCMachineLifecycle` | provider specs for small instances of it |
| `MachineLifecycleProofs` | theorems about it |
| `MachinePhaseProofs` | theorems about the phase of a machine, on top of these |
| `TerminationHandler` | the termination handler, its Node, the kubelet, stops and restarts |
| `TerminationHandlerProofs` | theorems about it |
| `MachineContract` | what the deletion of a Machine promises, without controllers, copies, calls or failures |
| `MachineContractProofs` | `MachineLifecycle` implements it |
| `ControlPlane` | several control plane machines, their instance groups and the shared backend service, several workers |
| `ServiceContract` | what control plane machines promise to the load balancer of the API, without calls, copies, workers or failures |
| `MCControlPlane`, `ControlPlaneProofs` | placements for small instances of `ControlPlane`; theorems about it, among them that it implements `ServiceContract` |
| `CreateInstance` | one creation in detail: scope, checks, look-ups, the instance that is asked for, and what becomes of each error |
| `MCCreateInstance`, `CreateInstanceProofs` | provider specs for small instances of it; theorems about it |
| `DrainController` | the drain controller with several control plane machines, their Nodes and an administrator |
| `MCDrainController`, `DrainControllerProofs` | machines for small instances of it; theorems about it |
| `MachineSetController` | one MachineSet, its controller, the machine type cache and the owner |
| `MCMachineSet`, `MachineSetControllerProofs` | machine types for small instances of it; theorems about it |

`MachineLifecycle` is the middle: it has every call of one machine's life, and
leaves three things coarse that have modules of their own.  `CreateInstance` opens
its action `Create`, `ControlPlane` its `Register` and `Unregister` for several
machines, `DrainController` its `DrainStart` and `DrainFinish` for several Nodes.

### MachineLifecycle

One action is one call to the API server or to GCP with the code up to the next
call.  `pc` names the next call.

| Variable | Stands for |
|---|---|
| `api` | the stored object; its record stays, with `present = FALSE`, when it is released |
| `cached` | the informer cache; `WatchDelivers` brings it up to date at any time |
| `fresh` | which of the copies (cache, controller, scope) have the stored resourceVersion: what a versioned update is checked against |
| `m`, `s` | `Reconcile`'s copy and the scope's copy |
| `to` | the phase `updateStatus` will write, or that nothing is to be written |
| `locked` | the scope's status patch carries a resourceVersion, because the first patch changed that of the object |
| `inst` | the instance at each place; a place is a project and zone |
| `pools`, `groups`, `backends`, `members` | target pools, control plane instance groups, backends of the API service, group members |
| `node`, `drain` | the Node exists; a drain is under way, and the condition it read |
| `removed` | somebody other than the controller has deleted the instance: history, read by no action |
| `faults` | disturbances still to come |

| Action | Code |
|---|---|
| `AddFinalizer`, `CheckExists`, `PatchStatus` | `Reconcile` up to and after `actuator.Exists`, `updateStatus` |
| `Create`, `ReadInstance` | `create`, ending in `reconcileMachineWithCloudState` |
| `UpdatePools`, `Register`, `ReadInstance` | `update` |
| `PersistSpec`, `PersistStatus` | the two patches of `scope.Close` |
| `MarkDeleting`, `DeletePools`, `DeleteLookup`, `Unregister`, `DeleteInstance` | deletion in `Reconcile` up to the end of `delete` |
| `FinalExists`, `DeleteNode`, `RemoveFinalizer` | the rest of the deletion |
| `DrainStart`, `DrainFinish` | drain controller |
| the others | owner, hooks, watch, kubelet, nodelink, GCP, crash |

Choices that are easy to miss in the code:

* A merge patch carries only changed fields, but a list whole.  `updateStatus`
  sends the list of conditions when one of them changed, `Terminable` or
  `InstanceExists`, and with it the `Drained` of the copy it started from; the drain
  controller does the reverse.
* The phase is a pointer: `nil` and a pointer to `""` differ in `Exists` only.
* A failed machine is re-read by the annotation patch, so its phase is written
  even when the cached copy is Failed already.  If the status patch fails after it,
  the annotation is stored and the phase is not.
* `Reconcile` decides between Provisioned and Running from the copy it read
  before `Update`; the scope works on another copy.
* `delete` returns an error after a successful `InstancesDelete` in order to be
  called again.
* A `Close` after an `Update` or `Create` that changed nothing sends an empty
  patch and is not a step.

Left out: the values of the `InstanceExists` and `Drainable` conditions (no code
modelled here reads them; that `InstanceExists` may have changed is a choice in
`PatchStatus`), pre-drain hooks (`DrainController` has them), events and metrics.  A call to
`AddInstances` whose answer is lost is taken not to have happened.

### MachineContract

The contract has four stages: *held*; *asked* to go (the deletion timestamp);
*leaving* (Deleting is stored); *gone*.  Nothing is provisioned once it is leaving;
it goes when it is drained, unhooked, without instance and without Node; and who
asks is heard.  The refinement mapping (`Contract` in `MachineLifecycle`) takes the
stage from the stored object, the instance from GCP at the place of the spec, and
the Node from the cluster.  Everything else, copies, patches, failures, is invisible.

### ControlPlane

`pc[k]` is the next call of machine `k`'s reconcile, and at most `Workers`
reconciles are under way.  `copy[k]` is the backend list a reconcile has read and
`fresh` says whose fingerprint is the current one: GCP refuses an update with
another.  That the code sends a fingerprint at all is because it writes back the
object it read (`updateBackendServiceWithInstanceGroup`).  `requests` are the request
IDs GCP remembers: `InstancesDelete` carries the machine's UID, so a repetition does
nothing while the first is remembered, even if its operation failed.

### ServiceContract

Groups are created, then put behind the service, then joined by members, one in each
step; a member may leave, and nothing else is ever undone.  The refinement mapping
(`Service` in `ControlPlane`) takes `listed` to be the set of groups in the list of
backends, so that the order of the list and duplicates in it are invisible, and with
them every read, refused write and repetition.

### CreateInstance

A provider spec and the *world* its calls find are records of what `create` branches
on.  An attempt ends with an outcome: *created*, *invalid* (the error has the type
`InvalidMachineConfiguration`, and the machine is Failed for good) or *retry*.  A 4xx
answer to `InstancesInsert` is *invalid* even when it would pass, and the machine types
can be listed only in a project that is named and whose list is allowed.  Which
errors keep their type is read off the code call by call: `%w` keeps it, `%v` loses
it, and `GetCredentialsSecret` builds one and drops it.  The value of a label is the
place it comes from, so that precedence can be stated.  `Int32` is a set: converting
a float out of range gives a value that depends on the processor.

### DrainController

One worker, because `AddWithActuatorOpts` passes the drain controller no number of
concurrent reconciles.  `ours` are the Nodes it has cordoned itself; `seen` and `known`
are the cached views of cordoned Nodes and of drained machines, used when `lag` is
true.  The Node of the machine in hand comes from the API server, the machine and the
other Nodes from the cache, as in the code.  Hooks are only ever removed from a machine
that is being deleted (the Machine API's admission webhook, which is not in this
repository, refuses new ones), so an old view of them keeps a drain
waiting and nothing else; the exclusion from draining and the Node reference do not
change here.

### TerminationHandler

`main` is `Run`'s goroutine, `pc` that of `run`; they share `cancelled` and the
buffered channel `result`.  `marking` is the context the marking derives from.
The Node is its `Terminating` condition with a transition time, and a counter
for all the kubelet writes.  An update is accepted if `fresh`.  A request to the
metadata endpoint that is never answered leaves `run` *hung*: it has neither a context
nor a timeout (`checkTerminationEndpoint`), so only the end of the process ends it.

### MachineSetController

`annotated`, `shieldedDisabled` and `Patched` are what `reconcile` does to its
copy and what its patch does to the stored object.  The labels annotation is one
string; the order of its pairs is that of a Go map, hence any.  The owner may edit or
remove annotations as it may edit the template.  `behind` says that the watch has
something to deliver, which it does even if one change has undone another.

## Runs

Passing runs:

| Run | Instance | States | Shows |
|---|---|---|---|
| `lifecycle` | worker, 2 pools, hook, lagging cache, 2 disturbances | 1.9 million | `PhaseTruthful`: a Provisioned machine has its provider ID and addresses, a Running one its Node too.  `NoOrphan`, `PoolsReleased`: nothing is left behind.  `DeleteOnlyWhenReady`: no instance is deleted early.  `AddressesAfterProviderID`: the order of the two patches.  `DeletionIsFinal`.  `KeepsContract`: every step is one of the contract. |
| `live` | control plane machine, 1 pool, lagging cache, zone with an instance group or unknown zone, 1 disturbance | 97 thousand | `ImplementsContract`: the contract with its promise that a deletion ends.  `ProvisioningSettles`, `MasterServes` |
| `edits` | control plane machine, spec edited to an unknown zone, unknown project, invalid field and back, lagging cache, 1 disturbance | 3.2 million | `KnownInstanceNotLost`: its finalizer stays.  `FailedOnlyIfRemoved`: a machine that has an instance is given up only if somebody else deleted it |
| `control_plane` | 2 machines in one zone or two, 2 workers, 1 disturbance | 200 thousand | `BackendsKept`, `BackendsBounded`: what becomes of the shared list.  `KeepsServiceContract`: every step is one of the contract.  `MastersServe`, `DeletionsComplete` |
| `create` | 8 families of specs and worlds, 2 disturbances | 650 thousand | `Schedulable`, `BootsUnlessChosen`, `LabelsAndTags`: what is asked for.  `QuotaExact`: the quota is judged exactly.  `FailedHasNoInstance`: a machine made Failed has left nothing behind.  `CreateSettles` |
| `drain` | 3 machines, one hooked, one excluded, with and without lag, 2 disturbances | 210 thousand | `OneAtATime`, `EvictedOnlyWhenDue`, `DrainedIsEmpty`, `DrainsComplete` |
| `termination` | 3 disturbances, 2 heartbeats, 2 clock ticks | 21 thousand | `MarkedOnlyOnNotice`, `MarkingReported` (run returns what became of the marking), `HeartbeatsKept`, `FirstTransitionKept`, `NoticeReported`, `StopReturns` |
| `machine_set` | 3 machine types, 2 edits, 2 disturbances | 1.4 million | `CapacityConverges`: the annotations are those of the machine type in the end if and only if GCP knows it, and come with an architecture.  `ImageBoots`, `GivenUpOnlyIfInvalid`, `OwnersChoicesKept` |

Runs that end in a counterexample; each one contradicts a line of the
repository, quoted in `PROJECT.json`:

| Run | What happens |
|---|---|
| `zone_edited` | The zone of a running machine is changed to another existing zone; the instance is looked up there, is "missing", and the machine is released while it runs. |
| `malformed_deletion` | `exists` loses the type of a validation error (`%v`), so a machine with an invalid spec cannot be deleted. |
| `invalid_place_phase` | After one failed lookup the phase is `""` and no longer nil, and a machine in an unknown zone never becomes Failed. |
| `stop_during_marking` | A stop between the choice of the marking's context and the first attempt leaves the Node unmarked. |

Variations that are not runs of their own, because they ask a question above of
other constants or without one of its premises, and what TLC answers:

* `Edits.cfg` with `FailedNotRecreated` as a property: a reconcile whose cache has not
  seen Failed yet creates an instance for a machine of which `types_machine.go:148` says
  that it "must be deleted" and `controller.go:335` that it "won't reconcile".  Nor do
  phases only move forward: a lookup that fails in a reconcile whose cache has not seen
  Provisioning yet writes the empty phase of its copy back (`controller.go:349`).
* `MalformedDeletion.cfg` with `Role = "master"` and `StartSpecs <- Good` violates
  `DeletionCompletes`: a control plane machine deleted before its first successful
  `update` waits for an instance group that nobody will create.  This is why `live`
  starts with the group.
* `MalformedDeletion.cfg` with one target pool, `StartSpecs <- BadProject` and
  `Places = UnknownProjects = {badProject}` violates `DeletionCompletes`: `delete`
  asks for the target pools before it looks for the instance, and fails for ever if
  the project does not exist.
* `ControlPlane.cfg` without fairness of `RequestForgotten` violates
  `DeletionsComplete`: after a failed delete operation every repetition is taken for
  the first request.  How long GCP remembers one cannot be told from the code.
* `CreateInstance.cfg` with `InvalidIsPermanent`: one failed `RegionGet` or
  `AcceleratorTypeGet` makes a machine with accelerators Failed for good
  (`reconciler.go:112`, `:121`), and one passing 4xx answer to `InstancesInsert` (a
  conflict, a rate limit, a time-out) any machine (`reconciler.go:438`).
* `CreateInstance.cfg` with `<>[]~down` as a property: a machine with
  accelerators whose spec names no project makes the list of machine types fail at
  every reconcile, and `log.Fatal` ends the manager each time
  (`reconciler.go:169`, `computeservice.go:150`); the scope would have known the
  project from the credentials.
* `Drain.cfg` with `OneAtATime` stated of lagging caches too: two control plane Nodes
  are cordoned at once, because the list is read before the cache has seen the first
  cordon (`drain_controller.go:213`).
* `MachineSet.cfg` with `GivenUpOnlyIfHopeless`: one failed `MachineTypesGet` is
  reported as an invalid configuration, and the MachineSet is out of the queue until
  the next resync (`machineset/controller.go:147`).  So it is when the credentials
  secret has no usable key, and nothing watches the secret.  `GivenUpOnlyIfInvalid`
  excepts both.
* `Termination.cfg` with `pc = "hung"` struck out of `StopReturns`: a stop does not reach
  a request the metadata endpoint leaves unanswered (`termination.go:156`), and `Run`
  waits for it until the process is killed.
* `MachineSet.cfg` with `OwnersLabelsKept`: a label added while the controller asks
  GCP is overwritten by its patch (`machineset/controller.go:111`).
  `OwnersChoicesKept` is about choices made before the MachineSet was read.

**Bounds.**  `MachineLifecycle` has one machine: machines share only instance groups
and the backend service, which `ControlPlane` has, and the drain, which
`DrainController` has.  Two machines and two workers are the least that race; a
third worker adds another appender of the same kind, and `FewDuplicates` is proved
for any number.  Three machines let one drain, one wait and one be excluded.  In
`CreateInstance` each family of specs varies one aspect with what it meets, since
the code looks at the aspects one after the other; 32-bit numbers have `MaxInt32 = 3`,
so that sums wrap, and the limits of labels and tags are 2 and 1, so that they are
reached and passed.  Two pools are enough for "some visited, some not".  A disturbance is a
failed call, a lost answer, a crash or interference with the instance; two of
them allow a failure during the recovery from a failure.  `edits` has one, because its
edits and its lagging cache disturb as well (with two TLC visits 12 million states and
finds no error either).  `live` has no pre-terminate hook (with one TLC visits 500 thousand
states, and finds no error either); that nothing is deleted before it is removed is checked in `lifecycle`.  `drain`
with three disturbances has 610 thousand states, and no error either.  Two clock ticks and two
heartbeats separate "before", "between" and "after".  Deadlock is not checked
in the lifecycle, control plane, creation and drain runs: a released machine, a
created or Failed one and a drained one are the end of their stories.

**Fairness.**  The workqueue retries failed reconciles with back-off and the
manager resyncs every ten minutes (`cmd/manager/main.go`), so a reconcile that can
run does run: weak fairness of `Reconcile` as a whole.  Weak fairness of the watch,
the drain and nodelink controllers, the kubelet, GCP and the removal of hooks says
that these get their own work done; a deletion whose hook is never removed does
not complete, and is not meant to.  In `TerminationHandler` both goroutines are
scheduled, their calls return unless they hang, and the container is restarted.  In `ControlPlane` and
`DrainController` a machine's turn may be disabled while another holds the worker; the
workqueue is first in, first out, so strong fairness per machine is justified.  In
`CreateInstance` the kubelet restarts the manager.  Nothing is assumed
of owners, interference, crashes, stops or kills.  Disturbances are finite.

## Proofs

`MachineLifecycleProofs`, for all places, pools, roles, disturbances, with or
without cache lag:

| Theorem | Assumes | Inductive invariant |
|---|---|---|
| `TypeCorrect` | - | `TypeInv`: `TypeOK`, and no reconcile reaches `updateStatus` without a phase to write |
| `DeletesOnlyWhenReady` | - | `CopiesInv` (the copies are earlier versions of the object, and deletion is not taken back) with `ReadyInv` (what holds at each step of a deletion: drained, no hook, pools visited) |
| `AddressesFollowProviderID` | - | `ProviderIDInv`: no copy has addresses without a provider ID, and at the second patch the first one is stored |
| `DeletingIsFinal` | - | `CopiesInv`: while Deleting is stored no reconcile is on a path that writes another phase or creates |
| `NothingIsOrphaned` | no edits | `SpecInv` (all copies have one spec), `InstanceInv` (an instance only where the spec says, none after the last lookup), `NodeInv` |
| `PoolsAreReleased` | no edits | these and `PoolsInv` (after the pools were visited they stay empty) |

The strengthenings are needed because each property is about one moment and rests
on calls made long before it: `NoOrphan` at the removal of the finalizer rests on
the lookup three calls earlier and on no older reconcile being about to create.
"No edits" is necessary: with edits `zone_edited` is a counterexample.

With these: `KnownInstanceIsKept` assumes that the specs name at most one valid
place (`OneValidPlace`; `zone_edited` shows why) and uses `KnownInv`, that the
finalizer outlives an instance whose provider ID is stored.

`MachinePhaseProofs`, from the same invariants:

| Theorem | Assumes | Inductive invariant |
|---|---|---|
| `PhaseIsTrue` | - | `PhaseInv`: no copy has a provider ID, a Node or a phase claiming them that the stored object lacks, and the phase a reconcile has decided on is true already; `AddressInv`: the same of the addresses, which while the scope is closed may be in its copy only |
| `GivenUpOnlyIfRemoved` | `OneValidPlace` | `PhaseKeptInv` (a phase, once there is one, is not lost, and there is one before there is an instance), `RemovedInv` (the instance of a machine that is known to have one is there until it was taken away), with `KnownInv` |

`PhaseInv` is about copies because a phase is decided two or three calls before it is
written, from a copy, while the facts it claims come from patches of the scope and of
the nodelink controller; it is inductive because provider ID and Node reference are
never taken back.  The addresses need an argument of their own: they are stored by the
second patch of the scope, so that until then only the scope's copy has what the phase
will claim.  `FailedOnlyIfRemoved` is decided by a lookup that answers "missing", and the
answer is worth something only if a stored provider ID or address, in the object or on
its way there, implies that the instance is at the one valid place until somebody,
or the deletion of the machine, has taken it away; and if an unknown place is never
answered "missing", which rests on the phase being set by then (`Exists`).

`MachineContractProofs`: `ContractKept`, `Spec => KeepsContract` without edits.  The
initial states map to the contract's, and each action to one of its steps or to a
stutter, given the invariants above and `LeavingInv` (a deleting reconcile has stored
Deleting and keeps the finalizer to its last call).

`ControlPlaneProofs`, for all machines, zones, workers and disturbances:

| Theorem | Inductive invariant |
|---|---|
| `TypeCorrect` | `TypeOK` |
| `OnlyExistingBackends` | `GroupsInv`: a reconcile past the insert has a group that exists |
| `NoBackendLost` | `CopyInv`: a copy with the current fingerprint is the current list |
| `FewDuplicates` | `BoundInv`: the places of a group in the list and the reconciles about to add it are together at most `Workers` |
| `MembersAreServed` | `ServeInv`: a reconcile that is about to add its instance has a group that is listed |
| `ServiceContractKept` | all of these: the initial states map to the contract's, each call to one of its steps or to a stutter |

That a machine joins only a listed group is established calls before it does, and
holds then because no other worker can take a backend off the list (`NoBackendLost`).

`CreateInstanceProofs`, for all specs, worlds, limits and widths: `TypeCorrect`,
`OnlySchedulable`, `LegacyImagesBoot`, `LabelsAndTagsRight`, `QuotaJudged` and
`FailedLeavesNothing`, from `CreateInv`: the properties with `Checked`, what the calls made so
far have established, which must survive crashes, stored specs and outside changes
until `InstancesInsert`.  `FailedLeavesNothing` adds `AttemptInv`: an attempt is made
only of a machine that has no instance and is not Failed, and one that has asked for
an instance does not end as an invalid configuration even if the answer is lost.

`DrainControllerProofs`, for all machines and disturbances: `TypeCorrect`,
`OneNodeAtATime`, `DrainsAreDue` and `DrainedTruthfully`, from `DrainInv`: what
`Reconcile` read of the machine still holds at the eviction, and between the list and
the cordon no Node of ours appears.

`TerminationHandlerProofs`, for all bounds: `TypeCorrect`, `MarkedOnNotice`,
`KubeletUpdatesKept`, `TransitionTimeKept`, from `HandlerInv` (run gets past its
second look only with a notice; a copy with the stored version is the stored Node).
`MarkingReportedTruly` and `NoGoroutineLeft` add `OutcomeInv`: there is a result exactly
when run has ended, and no marking has begun before its context was chosen.

`MachineSetControllerProofs`, for all machine types, edits and disturbances:

| Theorem | Inductive invariant |
|---|---|
| `TypeCorrect` | `TypeInv`: `TypeOK`, and the cache of machine types holds only what GCP knows |
| `NotGivenUpEarly` | `WorkInv`: what the reconcile has established at each call, that a MachineSet which is not queued is cached as the last reconcile read it, and that it is stored as it is cached unless the watch has something to deliver |
| `ChoicesAreKept` | `ChoicesInv`: the copy a reconcile works on has the choices it read |

Every safety property of the passing runs, invariant, action property or refinement,
is a theorem.  The type invariants, `BackendsExist`, `MembersServe` and
`NothingLeftRunning` are proved and not repeated in a run.

Only model-checked: everything under fairness (`ImplementsContract`,
`ProvisioningSettles`, `MasterServes`, `MastersServe`, `DeletionsComplete`,
`CreateSettles`, `DrainsComplete`, `NoticeReported`, `StopReturns`,
`CapacityConverges`, `ImageBoots`), which is out of the prover's reach.

## Not modelled

* The `AuthoritativeAPI` gate of the machine controller: behind a feature gate it
  pauses the reconciliation of a machine altogether, in favour of another API whose
  controllers are not in this repository.
* How pods are evicted: `RunNodeDrain` is one step that empties the Node or fails.
* Fields of the instance that `create` copies from the spec without looking at them:
  disk sizes and types, networks, service accounts, encryption keys, metadata.
* The strings: names, links, annotations and the JSON codec (`util/register.go`).
  What can be wrong with one is an outcome of the step that parses it.
* `cmd/manager/main.go` beyond the cache, the resync and the number of workers:
  flags, leader election, health checks, feature gates.  With leader election there is
  one manager at a time; an old leader that still acts is not modelled.
* Metrics, events and logs, which nothing reads back.
* The quota check with numbers outside 32 bits is modelled, but nothing is claimed of
  it: what the conversion yields depends on the processor.
