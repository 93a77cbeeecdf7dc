------------------------- MODULE MachineLifecycle -------------------------
(***************************************************************************)
(* The life of one Machine under the machine controller (vendored from     *)
(* machine-api-operator) and the GCP actuator of this repository.          *)
(*                                                                         *)
(* The controller works on one machine in one goroutine at a time.  One    *)
(* action is one call to the API server or to GCP, together with what the  *)
(* code does between that call and the next one: users, the drain          *)
(* controller, the cloud and crashes interleave at every call.             *)
(***************************************************************************)
EXTENDS MachineObject, Naturals

CONSTANTS
    Role,          \* "master" or "worker": the machine's role label
    NPools,        \* number of target pools the provider spec names
    StartSpecs,    \* provider specs the machine may be created with
    EditSpecs,     \* provider specs its owner may later change it to
    StartHooks,    \* whether it may be created with a pre-terminate hook
    StartGroups,   \* places whose control plane instance group exists
    CacheLag,      \* whether a reconcile may start from a stale cache
    MaxFaults      \* bound on failed calls, crashes and outside interference

ASSUME LifecycleAssumption ==
    /\ Role \in {"master", "worker"}
    /\ NPools \in Nat
    /\ StartSpecs \subseteq Specs /\ StartSpecs # {}
    /\ EditSpecs \subseteq Specs
    /\ StartHooks \subseteq BOOLEAN
    /\ StartGroups \subseteq ValidPlaces
    /\ CacheLag \in BOOLEAN
    /\ MaxFaults \in Nat

VARIABLES
    api,       \* the stored object
    cached,    \* the informer cache of the manager
    fresh,     \* the copies whose resourceVersion is the stored one
    pc,        \* the call the controller makes next
    m,         \* the controller's copy of the machine
    s,         \* the machine scope's copy
    to,        \* the phase the controller will write, or "none"
    locked,    \* the scope's status patch carries a resourceVersion
    inst,      \* the instance at each place, or "none"
    pools,     \* the places whose instance link each target pool lists
    groups,    \* the places whose control plane instance group exists
    backends,  \* the places whose group is a backend of the API service
    members,   \* the places whose instance is a member of the group there
    node,      \* the machine's Node object exists
    removed,   \* somebody has deleted the instance behind the API's back
    drain,     \* "none", or Terminable in the drain controller's copy
    faults     \* disturbances still to come

storeVars == <<api, fresh>>
ctlVars == <<pc, m, s, to, locked>>
poolVars == <<pools>>
groupVars == <<groups, backends, members>>
cloudVars == <<inst, pools, groups, backends, members, node, removed>>
vars == <<api, cached, fresh, pc, m, s, to, locked, inst, pools, groups,
          backends, members, node, removed, drain, faults>>

Steps ==
    {"idle", "status", "update.pools", "register", "update.get", "create",
     "create.get", "close.spec", "close.status", "delete.pools", "delete.get",
     "unregister", "delete", "exists", "deleteNode", "removeFinalizer"}

\* What a variable of the controller holds between two reconciles.
Blank == NewMachine(CHOOSE spec \in StartSpecs : TRUE, FALSE)

TypeOK ==
    /\ api \in Machine /\ cached \in Machine
    /\ fresh \subseteq {"cache", "m", "scope"}
    /\ pc \in Steps /\ m \in Machine /\ s \in Machine
    /\ to \in Phases \cup {"none"} /\ locked \in BOOLEAN
    /\ inst \in [Places -> CloudStates \cup {"none"}]
    /\ pools \in [1..NPools -> SUBSET Places]
    /\ groups \subseteq Places /\ backends \subseteq Places
    /\ members \subseteq Places
    /\ node \in BOOLEAN /\ removed \in BOOLEAN
    /\ drain \in ConditionStatus \cup {"none"}
    /\ faults \in 0..MaxFaults

Init ==
    /\ \E spec \in StartSpecs, hook \in StartHooks : api = NewMachine(spec, hook)
    /\ cached = api /\ fresh = {"cache"}
    /\ pc = "idle" /\ m = Blank /\ s = Blank /\ to = "none" /\ locked = FALSE
    /\ inst = [p \in Places |-> "none"]
    /\ pools = [i \in 1..NPools |-> {}]
    /\ groups = StartGroups /\ backends = StartGroups /\ members = {}
    /\ node = FALSE /\ removed = FALSE /\ drain = "none" /\ faults = MaxFaults

----------------------------------------------------------------------------
(***************************************************************************)
(* Shared pieces                                                           *)
(***************************************************************************)

\* A call fails, the process dies, or somebody interferes.
Disturbance == faults > 0 /\ faults' = faults - 1

\* A write to the stored object.  It makes every copy out of date but the
\* ones the response is decoded into.  A patch that changes nothing does not
\* change the resourceVersion, but one that leaves the fields of the model
\* alone may still change others: labels, annotations, error messages.
Write(new, copies) ==
    /\ api' = new
    /\ fresh' = copies \/ (new = api /\ fresh' = fresh \cup copies)

\* The reconcile is over; the workqueue will start another.
Done == pc' = "idle" /\ m' = Blank /\ s' = Blank /\ to' = "none" /\ locked' = FALSE

\* The next call of the same reconcile.
Call(step) == pc' = step /\ UNCHANGED <<m, s, to, locked>>

\* The next call is updateStatus with this phase.
Report(phase) == pc' = "status" /\ to' = phase /\ UNCHANGED <<m, s, locked>>

\* The scope is closed: its copy is persisted, then the phase is written.
Close(copy, phase) ==
    pc' = "close.spec" /\ s' = copy /\ to' = phase /\ UNCHANGED <<m, locked>>

\* Reconcile starts on what the cache holds.
Readable == pc = "idle" /\ cached.present /\ (CacheLag \/ "cache" \in fresh)

\* Variant: an unknown zone is taken for a missing instance.
existsZoneIgnored(spec) ==
    IF ~spec.wellFormed THEN "error"
    ELSE IF spec.place \notin ValidPlaces \/ inst[spec.place] = "none"
    THEN "missing" ELSE "found"

\* InstancesGet for a spec: what the reconciler's exists makes of the answer.
exists(spec) ==
    IF ~spec.wellFormed THEN "error"
    ELSE IF spec.place \notin ValidPlaces THEN "invalidConfiguration"
    ELSE IF inst[spec.place] = "none" THEN "missing" ELSE "found"

\* Variant: every failed InstancesGet is taken for a missing instance.
ErrorMeansMissing(answer, spec) ==
    \/ answer = exists(spec) /\ UNCHANGED faults
    \/ answer = "missing" /\ Disturbance

\* exists, or an error for a reason that will go away.
ExistsAnswer(answer, spec) ==
    \/ answer = exists(spec) /\ UNCHANGED faults
    \/ answer = "error" /\ Disturbance

\* Variant: the last pool is skipped when the instance is to be removed.
LastPoolSkipped(place, desired, k) ==
    [i \in 1..NPools |->
        IF i > k \/ (~desired /\ i = NPools) THEN pools[i]
        ELSE IF desired THEN pools[i] \cup {place} ELSE pools[i] \ {place}]

\* The pools after the first k of them have been visited.
processTargetPools(place, desired, k) ==
    [i \in 1..NPools |->
        IF i > k THEN pools[i]
        ELSE IF desired THEN pools[i] \cup {place} ELSE pools[i] \ {place}]

\* TargetPoolsGet answers for no pool of a project that does not exist.
PoolsReachable(place) == NPools = 0 \/ place \notin UnknownProjects

----------------------------------------------------------------------------
(***************************************************************************)
(* Reconcile, machine not deleted                                          *)
(***************************************************************************)

\* The finalizer is added by an Update, which is refused unless the copy is
\* the stored one; either way the reconcile ends.
AddFinalizer ==
    /\ Readable /\ ~cached.deleted /\ ~cached.finalizer
    /\ \/ /\ "cache" \in fresh /\ api.present
          /\ Write([api EXCEPT !.finalizer = TRUE], {})
          /\ UNCHANGED faults
       \/ "cache" \notin fresh /\ UNCHANGED <<storeVars, faults>>
       \/ Disturbance /\ UNCHANGED storeVars
    /\ UNCHANGED <<cached, ctlVars, cloudVars, drain>>

\* Variant: a deleted machine is not filtered out.
ReconcilableIfDeleted ==
    Readable /\ cached.finalizer /\ ~machineIsFailed(cached)

\* Reconcile gets as far as the actuator's Exists.
Reconcilable ==
    Readable /\ ~cached.deleted /\ cached.finalizer /\ ~machineIsFailed(cached)

\* What Reconcile does with the answer of the actuator's Exists.
AfterExists(answer, mach) ==
    \/ answer = "error" /\ pc' = "status" /\ to' = Deref(mach.phase)
    \/ /\ answer = "invalidConfiguration"
       /\ pc' = "status"
       /\ to' = IF mach.phase = "nil" THEN "Failed" ELSE mach.phase
    \/ answer = "found" /\ pc' = "update.pools" /\ to' = "none"
    \/ /\ answer = "missing" /\ machineIsProvisioned(mach)
       /\ pc' = "status" /\ to' = "Failed"
    \/ /\ answer = "missing" /\ ~machineIsProvisioned(mach)
       /\ IF Deref(mach.phase) = ""
          THEN pc' = "status" /\ to' = "Provisioning"
          ELSE pc' = "create" /\ to' = "none"

CheckExists ==
    /\ Reconcilable
    /\ m' = cached
    /\ fresh' = (fresh \ {"m", "scope"})
                  \cup (IF "cache" \in fresh THEN {"m"} ELSE {})
    /\ \E answer \in {"error", "invalidConfiguration", "found", "missing"} :
          ExistsAnswer(answer, cached.spec) /\ AfterExists(answer, cached)
    /\ UNCHANGED <<api, cached, s, locked, cloudVars, drain>>

\* The phase is patched into the status, and the reconcile ends.  For a
\* failed machine an annotation is patched first, which may be all that is
\* stored.
PatchStatus ==
    /\ pc = "status"
    /\ \/ /\ api.present
          /\ \E others \in BOOLEAN : Write(updateStatus(api, m, to, others), {})
          /\ UNCHANGED faults
       \/ ~api.present /\ UNCHANGED <<storeVars, faults>>
       \/ Disturbance /\ UNCHANGED storeVars
       \/ Disturbance /\ api.present /\ to = "Failed" /\ Write(api, {})
    /\ Done
    /\ UNCHANGED <<cached, cloudVars, drain>>

----------------------------------------------------------------------------
(***************************************************************************)
(* actuator.Create                                                         *)
(***************************************************************************)

\* The instance InstancesInsert asks for comes into being.
Inserted(place) ==
    /\ place \in ValidPlaces /\ inst[place] = "none"
    /\ inst' = [inst EXCEPT ![place] = "PROVISIONING"]

CreateFailed(phase) == Close([m EXCEPT !.created = "False"], phase)

\* Everything create does up to and including InstancesInsert.
Create ==
    /\ pc = "create"
    /\ \/ Inserted(m.spec.place) /\ Call("create.get") /\ UNCHANGED faults
       \/ CreateFailed("Failed") /\ UNCHANGED <<inst, faults>> \* answer is a 4xx
       \/ CreateFailed("none") /\ Disturbance /\ UNCHANGED inst
       \/ CreateFailed("none") /\ Disturbance /\ Inserted(m.spec.place) \* answer lost
       \/ Report("Failed") /\ UNCHANGED <<inst, faults>> \* configuration refused
       \/ Done /\ Disturbance /\ UNCHANGED inst          \* scope or lookup failed
    /\ UNCHANGED <<storeVars, cached, poolVars, groupVars, node, removed, drain>>

(***************************************************************************)
(* actuator.Update                                                         *)
(***************************************************************************)

\* The first k target pools get the instance; if k is not all of them the
\* call for the next one failed and Update returns its error.
UpdatePools ==
    /\ pc = "update.pools"
    /\ \/ /\ pools' = processTargetPools(m.spec.place, TRUE, NPools)
          /\ Call(IF Role = "master" THEN "register" ELSE "update.get")
          /\ UNCHANGED faults
       \/ /\ \E k \in 0..NPools :
               pools' = processTargetPools(m.spec.place, TRUE, k)
          /\ Report(Deref(m.phase)) /\ Disturbance
    /\ UNCHANGED <<storeVars, cached, inst, groupVars, node, removed, drain>>

\* fetchRunningInstancesInInstanceGroup lists the instance.
Listed(place) == place \in members /\ inst[place] = "RUNNING"

\* The decision to add the instance rests on the instance state the last
\* reconcile stored, not on what the instance is now.
registerInstance ==
    LET place == m.spec.place
        adds == ~Listed(place) /\ m.instanceState = "RUNNING"
    IN IF adds /\ inst[place] = "none"
       THEN Report(Deref(m.phase)) /\ UNCHANGED members
       ELSE /\ members' = IF adds THEN members \cup {place} ELSE members
            /\ Call("update.get")

\* registerInstanceToControlPlaneInstanceGroup: the group and its backend
\* are created if need be, then the instance is added to the group.
Register ==
    /\ pc = "register"
    /\ \/ /\ groups' = groups \cup {m.spec.place}
          /\ backends' = backends \cup {m.spec.place}
          /\ registerInstance /\ UNCHANGED faults
       \/ /\ groups' \in {groups, groups \cup {m.spec.place}}
          /\ backends' \in {backends, backends \cup (groups' \cap {m.spec.place})}
          /\ Report(Deref(m.phase)) /\ Disturbance /\ UNCHANGED members
    /\ UNCHANGED <<storeVars, cached, inst, poolVars, node, removed, drain>>

\* Variant: the Node of the machine is not looked at.
PhaseIgnoresNode(mach) ==
    IF ~machineIsProvisioned(mach) THEN Deref(mach.phase) ELSE "Provisioned"

\* Variant: a provisioned machine is taken to be Running.
PhaseWithoutNode(mach) ==
    IF ~machineIsProvisioned(mach) THEN Deref(mach.phase) ELSE "Running"

\* The phase Reconcile writes after a successful Update.  It looks at the
\* copy it read before the actuator ran, which the actuator never changes.
PhaseAfterUpdate(mach) ==
    IF ~machineIsProvisioned(mach) THEN Deref(mach.phase)
    ELSE IF mach.nodeRef THEN "Running" ELSE "Provisioned"

\* reconcileMachineWithCloudState, at the end of create and of update.
ReadInstance ==
    /\ pc \in {"create.get", "update.get"}
    /\ LET state == inst[m.spec.place]
           creating == pc = "create.get"
       IN \/ /\ state # "none"
             /\ Close(reconciledWithCloud(m, state),
                      IF creating THEN "none"
                      ELSE IF state = "RUNNING" THEN PhaseAfterUpdate(m)
                      ELSE Deref(m.phase))
             /\ UNCHANGED faults
          \/ /\ (state = "none" /\ UNCHANGED faults) \/ Disturbance
             /\ IF creating THEN Done ELSE Report(Deref(m.phase))
    /\ UNCHANGED <<storeVars, cached, cloudVars, drain>>

(***************************************************************************)
(* scope.Close, after Create and Update                                    *)
(***************************************************************************)

\* Close has returned; its error matters only to an Update that had none.
Closed(phase) ==
    IF phase = "none" THEN Done ELSE Report(phase)

CloseFailed == Closed(IF to \in {"none", "Failed"} THEN to ELSE Deref(m.phase))

\* The response of the patch is decoded into the scope's copy.  When that
\* changes its resourceVersion, the status patch below will carry it.
PersistSpec ==
    /\ pc = "close.spec"
    /\ \/ /\ api.present
          /\ Write(patchMachine(api, m, s), {"scope"})
          /\ locked' = ("m" \notin fresh')
          /\ pc' = "close.status" /\ UNCHANGED <<m, s, to, faults>>
       \/ ~api.present /\ CloseFailed /\ UNCHANGED <<storeVars, faults>>
       \/ CloseFailed /\ Disturbance /\ UNCHANGED storeVars
    /\ UNCHANGED <<cached, cloudVars, drain>>

PersistStatus ==
    /\ pc = "close.status"
    /\ LET refused == ~api.present \/ (locked /\ "scope" \notin fresh)
       IN \/ /\ ~refused
             /\ Write(patchMachineStatus(api, m, s), {})
             /\ Closed(to) /\ UNCHANGED faults
          \/ refused /\ CloseFailed /\ UNCHANGED <<storeVars, faults>>
          \/ CloseFailed /\ Disturbance /\ UNCHANGED storeVars
    /\ UNCHANGED <<cached, cloudVars, drain>>

----------------------------------------------------------------------------
(***************************************************************************)
(* Reconcile, machine deleted                                              *)
(***************************************************************************)

\* Variant: the drain is not waited for.
MayBeTerminatedUndrained(mach) == mach.finalizer /\ ~mach.hook

\* The gates between the Deleting phase and the actuator's Delete.
MayBeTerminated(mach) == mach.finalizer /\ mach.drained /\ ~mach.hook

\* Deleting is patched into the status; the response replaces the
\* controller's copy, so the checks that follow see the stored object.
MarkDeleting ==
    /\ Readable /\ cached.deleted
    /\ \/ /\ api.present
          /\ Write(updateStatus(api, cached, "Deleting", FALSE), {"m"})
          /\ IF MayBeTerminated(api')
             THEN /\ pc' = "delete.pools" /\ m' = api'
                  /\ UNCHANGED <<s, to, locked>>
             ELSE Done
          /\ UNCHANGED faults
       \/ ~api.present /\ UNCHANGED <<storeVars, ctlVars, faults>>
       \/ Disturbance /\ UNCHANGED <<storeVars, ctlVars>>
    /\ UNCHANGED <<cached, cloudVars, drain>>

\* actuator.Delete starts by taking the instance out of the target pools.
\* An invalid configuration error of newMachineScope is passed over by the
\* controller when the machine has no addresses.
DeletePools ==
    /\ pc = "delete.pools"
    /\ \/ /\ PoolsReachable(m.spec.place)
          /\ pools' = processTargetPools(m.spec.place, FALSE, NPools)
          /\ Call("delete.get") /\ UNCHANGED faults
       \/ /\ ~PoolsReachable(m.spec.place)
          /\ Done /\ UNCHANGED <<pools, faults>>
       \/ /\ \E k \in 0..NPools :
               pools' = processTargetPools(m.spec.place, FALSE, k)
          /\ Done /\ Disturbance
       \/ /\ ~m.addresses /\ Call("exists")
          /\ Disturbance /\ UNCHANGED pools
    /\ UNCHANGED <<storeVars, cached, inst, groupVars, node, removed, drain>>

\* Variant: a missing instance is an error to delete.
MissingIsError(answer) ==
    \/ answer \in {"error", "missing"} /\ Done
    \/ /\ answer = "invalidConfiguration"
       /\ IF m.providerID # NoPlace THEN Done ELSE Call("exists")
    \/ /\ answer = "found"
       /\ Call(IF Role = "master" THEN "unregister" ELSE "delete")

\* What delete does with the answer of exists.  An invalid place is taken for
\* a machine that never had an instance, unless it has a provider ID.
AfterLookup(answer) ==
    \/ answer = "error" /\ Done
    \/ /\ answer = "invalidConfiguration"
       /\ IF m.providerID # NoPlace THEN Done ELSE Call("exists")
    \/ answer = "missing" /\ Call("exists")
    \/ /\ answer = "found"
       /\ Call(IF Role = "master" THEN "unregister" ELSE "delete")

DeleteLookup ==
    /\ pc = "delete.get"
    /\ \E answer \in {"error", "invalidConfiguration", "found", "missing"} :
          ExistsAnswer(answer, m.spec) /\ AfterLookup(answer)
    /\ UNCHANGED <<storeVars, cached, cloudVars, drain>>

\* Only a running instance is listed, so only a running one is removed.
unregisterInstance ==
    /\ members' = IF Listed(m.spec.place) THEN members \ {m.spec.place} ELSE members
    /\ Call("delete")

\* Listing the instances of a group that does not exist is an error.
Unregister ==
    /\ pc = "unregister"
    /\ \/ /\ m.spec.place \in groups
          /\ unregisterInstance /\ UNCHANGED faults
       \/ m.spec.place \notin groups /\ Done /\ UNCHANGED <<members, faults>>
       \/ Disturbance /\ Done /\ UNCHANGED members
    /\ UNCHANGED <<storeVars, cached, inst, poolVars, groups, backends, node,
                   removed, drain>>

\* InstancesDelete.  Whatever the answer, the deletion is tried again later.
DeleteInstance ==
    /\ pc = "delete"
    /\ \/ /\ inst[m.spec.place] # "none"
          /\ inst' = [inst EXCEPT ![m.spec.place] = "STOPPING"]
          /\ UNCHANGED faults
       \/ inst[m.spec.place] = "none" /\ UNCHANGED <<inst, faults>>
       \/ Disturbance /\ UNCHANGED inst
    /\ Done
    /\ UNCHANGED <<storeVars, cached, poolVars, groupVars, node, removed, drain>>

\* The actuator's Exists, after its Delete has returned without an error.
FinalExists ==
    /\ pc = "exists"
    /\ \E answer \in {"error", "invalidConfiguration", "found", "missing"} :
          /\ ExistsAnswer(answer, m.spec)
          /\ IF \/ answer = "missing"
                \/ /\ answer = "invalidConfiguration"
                   /\ m.phase = "Deleting" /\ m.providerID = NoPlace
             THEN Call(IF m.nodeRef THEN "deleteNode" ELSE "removeFinalizer")
             ELSE Done
    /\ UNCHANGED <<storeVars, cached, cloudVars, drain>>

DeleteNode ==
    /\ pc = "deleteNode"
    /\ \/ node' = FALSE /\ Call("removeFinalizer") /\ UNCHANGED faults
       \/ UNCHANGED node /\ Done /\ Disturbance
    /\ UNCHANGED <<storeVars, cached, inst, poolVars, groupVars, removed, drain>>

\* The Update that releases the object is refused when the copy is stale.
RemoveFinalizer ==
    /\ pc = "removeFinalizer"
    /\ \/ /\ api.present /\ "m" \in fresh
          /\ Write([api EXCEPT !.finalizer = FALSE, !.present = FALSE], {})
          /\ UNCHANGED faults
       \/ /\ ~(api.present /\ "m" \in fresh)
          /\ UNCHANGED <<storeVars, faults>>
       \/ Disturbance /\ UNCHANGED storeVars
    /\ Done
    /\ UNCHANGED <<cached, cloudVars, drain>>

----------------------------------------------------------------------------
(***************************************************************************)
(* The drain controller                                                    *)
(***************************************************************************)

DrainStart ==
    /\ drain = "none" /\ cached.present /\ (CacheLag \/ "cache" \in fresh)
    /\ cached.deleted /\ cached.phase = "Deleting" /\ ~cached.drained
    /\ drain' = cached.terminable
    /\ UNCHANGED <<storeVars, cached, ctlVars, cloudVars, faults>>

\* Drained is patched with the whole list of conditions of the copy.
DrainFinish ==
    /\ drain # "none" /\ drain' = "none"
    /\ \/ /\ api.present
          /\ Write([api EXCEPT !.drained = TRUE, !.terminable = drain], {})
          /\ UNCHANGED faults
       \/ ~api.present /\ UNCHANGED <<storeVars, faults>>
       \/ Disturbance /\ UNCHANGED storeVars
    /\ UNCHANGED <<cached, ctlVars, cloudVars>>

----------------------------------------------------------------------------
(***************************************************************************)
(* Everything else that acts on the machine                                *)
(***************************************************************************)

\* An object without finalizers disappears at once.
OwnerDeletes ==
    /\ api.present /\ ~api.deleted
    /\ Write([api EXCEPT !.deleted = TRUE, !.present = api.finalizer], {})
    /\ UNCHANGED <<cached, ctlVars, cloudVars, drain, faults>>

OwnerEdits ==
    /\ api.present
    /\ \E spec \in EditSpecs \ {api.spec} : Write([api EXCEPT !.spec = spec], {})
    /\ UNCHANGED <<cached, ctlVars, cloudVars, drain, faults>>

HookRemoved ==
    /\ api.present /\ api.hook
    /\ Write([api EXCEPT !.hook = FALSE], {})
    /\ UNCHANGED <<cached, ctlVars, cloudVars, drain, faults>>

\* The informer's watch brings the cache up to date.
WatchDelivers ==
    /\ "cache" \notin fresh
    /\ cached' = api /\ fresh' = fresh \cup {"cache"}
    /\ UNCHANGED <<api, ctlVars, cloudVars, drain, faults>>

\* The kubelet of a running instance registers its Node.
NodeJoins ==
    /\ ~node /\ \E p \in Places : inst[p] = "RUNNING"
    /\ node' = TRUE
    /\ UNCHANGED <<storeVars, cached, ctlVars, inst, poolVars, groupVars,
                   removed, drain, faults>>

\* The nodelink controller finds the Node by the machine's addresses.
NodeLinked ==
    /\ api.present /\ node /\ api.addresses /\ ~api.nodeRef
    /\ Write([api EXCEPT !.nodeRef = TRUE], {})
    /\ UNCHANGED <<cached, ctlVars, cloudVars, drain, faults>>

InstanceStarts ==
    /\ \E p \in Places :
          /\ inst[p] = "PROVISIONING"
          /\ inst' = [inst EXCEPT ![p] = "RUNNING"]
    /\ UNCHANGED <<storeVars, cached, ctlVars, poolVars, groupVars, node,
                   removed, drain, faults>>

\* A deleted instance disappears, and with it its instance group membership.
InstanceVanishes ==
    /\ \E p \in Places :
          /\ inst[p] = "STOPPING"
          /\ inst' = [inst EXCEPT ![p] = "none"]
          /\ members' = members \ {p}
    /\ UNCHANGED <<storeVars, cached, ctlVars, poolVars, groups, backends,
                   node, removed, drain, faults>>

\* Somebody stops, restarts or deletes the instance behind the API's back.
Interference ==
    /\ Disturbance
    /\ \E p \in Places :
          \/ /\ inst[p] = "RUNNING" /\ inst' = [inst EXCEPT ![p] = "TERMINATED"]
             /\ UNCHANGED removed
          \/ /\ inst[p] = "TERMINATED"
             /\ inst' = [inst EXCEPT ![p] = "PROVISIONING"] /\ UNCHANGED removed
          \/ /\ inst[p] \in {"PROVISIONING", "RUNNING", "TERMINATED"}
             /\ inst' = [inst EXCEPT ![p] = "STOPPING"] /\ removed' = TRUE
    /\ UNCHANGED <<storeVars, cached, ctlVars, poolVars, groupVars, node, drain>>

\* The manager dies; the next one starts with a newly listed cache.
Crash ==
    /\ pc # "idle" \/ drain # "none"
    /\ Disturbance
    /\ Done /\ drain' = "none"
    /\ cached' = api /\ fresh' = {"cache"}
    /\ UNCHANGED <<api, cloudVars>>

----------------------------------------------------------------------------
Reconcile ==
    \/ AddFinalizer \/ CheckExists \/ PatchStatus \/ Create \/ UpdatePools
    \/ Register \/ ReadInstance \/ PersistSpec \/ PersistStatus
    \/ MarkDeleting \/ DeletePools \/ DeleteLookup \/ Unregister
    \/ DeleteInstance \/ FinalExists \/ DeleteNode \/ RemoveFinalizer

Environment ==
    \/ DrainStart \/ DrainFinish
    \/ OwnerDeletes \/ OwnerEdits \/ HookRemoved \/ WatchDelivers
    \/ NodeJoins \/ NodeLinked
    \/ InstanceStarts \/ InstanceVanishes \/ Interference \/ Crash

Next == Reconcile \/ Environment

Spec == Init /\ [][Next]_vars

\* The workqueue retries on errors and the manager resyncs every ten
\* minutes, so a reconcile that can run does run; the watch, the drain and
\* nodelink controllers, hook owners, kubelets and GCP get their work done.
\* Nothing is assumed of owners, of interference or of crashes.
FairSpec ==
    /\ Spec
    /\ WF_vars(Reconcile)
    /\ WF_vars(DrainStart) /\ WF_vars(DrainFinish)
    /\ WF_vars(HookRemoved) /\ WF_vars(WatchDelivers)
    /\ WF_vars(NodeJoins) /\ WF_vars(NodeLinked)
    /\ WF_vars(InstanceStarts) /\ WF_vars(InstanceVanishes)

----------------------------------------------------------------------------
(***************************************************************************)
(* Properties                                                              *)
(***************************************************************************)

\* Nothing is left behind: when the finalizer is gone the machine has no
\* instance at any place, and its Node, if it was ever linked, is deleted.
\* The finalizer is removed several calls after delete() and Exists() looked
\* (reconciler.go delete, actuator.go Exists, Reconcile's last Update).
NoOrphan ==
    ~api.present => /\ \A p \in Places : inst[p] = "none"
                    /\ api.nodeRef => ~node

\* A machine whose provider ID was ever persisted is not released while its
\* instance lives, whatever its spec was changed to (actuator.go Exists,
\* "If the machine has a provider ID, then we believe something exists in
\* the cloud").
KnownInstanceNotLost ==
    ~api.present /\ api.providerID # NoPlace => \A p \in Places : inst[p] = "none"

\* A machine whose addresses were ever persisted leaves no link to its
\* instance behind in a target pool: delete() visits every pool before it
\* looks for the instance, and an error of any of them keeps the finalizer.
PoolsReleased ==
    ~api.present /\ api.addresses => \A i \in 1..NPools : pools[i] = {}

\* InstancesDelete is only ever called for a machine that is stored as
\* deleted and drained and has no pre-terminate hook, and whose instance no
\* target pool lists any more (Reconcile's gates, delete's order).
DeleteOnlyWhenReady ==
    pc = "delete" =>
        /\ api.deleted /\ api.drained /\ ~api.hook
        /\ \A i \in 1..NPools : m.spec.place \notin pools[i]

\* Addresses are never stored without a provider ID: PatchMachine patches
\* the object first and its status second, and gives up in between.
AddressesAfterProviderID == api.addresses => api.providerID # NoPlace

\* The stored phase claims nothing that is not so: a Provisioned machine "has
\* been given a providerID and addresses", and a Running one its Node as well
\* (types_machine.go), although the phase is written in one patch and they in
\* others, by other copies and controllers (Reconcile, PatchMachine).
PhaseTruthful ==
    /\ api.phase \in {"Provisioned", "Running"} =>
          api.providerID # NoPlace /\ api.addresses
    /\ api.phase = "Running" => api.nodeRef

\* Once the stored phase is Deleting it stays, and no instance is created:
\* no reconcile that started from an older copy is still in flight.
InstanceCreated == \E p \in Places : inst[p] = "none" /\ inst'[p] # "none"
DeletionIsFinal ==
    [][api.phase = "Deleting" => api'.phase = "Deleting" /\ ~InstanceCreated]_vars

\* A machine that has a provider ID or addresses is given up as Failed only if
\* somebody else has deleted its instance ("This can only be reached if an
\* instance was deleted outside the machine API", controller.go Reconcile):
\* neither an edit of its spec, a failed call, a stale copy nor a deletion
\* the controller itself has begun passes for that.
FailedOnlyIfRemoved ==
    pc = "status" /\ to = "Failed" /\ machineIsProvisioned(m) => removed

\* A machine that has Failed gets no instance ("It won't reconcile",
\* controller.go Reconcile).  The cache may be older than the phase: then the
\* controller does not see it, and this does not hold.
FailedNotRecreated == [][InstanceCreated => ~machineIsFailed(api)]_vars

\* A machine that is deleted is eventually released, however far its
\* provisioning had come and whatever failed (Reconcile and delete, which
\* starts over after every error and after InstancesDelete itself).
DeletionCompletes == api.deleted ~> ~api.present

\* A machine with a valid place that is not deleted ends up Running or
\* Failed, for good, unless somebody keeps its instance stopped: every phase
\* Reconcile may leave it in leads on, whatever failed on the way.
ProvisioningSettles ==
    <>[](\/ api.deleted \/ api.spec.place \notin ValidPlaces
         \/ api.phase \in {"Running", "Failed"}
         \/ inst[api.spec.place] = "TERMINATED")

\* A control plane machine with a valid place ends up in the instance group
\* of its zone, and
\* that group behind the API's backend service, although the decision to add
\* it looks at the instance state an earlier reconcile stored
\* (registerInstanceToControlPlaneInstanceGroup).
MasterServes ==
    <>[](\/ api.deleted \/ api.spec.place \notin ValidPlaces
         \/ api.phase = "Failed"
         \/ inst[api.spec.place] = "TERMINATED"
         \/ api.spec.place \in members \cap backends)

\* A machine with an invalid zone or project ends up Failed (actuator.go
\* Exists, "we have to make sure the phase goes as Failed").
InvalidPlaceFails ==
    <>(api.deleted \/ api.phase = "Failed" \/ api.spec.place \in ValidPlaces)

----------------------------------------------------------------------------
(***************************************************************************)
(* The contract the details implement                                      *)
(***************************************************************************)

Stage ==
    IF ~api.present THEN "gone"
    ELSE IF api.phase = "Deleting" THEN "leaving"
    ELSE IF api.deleted THEN "asked" ELSE "held"

Contract ==
    INSTANCE MachineContract WITH
        stage <- Stage, ready <- api.drained /\ ~api.hook,
        instance <- inst[api.spec.place] # "none", attached <- api.nodeRef /\ node

\* Every step of the controllers, of the cloud and of a crash is a step the
\* contract allows, or invisible to it, as long as nobody moves the machine
\* to another place (Reconcile, the actuator and everything in between).
KeepsContract == Contract!Spec

\* And the contract's promise that a deletion ends is kept as well.
ImplementsContract == Contract!FairSpec
=============================================================================
