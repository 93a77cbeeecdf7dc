--------------------------- MODULE ControlPlane ---------------------------
(***************************************************************************)
(* The control plane machines of a cluster and what they share: one        *)
(* instance group per zone and the backend service of the API, a list of   *)
(* instance groups that the reconciler reads, extends and writes back.     *)
(*                                                                         *)
(* Each machine is reconciled by one goroutine at a time, several machines *)
(* at once if --max-concurrent-reconciles allows it.  One action is one    *)
(* call to GCP with the code up to the next one.  What happens to a single *)
(* machine before its instance exists, and to its object, is the subject   *)
(* of MachineLifecycle; here a machine starts with an instance.            *)
(***************************************************************************)
EXTENDS Naturals, Sequences, FiniteSets

CONSTANTS
    Masters,        \* the control plane machines
    Zones,          \* the zones they may be in
    Placements,     \* the zones the machines are in: functions from Masters
    StartBackends,  \* the backends of the service after the installation
    Workers,        \* --max-concurrent-reconciles
    MaxFaults       \* bound on failed calls, crashes and interference

ASSUME ControlPlaneAssumption ==
    /\ IsFiniteSet(Masters)
    /\ Placements \subseteq [Masters -> Zones]
    /\ StartBackends \in Seq(Zones)
    /\ \A i, j \in DOMAIN StartBackends : StartBackends[i] = StartBackends[j] => i = j
    /\ Workers \in Nat \ {0}
    /\ MaxFaults \in Nat

VARIABLES
    zone,         \* the zone in each machine's provider spec
    stage,        \* the machine is wanted, deleted or released
    pc,           \* the next call of the machine's reconcile
    seenRunning,  \* the machines whose stored InstanceState is RUNNING
    copy,         \* the backends a reconcile has read
    fresh,        \* the machines whose copy has the current fingerprint
    inst,         \* the machine's instance
    groups,       \* the zones whose instance group exists
    members,      \* the machines whose instance is in the group of its zone
    backends,     \* the instance groups behind the backend service
    requests,     \* the InstancesDelete request IDs GCP remembers
    faults        \* disturbances still to come

reconcileVars == <<pc, copy>>
cloudVars == <<inst, groups, members, backends, fresh, requests>>
vars == <<zone, stage, pc, seenRunning, copy, fresh, inst, groups, members,
          backends, requests, faults>>

Steps == {"idle", "group", "insertGroup", "checkBackend", "readBackends",
          "writeBackends", "list", "add", "get", "unlist", "remove", "delete"}

TypeOK ==
    /\ zone \in [Masters -> Zones]
    /\ stage \in [Masters -> {"wanted", "deleted", "released"}]
    /\ pc \in [Masters -> Steps]
    /\ seenRunning \subseteq Masters
    /\ copy \in [Masters -> Seq(Zones)] /\ fresh \subseteq Masters
    /\ inst \in [Masters -> {"none", "PROVISIONING", "RUNNING", "STOPPING", "TERMINATED"}]
    /\ groups \subseteq Zones /\ members \subseteq Masters
    /\ backends \in Seq(Zones) /\ requests \subseteq Masters
    /\ faults \in 0..MaxFaults

Registered(list) == {list[i] : i \in DOMAIN list}

Init ==
    /\ zone \in Placements
    /\ stage = [k \in Masters |-> "wanted"]
    /\ pc = [k \in Masters |-> "idle"]
    /\ seenRunning = {} /\ copy = [k \in Masters |-> <<>>] /\ fresh = {}
    /\ inst = [k \in Masters |-> "PROVISIONING"]
    /\ groups = Registered(StartBackends) /\ members = {}
    /\ backends = StartBackends /\ requests = {} /\ faults = MaxFaults

----------------------------------------------------------------------------
Disturbance == faults > 0 /\ faults' = faults - 1

\* The reconcile of a machine makes its next call; it ends without one, with
\* an error or not; it starts when a worker is free.
Goto(k, step) == pc' = [pc EXCEPT ![k] = step] /\ UNCHANGED copy
Return(k) == pc' = [pc EXCEPT ![k] = "idle"] /\ copy' = [copy EXCEPT ![k] = <<>>]
Busy == {k \in Masters : pc[k] # "idle"}
Begin(k, step) ==
    pc[k] = "idle" /\ Cardinality(Busy) < Workers /\ Goto(k, step)

----------------------------------------------------------------------------
(***************************************************************************)
(* update: registerInstanceToControlPlaneInstanceGroup                     *)
(***************************************************************************)

\* The actuator's Exists has found the instance of a machine to be updated.
StartUpdate(k) ==
    /\ stage[k] = "wanted" /\ inst[k] # "none"
    /\ Begin(k, "group")
    /\ UNCHANGED <<zone, stage, seenRunning, cloudVars, faults>>

\* Variant: a group that exists is taken to be registered.
ensureRegisteredIfNew(k) ==
    /\ pc[k] = "group"
    /\ \/ zone[k] \in groups /\ Goto(k, "list") /\ UNCHANGED faults
       \/ zone[k] \notin groups /\ Goto(k, "insertGroup") /\ UNCHANGED faults
       \/ Return(k) /\ Disturbance
    /\ UNCHANGED <<zone, stage, seenRunning, cloudVars>>

\* InstanceGroupGet.
ensureInstanceGroup(k) ==
    /\ pc[k] = "group"
    /\ \/ zone[k] \in groups /\ Goto(k, "checkBackend") /\ UNCHANGED faults
       \/ zone[k] \notin groups /\ Goto(k, "insertGroup") /\ UNCHANGED faults
       \/ Return(k) /\ Disturbance
    /\ UNCHANGED <<zone, stage, seenRunning, cloudVars>>

\* Variant: the error of InstanceGroupInsert is passed over.
insertErrorIgnored(k) ==
    /\ pc[k] = "insertGroup"
    /\ \/ groups' = groups \cup {zone[k]} /\ UNCHANGED faults
       \/ UNCHANGED groups /\ Disturbance
    /\ Goto(k, "checkBackend")
    /\ UNCHANGED <<zone, stage, seenRunning, inst, members, backends, fresh, requests>>

\* InstanceGroupInsert is refused if another reconcile was faster.
registerNewInstanceGroup(k) ==
    /\ pc[k] = "insertGroup"
    /\ \/ /\ zone[k] \notin groups
          /\ groups' = groups \cup {zone[k]}
          /\ Goto(k, "checkBackend") /\ UNCHANGED faults
       \/ zone[k] \in groups /\ Return(k) /\ UNCHANGED <<groups, faults>>
       \/ /\ groups' \in {groups, groups \cup {zone[k]}} \* failed, or answer lost
          /\ Return(k) /\ Disturbance
    /\ UNCHANGED <<zone, stage, seenRunning, inst, members, backends, fresh, requests>>

\* Variant: the backends are searched for another link than the one added.
neverRegistered(k) ==
    /\ pc[k] = "checkBackend"
    /\ \/ Goto(k, "readBackends") /\ UNCHANGED faults
       \/ Return(k) /\ Disturbance
    /\ UNCHANGED <<zone, stage, seenRunning, cloudVars>>

\* The first BackendServiceGet.
checkRegistrationOfBackend(k) ==
    /\ pc[k] = "checkBackend"
    /\ \/ /\ zone[k] \in Registered(backends)
          /\ Goto(k, "list") /\ UNCHANGED faults
       \/ /\ zone[k] \notin Registered(backends)
          /\ Goto(k, "readBackends") /\ UNCHANGED faults
       \/ Return(k) /\ Disturbance
    /\ UNCHANGED <<zone, stage, seenRunning, cloudVars>>

\* The second BackendServiceGet, whose answer is written back.
ReadBackends(k) ==
    /\ pc[k] = "readBackends"
    /\ \/ /\ pc' = [pc EXCEPT ![k] = "writeBackends"]
          /\ copy' = [copy EXCEPT ![k] = backends]
          /\ fresh' = fresh \cup {k}
          /\ UNCHANGED faults
       \/ Return(k) /\ Disturbance /\ UNCHANGED fresh
    /\ UNCHANGED <<zone, stage, seenRunning, inst, groups, members, backends, requests>>

\* Variant: the list that is written holds the new backend only.
onlyNewBackend(k) == <<zone[k]>>

\* The list the update carries: the one read, and the group of the zone.
extendedBackends(k) == Append(copy[k], zone[k])

Overwrite(k) == backends' = extendedBackends(k) /\ fresh' = {}

\* RegionBackendServices.Update replaces the service, which GCP refuses if
\* its fingerprint has changed since it was read.
updateBackendServiceWithInstanceGroup(k) ==
    /\ pc[k] = "writeBackends"
    /\ \/ k \in fresh /\ Overwrite(k) /\ Goto(k, "list") /\ UNCHANGED faults
       \/ k \notin fresh /\ Return(k) /\ UNCHANGED <<backends, fresh, faults>>
       \/ UNCHANGED <<backends, fresh>> /\ Return(k) /\ Disturbance
       \/ k \in fresh /\ Overwrite(k) /\ Return(k) /\ Disturbance \* answer lost
    /\ UNCHANGED <<zone, stage, seenRunning, inst, groups, members, requests>>

\* fetchRunningInstancesInInstanceGroup answers with the running members.
Listed(k) == k \in members /\ inst[k] = "RUNNING"

\* Whether the instance is added is decided from the stored InstanceState.
ListBeforeAdd(k) ==
    /\ pc[k] = "list"
    /\ \/ /\ Goto(k, IF ~Listed(k) /\ k \in seenRunning THEN "add" ELSE "get")
          /\ UNCHANGED faults
       \/ Return(k) /\ Disturbance
    /\ UNCHANGED <<zone, stage, seenRunning, cloudVars>>

\* InstanceGroupsAddInstances.  A member that is not running was not listed;
\* GCP may take the call for it or refuse it.
AddInstance(k) ==
    /\ pc[k] = "add"
    /\ \/ /\ inst[k] # "none"
          /\ members' = members \cup {k}
          /\ Goto(k, "get") /\ UNCHANGED faults
       \/ /\ inst[k] = "none" \/ k \in members
          /\ Return(k) /\ UNCHANGED <<members, faults>>
       \/ /\ members' \in {members, IF inst[k] = "none" THEN members ELSE members \cup {k}}
          /\ Return(k) /\ Disturbance
    /\ UNCHANGED <<zone, stage, seenRunning, inst, groups, backends, fresh, requests>>

\* The InstanceState that reconcileMachineWithCloudState stores.
StoredState(k) ==
    IF inst[k] = "RUNNING" THEN seenRunning \cup {k} ELSE seenRunning \ {k}

\* reconcileMachineWithCloudState and the scope's Close.
ReadInstance(k) ==
    /\ pc[k] = "get"
    /\ \/ inst[k] # "none" /\ seenRunning' = StoredState(k) /\ UNCHANGED faults
       \/ inst[k] = "none" /\ UNCHANGED <<seenRunning, faults>>
       \/ Disturbance /\ UNCHANGED seenRunning
    /\ Return(k)
    /\ UNCHANGED <<zone, stage, cloudVars>>

----------------------------------------------------------------------------
(***************************************************************************)
(* delete: unregisterInstanceFromControlPlaneInstanceGroup, InstancesDelete *)
(***************************************************************************)

\* exists() has found the instance.
StartDelete(k) ==
    /\ stage[k] = "deleted" /\ inst[k] # "none"
    /\ Begin(k, "unlist")
    /\ UNCHANGED <<zone, stage, seenRunning, cloudVars, faults>>

\* The instance is gone: the machine loses its finalizer.
Release(k) ==
    /\ stage[k] = "deleted" /\ inst[k] = "none" /\ pc[k] = "idle"
    /\ stage' = [stage EXCEPT ![k] = "released"]
    /\ UNCHANGED <<zone, reconcileVars, seenRunning, cloudVars, faults>>

\* Variant: an instance that is not listed is an error.
UnlistedIsError(k) ==
    /\ pc[k] = "unlist"
    /\ \/ zone[k] \in groups /\ Listed(k) /\ Goto(k, "remove") /\ UNCHANGED faults
       \/ ~(zone[k] \in groups /\ Listed(k)) /\ Return(k) /\ UNCHANGED faults
       \/ Return(k) /\ Disturbance
    /\ UNCHANGED <<zone, stage, seenRunning, cloudVars>>

\* Listing a group that does not exist is an error.
ListBeforeRemove(k) ==
    /\ pc[k] = "unlist"
    /\ \/ /\ zone[k] \in groups
          /\ Goto(k, IF Listed(k) THEN "remove" ELSE "delete") /\ UNCHANGED faults
       \/ zone[k] \notin groups /\ Return(k) /\ UNCHANGED faults
       \/ Return(k) /\ Disturbance
    /\ UNCHANGED <<zone, stage, seenRunning, cloudVars>>

\* InstanceGroupsRemoveInstances.
RemoveInstance(k) ==
    /\ pc[k] = "remove"
    /\ \/ /\ k \in members /\ members' = members \ {k}
          /\ Goto(k, "delete") /\ UNCHANGED faults
       \/ k \notin members /\ Return(k) /\ UNCHANGED <<members, faults>>
       \/ members' \in {members, members \ {k}} /\ Return(k) /\ Disturbance
    /\ UNCHANGED <<zone, stage, seenRunning, inst, groups, backends, fresh, requests>>

\* InstancesDelete with the machine's UID as request ID: GCP does nothing for
\* a request it remembers.
deleteWithRequestID(k) ==
    IF k \in requests \/ inst[k] = "none"
    THEN UNCHANGED <<inst, requests>>
    ELSE inst' = [inst EXCEPT ![k] = "STOPPING"] /\ requests' = requests \cup {k}

DeleteInstance(k) ==
    /\ pc[k] = "delete"
    /\ \/ deleteWithRequestID(k) /\ UNCHANGED faults
       \/ Disturbance /\ UNCHANGED <<inst, requests>>
    /\ Return(k)
    /\ UNCHANGED <<zone, stage, seenRunning, groups, members, backends, fresh>>

----------------------------------------------------------------------------
(***************************************************************************)
(* GCP, owners, outsiders and crashes                                      *)
(***************************************************************************)

OwnerDeletes(k) ==
    /\ stage[k] = "wanted" /\ stage' = [stage EXCEPT ![k] = "deleted"]
    /\ UNCHANGED <<zone, reconcileVars, seenRunning, cloudVars, faults>>

InstanceStarts(k) ==
    /\ inst[k] = "PROVISIONING" /\ inst' = [inst EXCEPT ![k] = "RUNNING"]
    /\ UNCHANGED <<zone, stage, reconcileVars, seenRunning, groups, members,
                   backends, fresh, requests, faults>>

\* A deleted instance disappears, and with it its membership.
InstanceVanishes(k) ==
    /\ inst[k] = "STOPPING" /\ inst' = [inst EXCEPT ![k] = "none"]
    /\ members' = members \ {k}
    /\ UNCHANGED <<zone, stage, reconcileVars, seenRunning, groups, backends,
                   fresh, requests, faults>>

\* The operation that InstancesDelete began fails; nobody looks at it.
DeleteOperationFails(k) ==
    /\ Disturbance
    /\ inst[k] = "STOPPING" /\ inst' = [inst EXCEPT ![k] = "RUNNING"]
    /\ UNCHANGED <<zone, stage, reconcileVars, seenRunning, groups, members,
                   backends, fresh, requests>>

RequestForgotten(k) ==
    /\ k \in requests /\ requests' = requests \ {k}
    /\ UNCHANGED <<zone, stage, reconcileVars, seenRunning, inst, groups,
                   members, backends, fresh, faults>>

\* Somebody stops, restarts or deletes an instance.
Interference(k) ==
    /\ Disturbance
    /\ \/ inst[k] = "RUNNING" /\ inst' = [inst EXCEPT ![k] = "TERMINATED"]
       \/ inst[k] = "TERMINATED" /\ inst' = [inst EXCEPT ![k] = "PROVISIONING"]
       \/ /\ inst[k] \in {"PROVISIONING", "RUNNING", "TERMINATED"}
          /\ inst' = [inst EXCEPT ![k] = "STOPPING"]
    /\ UNCHANGED <<zone, stage, reconcileVars, seenRunning, groups, members,
                   backends, fresh, requests>>

\* Somebody changes another field of the backend service.
ServiceEdited ==
    /\ Disturbance /\ fresh' = {}
    /\ UNCHANGED <<zone, stage, reconcileVars, seenRunning, inst, groups,
                   members, backends, requests>>

\* The manager dies, and all its reconciles with it.
Crash ==
    /\ Busy # {} /\ Disturbance
    /\ pc' = [k \in Masters |-> "idle"] /\ copy' = [k \in Masters |-> <<>>]
    /\ UNCHANGED <<zone, stage, seenRunning, cloudVars>>

----------------------------------------------------------------------------
Reconcile(k) ==
    \/ StartUpdate(k) \/ ensureInstanceGroup(k) \/ registerNewInstanceGroup(k)
    \/ checkRegistrationOfBackend(k) \/ ReadBackends(k)
    \/ updateBackendServiceWithInstanceGroup(k) \/ ListBeforeAdd(k)
    \/ AddInstance(k) \/ ReadInstance(k)
    \/ StartDelete(k) \/ ListBeforeRemove(k) \/ RemoveInstance(k)
    \/ DeleteInstance(k) \/ Release(k)

Environment(k) ==
    \/ OwnerDeletes(k) \/ InstanceStarts(k) \/ InstanceVanishes(k)
    \/ DeleteOperationFails(k) \/ RequestForgotten(k) \/ Interference(k)

Next ==
    \/ \E k \in Masters : Reconcile(k) \/ Environment(k)
    \/ ServiceEdited \/ Crash

Spec == Init /\ [][Next]_vars

\* The workqueue hands out machines first in, first out, retries after an
\* error and is refilled by the resync, so a machine whose turn can come time
\* and again does get it.  GCP starts and removes instances and forgets
\* request IDs.  Nothing is assumed of owners, interference or crashes.
FairSpec ==
    /\ Spec
    /\ \A k \in Masters :
          /\ SF_vars(Reconcile(k)) /\ WF_vars(InstanceStarts(k))
          /\ WF_vars(InstanceVanishes(k)) /\ WF_vars(RequestForgotten(k))

----------------------------------------------------------------------------
(***************************************************************************)
(* Properties                                                              *)
(***************************************************************************)

\* No backend is ever lost, although every registration replaces the whole
\* list by one that was read earlier, and registrations of other zones and
\* edits of the service happen in between
\* (updateBackendServiceWithInstanceGroup).
BackendsKept == [][Registered(backends) \subseteq Registered(backends')]_vars

\* A group is listed at most once per worker.  Whether it is registered is
\* checked on one read and the list extended on another, so workers that
\* check at the same time each append it; neither lost answers nor crashes
\* nor retries add to that (ensureInstanceGroup).  With one worker, the
\* default, no group is listed twice.
Occurrences(z) == {i \in DOMAIN backends : backends[i] = z}
BackendsBounded == \A z \in Zones : Cardinality(Occurrences(z)) <= Workers

\* Only instance groups that exist are made backends: a lost answer or a lost
\* race never leaves the service with a group nobody created.
BackendsExist == Registered(backends) \subseteq groups

\* An instance is only in a group that is behind the service: a machine joins
\* after its group was listed, in its own reconcile or in one it lost a race
\* to, and the group stays listed (registerInstanceToControlPlaneInstanceGroup).
MembersServe == \A k \in members : zone[k] \in Registered(backends)

\* All of this at once: whatever calls, copies and failures a registration is
\* made of, groups are created, listed and joined in this order, each in one
\* step, and nothing but the deletion of an instance undoes any of it.
Service == INSTANCE ServiceContract WITH listed <- Registered(backends)
KeepsServiceContract == Service!Spec

\* Every control plane machine whose instance stays up ends up serving: in
\* the group of its zone, and that group behind the service, whatever
\* registrations it competed with and however often its own was cut short.
MastersServe ==
    <>[](\A k \in Masters :
            \/ stage[k] # "wanted" \/ inst[k] \in {"none", "STOPPING", "TERMINATED"}
            \/ k \in members /\ zone[k] \in Registered(backends))

\* A deleted control plane machine is released, although a repeated
\* InstancesDelete is ignored as long as GCP remembers the first and nobody
\* looks at the outcome of its operation (reconciler.go delete); unless the
\* instance group of its zone never comes to exist.
DeletionsComplete ==
    \A k \in Masters :
        stage[k] = "deleted" ~> stage[k] = "released" \/ zone[k] \notin groups
=============================================================================
