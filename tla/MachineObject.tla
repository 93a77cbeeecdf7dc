--------------------------- MODULE MachineObject ---------------------------
(***************************************************************************)
(* The Machine API object, reduced to what the machine controller and the  *)
(* GCP actuator branch on, and the merge patches they send.                *)
(*                                                                         *)
(* A provider spec is a place (project and zone) and a flag that says      *)
(* whether the actuator's validateMachine accepts it.  An instance is      *)
(* identified by its place: its name is the machine's name.                *)
(***************************************************************************)

CONSTANTS
    Places,            \* every (project, zone) a provider spec may name
    InvalidZones,      \* the places whose zone GCP does not know
    UnknownProjects,   \* the places whose project GCP does not know
    NoPlace            \* "no provider ID"

ASSUME PlacesAssumption ==
    /\ InvalidZones \subseteq Places
    /\ UnknownProjects \subseteq Places
    /\ NoPlace \notin Places

\* The places where GCP can run an instance.
ValidPlaces == Places \ (InvalidZones \cup UnknownProjects)

Specs == [place : Places, wellFormed : BOOLEAN]

\* Status.Phase is a *string: "nil" is the null pointer, "" the empty string.
Phases ==
    {"nil", "", "Provisioning", "Provisioned", "Running", "Deleting", "Failed"}

\* compute.Instance.Status, as far as the controllers tell its values apart.
CloudStates == {"PROVISIONING", "RUNNING", "STOPPING", "TERMINATED"}

ConditionStatus == {"", "True", "False"}

(***************************************************************************)
(* present     the object is stored (it stays in the record after it is    *)
(*             gone, as it was when it was released)                       *)
(* deleted     metadata.deletionTimestamp is set                           *)
(* finalizer   machine.machine.openshift.io is among the finalizers        *)
(* hook        spec.lifecycleHooks.preTerminate is not empty               *)
(* created     the Created condition of the provider status                *)
(* drained, terminable   the Drained and Terminable conditions             *)
(***************************************************************************)
Machine ==
    [present : BOOLEAN, spec : Specs, deleted : BOOLEAN, finalizer : BOOLEAN,
     hook : BOOLEAN, providerID : Places \cup {NoPlace}, addresses : BOOLEAN,
     instanceState : CloudStates \cup {"", "Unknown"},
     created : ConditionStatus, phase : Phases, nodeRef : BOOLEAN,
     drained : BOOLEAN, terminable : ConditionStatus]

\* A machine as its owner creates it.
NewMachine(spec, hook) ==
    [present |-> TRUE, spec |-> spec, deleted |-> FALSE, finalizer |-> FALSE,
     hook |-> hook, providerID |-> NoPlace, addresses |-> FALSE,
     instanceState |-> "", created |-> "", phase |-> "nil", nodeRef |-> FALSE,
     drained |-> FALSE, terminable |-> ""]

\* ptr.Deref(phase, "")
Deref(phase) == IF phase = "nil" THEN "" ELSE phase

machineIsProvisioned(mach) == mach.addresses \/ mach.providerID # NoPlace

machineIsFailed(mach) == mach.phase = "Failed"

----------------------------------------------------------------------------
(***************************************************************************)
(* Merge patches.  A patch carries the fields in which the modified copy   *)
(* differs from the base it was made from, and nothing else: a field       *)
(* somebody else changed in the meantime is kept, unless the patch carries *)
(* it.  A list is carried whole, so a change of one condition carries all. *)
(***************************************************************************)
Patched(stored, base, modified) == IF modified = base THEN stored ELSE modified

setLifecycleHookConditions(mach) == IF mach.hook THEN "False" ELSE "True"

\* The stored object after updateStatus has patched it: mach is the copy
\* the controller read, phase the phase it writes, others says whether a
\* condition that is not modelled (InstanceExists) has changed.  A failed
\* machine is first re-read by the annotation patch, so its phase and
\* instance state are compared with what is stored.
updateStatus(stored, mach, phase, others) ==
    LET terminable == setLifecycleHookConditions(mach)
        sendsConditions == others \/ terminable # mach.terminable
    IN [stored EXCEPT
          !.phase = IF phase = "Failed" THEN phase
                    ELSE Patched(@, mach.phase, phase),
          !.instanceState = IF phase = "Failed" /\ @ # "" THEN "Unknown" ELSE @,
          !.terminable = IF sendsConditions THEN terminable ELSE @,
          !.drained = IF sendsConditions THEN mach.drained ELSE @]

\* Variant: the instance state is not stored.
reconciledWithoutState(mach, state) ==
    [mach EXCEPT !.providerID = mach.spec.place, !.addresses = TRUE,
                 !.created = "True"]

\* The scope's copy of the machine after reconcileMachineWithCloudState has
\* found the instance in the given state.
reconciledWithCloud(mach, state) ==
    [mach EXCEPT !.providerID = mach.spec.place, !.addresses = TRUE,
                 !.instanceState = state, !.created = "True"]

\* Variant: the provider ID is not among what is patched.
patchWithoutProviderID(stored, base, modified) == stored

\* PatchMachine, first call: the object without its status.  Labels,
\* annotations and the provider spec are patched as well; Write, in
\* MachineLifecycle, accounts for the new resourceVersion.
patchMachine(stored, base, modified) ==
    [stored EXCEPT
       !.providerID = Patched(@, base.providerID, modified.providerID)]

\* PatchMachine, second call: the status.
patchMachineStatus(stored, base, modified) ==
    [stored EXCEPT
       !.addresses = Patched(@, base.addresses, modified.addresses),
       !.instanceState = Patched(@, base.instanceState, modified.instanceState),
       !.created = Patched(@, base.created, modified.created)]
=============================================================================
