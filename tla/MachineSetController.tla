----------------------- MODULE MachineSetController -----------------------
(***************************************************************************)
(* The MachineSet controller: it annotates a MachineSet with the capacity  *)
(* of its machine type, so that the autoscaler can scale it from zero, and *)
(* disables the shielded instance configuration of its template when the   *)
(* boot image cannot boot with it.                                         *)
(*                                                                         *)
(* One MachineSet, its owner, and the cache of machine types the           *)
(* controller keeps for all of them.  One action is one call to the API    *)
(* server or to GCP; the owner edits the MachineSet between any two.       *)
(***************************************************************************)
EXTENDS Naturals

CONSTANTS
    Types,          \* machine types (with the GPUs the template asks for)
    UnknownTypes,   \* the ones GCP does not know
    ArmTypes,       \* the ones with an arm64 processor
    MaxEdits,       \* bound on the owner's edits
    MaxFaults       \* bound on failed calls and crashes

ASSUME MachineSetAssumption ==
    /\ UnknownTypes \subseteq Types /\ ArmTypes \subseteq Types
    /\ MaxEdits \in Nat /\ MaxFaults \in Nat

KnownTypes == Types \ UnknownTypes

(***************************************************************************)
(* type, uefi   machine type and boot image of the template                *)
(* shielded     ShieldedInstanceConfig: not set, Disabled, or chosen       *)
(* capacity     the type the vCPU, memory and GPU annotations describe     *)
(* arch, team   two keys of the labels annotation, which is one string     *)
(* order        the order of the two keys in that string                   *)
(***************************************************************************)
MachineSet ==
    [type : Types, uefi : BOOLEAN, shielded : {"unset", "disabled", "chosen"},
     capacity : {{}} \cup {{t} : t \in KnownTypes},
     arch : {"none", "amd64", "arm64"}, team : BOOLEAN,
     order : BOOLEAN]

VARIABLES
    api,      \* the stored MachineSet
    cached,   \* the informer cache of the manager
    behind,   \* changes the watch has still to deliver
    queued,   \* the MachineSet is in the workqueue
    pc,       \* the call the controller makes next
    base,     \* the copy Reconcile has read
    ms,       \* the copy it works on
    result,   \* the error of reconcile: "nil", "invalid" or "error"
    types,    \* the machine types in the cache
    edits,    \* edits still to come
    faults    \* failed calls and crashes still to come

ctlVars == <<pc, base, ms, result, types>>
vars == <<api, cached, behind, queued, ctlVars, edits, faults>>

TypeOK ==
    /\ api \in MachineSet /\ cached \in MachineSet
    /\ behind \in BOOLEAN /\ queued \in BOOLEAN
    /\ pc \in {"idle", "type", "image", "patch"}
    /\ base \in MachineSet /\ ms \in MachineSet
    /\ result \in {"nil", "invalid", "error"}
    /\ types \subseteq Types
    /\ edits \in 0..MaxEdits /\ faults \in 0..MaxFaults

Init ==
    /\ \E t \in Types, u, team \in BOOLEAN, sh \in {"unset", "chosen"} :
          api = [type |-> t, uefi |-> u, shielded |-> sh, capacity |-> {},
                 arch |-> "none", team |-> team, order |-> FALSE]
    /\ cached = api /\ behind = FALSE /\ queued = TRUE
    /\ pc = "idle" /\ base = api /\ ms = api /\ result = "nil"
    /\ types = {}
    /\ edits = MaxEdits /\ faults = MaxFaults

----------------------------------------------------------------------------
Disturbance == faults > 0 /\ faults' = faults - 1

CPUArchitecture(t) == IF t \in ArmTypes THEN "arm64" ELSE "amd64"

\* MergeCommaSeparatedKeyValuePairs: of a key in both lists the last value,
\* the one that was there before, is kept.
mergedArch(set) ==
    IF set.arch # "none" THEN set.arch ELSE CPUArchitecture(set.type)

\* Variant: the labels annotation is set and not merged.
annotatedOver(set, order) ==
    [set EXCEPT !.capacity = {set.type}, !.arch = CPUArchitecture(set.type),
                !.team = FALSE, !.order = FALSE]

\* The annotations of the machine type.  The merged labels are written in
\* the order in which Go iterates over a map, that is, in any order.
annotated(set, order) ==
    [set EXCEPT !.capacity = {set.type}, !.arch = mergedArch(set),
                !.order = set.team /\ order]

\* Variant: only a configuration the owner has chosen is replaced.
disabledIfChosen(set) ==
    IF ~set.uefi /\ set.shielded = "chosen"
    THEN [set EXCEPT !.shielded = "disabled"] ELSE set

\* The default configuration is replaced when the image is not compatible.
shieldedDisabled(set) ==
    IF ~set.uefi /\ set.shielded = "unset"
    THEN [set EXCEPT !.shielded = "disabled"] ELSE set

\* A merge patch carries the fields that were changed; the labels annotation
\* is one of them.
Patched(stored, from, to) ==
    LET labelsChanged == to.arch # from.arch \/ to.order # from.order
    IN [stored EXCEPT
          !.shielded = IF to.shielded = from.shielded THEN @ ELSE to.shielded,
          !.capacity = IF to.capacity = from.capacity THEN @ ELSE to.capacity,
          !.arch = IF labelsChanged THEN to.arch ELSE @,
          !.team = IF labelsChanged THEN to.team ELSE @,
          !.order = IF labelsChanged THEN to.order ELSE @]

----------------------------------------------------------------------------
\* The compute service is not to be had: a credentials secret that is missing
\* or cannot be read is an error, one without a usable key an invalid
\* configuration.
getGCPServiceFails == result' \in {"invalid", "error"} /\ Disturbance

\* Reconcile takes the MachineSet from the queue and reads it.  Without the
\* compute service there is nothing to change.
Reconcile ==
    /\ pc = "idle" /\ queued /\ queued' = FALSE
    /\ base' = cached /\ ms' = cached
    /\ \/ pc' = "type" /\ result' = "nil" /\ UNCHANGED faults
       \/ pc' = "patch" /\ getGCPServiceFails
    /\ UNCHANGED <<api, cached, behind, types, edits>>

\* Variant: a type GCP does not know is cached like any other.
FetchedIfUnknown(t) == TRUE

\* MachineTypesGet finds the type.
Fetched(t) == t \in KnownTypes

\* getMachineTypeFromCache: what GCP answers is kept for ever, except that
\* it does not know the type.  Any other failure is turned into an invalid
\* configuration.
getMachineType ==
    /\ pc = "type"
    /\ \/ /\ ms.type \in types \/ Fetched(ms.type)
          /\ types' = types \cup {ms.type}
          /\ \E order \in BOOLEAN : ms' = annotated(ms, order)
          /\ pc' = "image"
          /\ UNCHANGED <<result, faults>>
       \/ /\ ms.type \notin types /\ ~Fetched(ms.type)
          /\ pc' = "patch" /\ UNCHANGED <<types, ms, result, faults>>
       \/ /\ ms.type \notin types /\ Disturbance
          /\ pc' = "patch" /\ result' = "invalid" /\ UNCHANGED <<types, ms>>
    /\ UNCHANGED <<api, cached, behind, queued, base, edits>>

\* IsUEFICompatible.
checkImage ==
    /\ pc = "image" /\ pc' = "patch"
    /\ \/ ms' = shieldedDisabled(ms) /\ UNCHANGED <<result, faults>>
       \/ result' = "error" /\ Disturbance /\ UNCHANGED ms
    /\ UNCHANGED <<api, cached, behind, queued, base, types, edits>>

\* Variant: the test for an invalid configuration is the wrong way round.
RequeuedIfInvalid(err) == err = "invalid"

\* Reconcile returns no error for an invalid configuration.
Requeued(err) == err = "error"

\* What reconcile has changed is patched even if it failed.
patch ==
    /\ pc = "patch" /\ pc' = "idle"
    /\ \/ /\ api' = Patched(api, base, ms)
          /\ queued' = (queued \/ Requeued(result))
          /\ UNCHANGED faults
       \/ queued' = (queued \/ Requeued("error")) /\ Disturbance /\ UNCHANGED api
    /\ behind' = (behind \/ api' # api)
    /\ UNCHANGED <<cached, base, ms, result, types, edits>>

----------------------------------------------------------------------------
\* The watch delivers what has changed, and the MachineSet is queued, even if
\* one change has undone another.
WatchDelivers ==
    /\ behind /\ behind' = FALSE /\ cached' = api /\ queued' = TRUE
    /\ UNCHANGED <<api, ctlVars, edits, faults>>

\* Every ten minutes the informer queues every object it knows.
Resync ==
    /\ ~queued /\ queued' = TRUE
    /\ UNCHANGED <<api, cached, behind, ctlVars, edits, faults>>

\* The owner changes the template, the label it keeps in the annotation, or
\* what the controller has written: the annotations are as much the owner's.
OwnerEdits ==
    /\ edits > 0 /\ edits' = edits - 1
    /\ \/ \E t \in Types : api' = [api EXCEPT !.type = t]
       \/ api' = [api EXCEPT !.uefi = ~@]
       \/ api' = [api EXCEPT !.team = ~@, !.order = FALSE]
       \/ \E sh \in {"unset", "chosen"} : api' = [api EXCEPT !.shielded = sh]
       \/ api' = [api EXCEPT !.capacity = {}]
       \/ api' = [api EXCEPT !.arch = "none", !.order = FALSE]
    /\ behind' = (behind \/ api' # api)
    /\ UNCHANGED <<cached, queued, ctlVars, faults>>

\* The manager dies; the next one starts with an empty cache of types and a
\* queue that holds every MachineSet.
Crash ==
    /\ Disturbance
    /\ pc' = "idle" /\ types' = {}
    /\ cached' = api /\ behind' = FALSE /\ queued' = TRUE
    /\ UNCHANGED <<api, base, ms, result, edits>>

Controller == Reconcile \/ getMachineType \/ checkImage \/ patch

Next == Controller \/ WatchDelivers \/ Resync \/ OwnerEdits \/ Crash

Spec == Init /\ [][Next]_vars

\* The workqueue and the watch are served, and the manager resyncs.
FairSpec ==
    Spec /\ WF_vars(Controller) /\ WF_vars(WatchDelivers) /\ WF_vars(Resync)

----------------------------------------------------------------------------
(***************************************************************************)
(* Properties                                                              *)
(***************************************************************************)

\* The annotations describe the machine type of the template in the end if,
\* and only if, GCP knows it, whatever the owner edited, whatever failed in
\* between and whatever the cache of machine types has kept from before
\* (reconcile, getMachineTypeFromCache).  They come with an architecture, which
\* enters the patch for itself and only if reconcile has changed it: the
\* autoscaler schedules from both.
CapacityConverges ==
    <>[](/\ api.capacity = {api.type} <=> api.type \in KnownTypes
         /\ api.type \in KnownTypes => api.arch # "none")

\* Machines of a template whose image is not UEFI compatible do not get the
\* shielded default in the end ("so that new Machines created from it will
\* boot").
ImageBoots ==
    <>[](api.type \in KnownTypes /\ ~api.uefi => api.shielded # "unset")

\* A MachineSet that nobody is about to look at, because it is neither queued
\* nor being reconciled and the watch has nothing new, has nothing left to be
\* done (Reconcile, "For situations where requeuing won't help we don't return
\* error").  This is so of every MachineSet but the ones whose last reconcile
\* took a failure for an invalid configuration: they wait for the resync.
GivenUpOnlyIfInvalid ==
    pc = "idle" /\ ~queued /\ ~behind /\ api.type \in KnownTypes =>
        api.capacity = {api.type} \/ result = "invalid"

\* The same without the exception, which does not hold.
GivenUpOnlyIfHopeless ==
    pc = "idle" /\ ~queued /\ ~behind /\ api.type \in KnownTypes =>
        api.capacity = {api.type}

\* The controller never changes a label of the owner's (reconcile, "We
\* guarantee that any existing labels provided via the capacity annotations
\* are preserved").
\* It does not hold of a label the owner changes meanwhile.
OwnersLabelsKept == [][api'.team # api.team => edits' # edits]_vars

\* What the owner had chosen when the controller read the MachineSet, and has
\* not changed since, the controller leaves alone: a label in the annotation it
\* merges its own into, and a shielded instance configuration (reconcile).
OwnersChoicesKept ==
    [][edits' = edits =>
          /\ api.team = base.team => api'.team = api.team
          /\ api.shielded = "chosen" /\ base.shielded = "chosen" => api'.shielded = "chosen"]_vars
=============================================================================
