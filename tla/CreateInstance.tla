-------------------------- MODULE CreateInstance --------------------------
(***************************************************************************)
(* actuator.Create for one machine that has no instance yet: the scope     *)
(* with its credentials, the checks and look-ups of the reconciler's       *)
(* create, the instance it asks for, and what becomes of an error: the     *)
(* machine is Failed for good, or the attempt is repeated.                 *)
(*                                                                         *)
(* One action is one call to the API server or to GCP with the code up to  *)
(* the next one.  The value of a label is the place it comes from; a tag   *)
(* key stands for a parent and a key.                                      *)
(***************************************************************************)
EXTENDS Integers, FiniteSets

CONSTANTS
    LabelKeys,     \* keys of labels
    OwnedKey,      \* kubernetes-io-cluster-<id>, the cluster's own label
    TagKeys,       \* keys of resource manager tags
    TagValues,     \* their values
    KnownTags,     \* the <<key, value>> pairs the service account can see
    MaxLabels,     \* 32: labels a user may define
    MaxTags,       \* maxUserTagLimit, 50
    MaxInt32,      \* 2^31 - 1
    MaxUnits,      \* bound on the usage and the limit of a quota
    Starts,        \* pairs of a provider spec and what its creation finds
    MaxFaults      \* bound on failed calls, crashes and outside changes

Some(keys, values) == UNION {[K -> values] : K \in SUBSET keys}

Shielded ==
    LET Policy == {"", "Enabled", "Disabled"}
    IN [secureBoot : Policy, vtpm : Policy, integrity : Policy]

\* What create branches on.  image is that of the boot disk; labels and disk
\* labels are sets of keys; gpus is the number of entries of GPUs, and
\* gpuSupported tells whether supportedGpuTypes has the accelerator's type.
Specs ==
    [valid : BOOLEAN, project : BOOLEAN, credentials : BOOLEAN, userData : BOOLEAN,
     preemptible : BOOLEAN, model : {"", "Spot"},
     restart : {"", "Always", "Never", "other"}, shielded : Shielded,
     confidential : {"", "Disabled", "Enabled", "SEV", "SEV_SNP", "TDX", "other"},
     family : {"n1", "a2", "a3", "a3-ultragpu", "other"},
     gpus : 0..2, gpuCount : 0..MaxInt32, gpuSupported : BOOLEAN,
     image : {"noBootDisk", "empty", "name", "path", "family", "malformed"},
     labels : SUBSET LabelKeys, diskLabels : SUBSET LabelKeys,
     tags : Some(TagKeys, TagValues)]

\* labels and tags are those of the Infrastructure object, which does not
\* change after the installation.
Worlds ==
    [labels : SUBSET LabelKeys, tags : Some(TagKeys, TagValues),
     credentials : {"ok", "missing", "noField", "garbage"},
     userData : {"ok", "missing", "noField"},
     image : {"uefi", "legacy", "missing"},
     typesAllowed : BOOLEAN, typeListed : BOOLEAN, attached : 0..MaxInt32,
     accelerator : BOOLEAN, metered : BOOLEAN, usage : 0..MaxUnits, limit : 0..MaxUnits]

ASSUME CreateAssumption ==
    /\ OwnedKey \in LabelKeys /\ IsFiniteSet(LabelKeys)
    /\ KnownTags \subseteq TagKeys \X TagValues /\ IsFiniteSet(TagKeys)
    /\ MaxLabels \in Nat /\ MaxTags \in Nat /\ MaxInt32 \in Nat /\ MaxUnits \in Nat
    /\ Starts \subseteq Specs \X Worlds
    /\ MaxFaults \in Nat

VARIABLES
    spec,      \* the stored provider spec
    world,     \* what the calls of create find
    phase,     \* the stored phase
    pc,        \* the next call
    chosen,    \* ShieldedInstanceConfig in the scope's copy of the spec
    outcome,   \* how the attempt ends: "retry", "invalid", "created"
    instance,  \* the instance GCP was asked for
    down,      \* the manager is not running
    faults     \* disturbances still to come

vars == <<spec, world, phase, pc, chosen, outcome, instance, down, faults>>

Steps == {"idle", "scope", "labels", "tags", "image", "types", "quota", "disks",
          "userData", "insert", "close", "status"}

Unset == [secureBoot |-> "", vtpm |-> "", integrity |-> ""]
Disabled == [secureBoot |-> "Disabled", vtpm |-> "Disabled", integrity |-> "Disabled"]
NoInstance == [asked |-> FALSE]

----------------------------------------------------------------------------
(***************************************************************************)
(* Pure parts                                                              *)
(***************************************************************************)

isSpot(s) == s.preemptible \/ s.model = "Spot"

\* validateMachine; s.valid covers target pools, the cluster label and the
\* values of provisioningModel.
validateMachine(s) == s.valid /\ ~(s.preemptible /\ s.model = "Spot")

\* Variant: only preemptible instances are refused a restart.
restartPolicyIgnoresSpot(s) ==
    IF s.restart = "Always" /\ s.preemptible THEN "error"
    ELSE IF s.restart = "other" THEN "error" ELSE s.restart

\* "" leaves the choice to GCP.
restartPolicyToBool(s) ==
    IF s.restart = "Always" /\ isSpot(s) THEN "error"
    ELSE IF s.restart = "other" THEN "error" ELSE s.restart

\* Variant: labels of the Infrastructure object overwrite the machine's.
mergeInfraLast(specLabels, infraLabels) ==
    [key \in specLabels \cup infraLabels \cup {OwnedKey} |->
        IF key = OwnedKey THEN "ocp" ELSE IF key \in infraLabels THEN "infra" ELSE "spec"]

mergeLabels(specLabels, infraLabels) ==
    [key \in specLabels \cup infraLabels \cup {OwnedKey} |->
        IF key = OwnedKey THEN "ocp" ELSE IF key \in specLabels THEN "spec" ELSE "infra"]

\* The labels of the user are counted as all labels less the cluster's own.
tooManyLabels(specLabels, infraLabels) ==
    Cardinality(DOMAIN mergeLabels(specLabels, infraLabels)) - 1 > MaxLabels

mergeInfraProviderSpecTags(infraTags, specTags) ==
    [key \in DOMAIN infraTags \cup DOMAIN specTags |->
        IF key \in DOMAIN specTags THEN specTags[key] ELSE infraTags[key]]

tooManyTags(tags) == Cardinality(DOMAIN tags) > MaxTags

inaccessibleTags(tags) == {key \in DOMAIN tags : <<key, tags[key]>> \notin KnownTags}

\* IsUEFICompatible: an image named without a path is looked up in the
\* project of the provider spec, set or not.
IsUEFICompatible(s, w) ==
    IF \/ s.image \in {"noBootDisk", "empty", "malformed"} \/ w.image = "missing"
       \/ s.image = "name" /\ ~s.project
    THEN "error"
    ELSE IF w.image = "uefi" THEN "yes" ELSE "no"

\* The ConfidentialCompute switch and the number of GPU types.
templateRefused(s) == s.confidential = "other" \/ s.gpus > 1

\* validateGuestAccelerators up to its first call.
PreAttached(s) == s.family \in {"a2", "a3"}
validateGuestAccelerators(s) ==
    IF (s.gpus = 0 /\ ~PreAttached(s)) \/ s.family = "a3-ultragpu" THEN "nothing"
    ELSE IF (s.gpus > 0 /\ PreAttached(s)) \/ s.family = "other" THEN "invalid"
    ELSE "check"

\* GPUCompatibleMachineTypesList is asked with the project of the provider
\* spec; with an empty one the list fails, and so it does without permission.
typesListable(s, w) == s.project /\ w.typesAllowed

\* int32(x) of a float64: out of range, the result depends on the processor.
Int32(x) == IF x <= MaxInt32 THEN {x} ELSE {-MaxInt32 - 1, MaxInt32}
Wrap(x) == IF x > MaxInt32 THEN x - 2 * (MaxInt32 + 1) ELSE x

\* Variant: at the limit the quota counts as exceeded.
quotaReached(usage, count, limit) ==
    {Wrap(u + count) >= l : u \in Int32(usage), l \in Int32(limit)}

\* What the comparison in checkQuota may yield.
quotaExceeded(usage, count, limit) ==
    {Wrap(u + count) > l : u \in Int32(usage), l \in Int32(limit)}

requestedGPUs(s, w) == IF PreAttached(s) THEN w.attached ELSE s.gpuCount

\* Variant: the checks leave the defaults of GCP in place.
shieldedByDefault(s) == [secureBoot |-> FALSE, vtpm |-> TRUE, integrity |-> TRUE]

shieldedInstanceConfig(s) ==
    [secureBoot |-> s.secureBoot = "Enabled",
     vtpm |-> s.vtpm # "Disabled", integrity |-> s.integrity # "Disabled"]

\* The instance of InstancesInsert, as far as the properties look at it.
Instance(s, w, options) ==
    [asked |-> TRUE,
     labels |-> mergeLabels(s.labels, w.labels),
     diskLabels |-> mergeLabels(s.diskLabels, w.labels),
     tags |-> mergeInfraProviderSpecTags(w.tags, s.tags),
     preemptible |-> s.preemptible, spot |-> s.model = "Spot",
     automaticRestart |-> restartPolicyToBool(s),
     shielded |-> shieldedInstanceConfig(options)]

----------------------------------------------------------------------------
Init ==
    /\ \E start \in Starts : spec = start[1] /\ world = start[2]
    /\ phase = "Provisioning" /\ pc = "idle" /\ chosen = Unset
    /\ outcome = "none" /\ instance = NoInstance /\ down = FALSE
    /\ faults = MaxFaults

Disturbance == faults > 0 /\ faults' = faults - 1

Goto(step) == pc' = step /\ UNCHANGED outcome
\* create returns an error, of the type InvalidMachineConfiguration or not.
Error(kind) == pc' = "close" /\ outcome' = kind

\* newMachineScope returns an error: there is no scope to close.
NoScope(kind) == pc' = "status" /\ outcome' = kind

\* What the scope makes of the credentials secret: without one there is
\* neither a project to be found in it nor a client to be made of it.
scopeAnswer(s, w) == IF s.credentials THEN w.credentials ELSE "garbage"

\* Variant: an instance that is there already is overlooked.
CreatableAgain == pc = "idle" /\ ~down /\ phase # "Failed"

\* Reconcile gets as far as Create.  With an instance the machine is updated
\* from here on, and never created again.
Creatable == pc = "idle" /\ ~down /\ phase # "Failed" /\ instance = NoInstance

\* Reconcile asks the actuator's Exists first.  Whatever is wrong with the
\* scope or with validateMachine, the answer is an error of no type.
Exists ==
    /\ Creatable
    /\ \/ /\ scopeAnswer(spec, world) = "ok" /\ validateMachine(spec)
          /\ Goto("scope") /\ UNCHANGED faults
       \/ /\ ~(scopeAnswer(spec, world) = "ok" /\ validateMachine(spec))
          /\ NoScope("retry") /\ UNCHANGED faults
       \/ NoScope("retry") /\ Disturbance
    /\ UNCHANGED <<spec, world, phase, chosen, instance, down>>

\* The scope of Create.  That the secret is missing is reported as any other
\* failure to read it.
newMachineScope ==
    /\ pc = "scope"
    /\ LET found == scopeAnswer(spec, world)
       IN \/ /\ found = "ok" /\ chosen' = spec.shielded
             /\ Goto("labels") /\ UNCHANGED faults
          \/ /\ found = "missing"
             /\ NoScope("retry") /\ UNCHANGED <<chosen, faults>>
          \/ /\ found \in {"noField", "garbage"}
             /\ NoScope("invalid") /\ UNCHANGED <<chosen, faults>>
          \/ NoScope("retry") /\ Disturbance /\ UNCHANGED chosen
    /\ UNCHANGED <<spec, world, phase, instance, down>>

\* GetLabelsList.  validateMachine has accepted the same copy in Exists.
GetLabels ==
    /\ pc = "labels"
    /\ \/ /\ tooManyLabels(spec.labels, world.labels)
          /\ Error("retry") /\ UNCHANGED faults
       \/ /\ ~tooManyLabels(spec.labels, world.labels)
          /\ Goto("tags") /\ UNCHANGED faults
       \/ Error("retry") /\ Disturbance
    /\ UNCHANGED <<spec, world, phase, chosen, instance, down>>

\* What follows ShieldedInstanceConfig, up to the next call.
AfterShielded ==
    LET accelerators == validateGuestAccelerators(spec)
    IN IF templateRefused(spec) \/ accelerators = "invalid" THEN Error("invalid")
       ELSE Goto(IF accelerators = "nothing" THEN "disks" ELSE "types")

\* Variant: a tag that does not exist is reported as any other failure.
unknownTagsRetried(tags) == inaccessibleTags(tags) # {} /\ Error("retry")

\* getTagValuesNames finds tags that do not exist or are not accessible.
getTagValuesNames(tags) == inaccessibleTags(tags) # {} /\ Error("invalid")

\* GetResourceManagerTags and the restart policy.
GetTags ==
    /\ pc = "tags"
    /\ LET tags == mergeInfraProviderSpecTags(world.tags, spec.tags)
       IN \/ tooManyTags(tags) /\ Error("retry") /\ UNCHANGED faults
          \/ ~tooManyTags(tags) /\ getTagValuesNames(tags) /\ UNCHANGED faults
          \/ /\ ~tooManyTags(tags) /\ inaccessibleTags(tags) = {}
             /\ IF restartPolicyToBool(spec) = "error" THEN Error("invalid")
                ELSE IF chosen = Unset THEN Goto("image") ELSE AfterShielded
             /\ UNCHANGED faults
          \/ Error("retry") /\ Disturbance
    /\ UNCHANGED <<spec, world, phase, chosen, instance, down>>

\* The boot image is looked up when the spec has no ShieldedInstanceConfig;
\* the scope's copy of the spec is changed if it is not UEFI compatible.
CheckImage ==
    /\ pc = "image"
    /\ LET answer == IsUEFICompatible(spec, world)
       IN \/ /\ answer \in {"yes", "no"}
             /\ chosen' = IF answer = "no" THEN Disabled ELSE chosen
             /\ AfterShielded /\ UNCHANGED faults
          \/ answer = "error" /\ Error("retry") /\ UNCHANGED <<chosen, faults>>
          \/ Error("retry") /\ Disturbance /\ UNCHANGED chosen
    /\ UNCHANGED <<spec, world, phase, instance, down>>

\* The process ends, with log.Fatal or otherwise.
ManagerExits == down' = TRUE /\ pc' = "idle" /\ outcome' = "none" /\ chosen' = Unset

\* GPUCompatibleMachineTypesList.
ListTypes ==
    /\ pc = "types"
    /\ \/ /\ typesListable(spec, world)
          /\ IF world.typeListed THEN Goto("quota") ELSE Error("invalid")
          /\ UNCHANGED <<chosen, faults, down>>
       \/ ~typesListable(spec, world) /\ ManagerExits /\ UNCHANGED faults
       \/ ManagerExits /\ Disturbance
    /\ UNCHANGED <<spec, world, phase, instance>>

\* checkQuota: RegionGet and AcceleratorTypeGet, whose every error is taken
\* for an invalid configuration.
checkQuota ==
    /\ pc = "quota"
    /\ \/ /\ ~(world.accelerator /\ spec.gpuSupported)
          /\ Error("invalid") /\ UNCHANGED faults
       \/ /\ world.accelerator /\ spec.gpuSupported
          /\ \E exceeded \in IF world.metered
                             THEN quotaExceeded(world.usage, requestedGPUs(spec, world),
                                                world.limit)
                             ELSE {FALSE} :
                IF exceeded THEN Error("invalid") ELSE Goto("disks")
          /\ UNCHANGED faults
       \/ Error("invalid") /\ Disturbance
    /\ UNCHANGED <<spec, world, phase, chosen, instance, down>>

\* Disks, with GetLabelsList for each, and the network interfaces.
BuildDisks ==
    /\ pc = "disks"
    /\ \/ spec.image = "empty" /\ Error("invalid") /\ UNCHANGED faults
       \/ /\ spec.image # "empty"
          /\ IF tooManyLabels(spec.diskLabels, world.labels)
             THEN Error("retry") ELSE Goto("userData")
          /\ UNCHANGED faults
       \/ spec.image # "empty" /\ Error("retry") /\ Disturbance
    /\ UNCHANGED <<spec, world, phase, chosen, instance, down>>

\* getCustomUserData needs no call if the spec names no secret.
getCustomUserData(s, w) == IF s.userData THEN w.userData ELSE "ok"

\* Its errors lose their type in create; the metadata come next.
GetUserData ==
    /\ pc = "userData"
    /\ \/ /\ IF getCustomUserData(spec, world) = "ok" THEN Goto("insert") ELSE Error("retry")
          /\ UNCHANGED faults
       \/ spec.userData /\ Error("retry") /\ Disturbance
    /\ UNCHANGED <<spec, world, phase, chosen, instance, down>>

\* InstancesInsert.  GCP may refuse the instance with a 4xx, for what is wrong
\* with it or for a reason that passes (too many requests, a conflict): the
\* reconciler does not tell them apart.
InstancesInsert ==
    /\ pc = "insert"
    /\ \/ /\ instance' = Instance(spec, world, chosen)
          /\ Error("created") /\ UNCHANGED faults
       \/ Error("invalid") /\ UNCHANGED <<instance, faults>>
       \/ Error("invalid") /\ Disturbance /\ UNCHANGED instance
       \/ Error("retry") /\ Disturbance /\ UNCHANGED instance
       \/ /\ instance' = Instance(spec, world, chosen) \* answer lost
          /\ Error("retry") /\ Disturbance
    /\ UNCHANGED <<spec, world, phase, chosen, down>>

\* The scope is closed whatever create returned, and its spec is stored.
Close ==
    /\ pc = "close"
    /\ \/ spec' = [spec EXCEPT !.shielded = chosen] /\ UNCHANGED faults
       \/ Disturbance /\ UNCHANGED spec
    /\ Goto("status")
    /\ UNCHANGED <<world, phase, chosen, instance, down>>

\* Reconcile stores Failed for an invalid configuration; otherwise the
\* workqueue tries again.
Finish ==
    /\ pc = "status"
    /\ \/ phase' = (IF outcome = "invalid" THEN "Failed" ELSE phase) /\ UNCHANGED faults
       \/ outcome = "invalid" /\ Disturbance /\ UNCHANGED phase
    /\ pc' = "idle" /\ outcome' = "none" /\ chosen' = Unset
    /\ UNCHANGED <<spec, world, instance, down>>

----------------------------------------------------------------------------
\* Secrets appear, change and vanish, quota is used and freed, an image
\* family moves on to another image.
WorldChanges ==
    /\ Disturbance
    /\ \/ \E c \in {"ok", "missing", "noField", "garbage"} : world' = [world EXCEPT !.credentials = c]
       \/ \E u \in {"ok", "missing", "noField"} : world' = [world EXCEPT !.userData = u]
       \/ \E n \in 0..MaxUnits : world' = [world EXCEPT !.usage = n]
       \/ /\ spec.image = "family"
          /\ \E i \in {"uefi", "legacy"} : world' = [world EXCEPT !.image = i]
    /\ UNCHANGED <<spec, phase, pc, chosen, outcome, instance, down>>

Crash ==
    /\ pc # "idle" /\ Disturbance /\ ManagerExits
    /\ UNCHANGED <<spec, world, phase, instance>>

Restart ==
    /\ down /\ down' = FALSE
    /\ UNCHANGED <<spec, world, phase, pc, chosen, outcome, instance, faults>>

Create ==
    \/ Exists \/ newMachineScope \/ GetLabels \/ GetTags \/ CheckImage \/ ListTypes
    \/ checkQuota \/ BuildDisks \/ GetUserData \/ InstancesInsert \/ Close \/ Finish

Next == Create \/ WorldChanges \/ Crash \/ Restart

Spec == Init /\ [][Next]_vars

\* An attempt goes on, another follows an error, and the manager is
\* restarted when it has exited.
FairSpec == Spec /\ WF_vars(Create) /\ WF_vars(Restart)

TypeOK ==
    /\ spec \in Specs /\ world \in Worlds
    /\ phase \in {"Provisioning", "Failed"} /\ pc \in Steps
    /\ chosen \in Shielded
    /\ outcome \in {"none", "retry", "invalid", "created"}
    /\ instance.asked \in BOOLEAN
    /\ instance.asked => instance.automaticRestart \in {"", "Always", "Never"}
    /\ down \in BOOLEAN /\ faults \in 0..MaxFaults

----------------------------------------------------------------------------
(***************************************************************************)
(* Properties                                                              *)
(***************************************************************************)

\* No instance is asked for that GCP could preempt and was told to restart,
\* or that is both preemptible and spot: three functions look at these
\* fields, in different calls of one reconcile (validateMachine,
\* toComputeProvisioningModel, restartPolicyToBool).
Schedulable ==
    instance.asked =>
        /\ ~(instance.preemptible /\ instance.spot)
        /\ instance.preemptible \/ instance.spot => instance.automaticRestart # "Always"

\* An image without UEFI support gets an instance without shielded options
\* unless the owner chose some, however many attempts were cut short after
\* the image was looked up or after the changed spec was stored; an image
\* family may move to another image behind the look-up.
BootsUnlessChosen ==
    /\ instance.asked /\ world.image = "legacy" /\ spec.image # "family"
    /\ spec.shielded \in {Unset, Disabled}
    => instance.shielded = [secureBoot |-> FALSE, vtpm |-> FALSE, integrity |-> FALSE]

\* The instance and its disks carry the cluster's own label and every label
\* of their own, with at most MaxLabels others besides the first, and the
\* instance carries the tags of the machine and of the cluster, the machine's
\* first, all of them known to GCP (mergeLabels, GetLabelsList,
\* mergeInfraProviderSpecTags, getTagValuesNames).
Labelled(all, own) ==
    /\ all[OwnedKey] = "ocp"
    /\ \A key \in own \ {OwnedKey} : all[key] = "spec"
    /\ Cardinality(DOMAIN all \ {OwnedKey}) <= MaxLabels
LabelsAndTags ==
    instance.asked =>
        /\ Labelled(instance.labels, spec.labels)
        /\ Labelled(instance.diskLabels, spec.diskLabels)
        /\ \A key \in DOMAIN spec.tags : instance.tags[key] = spec.tags[key]
        /\ \A key \in DOMAIN instance.tags : <<key, instance.tags[key]>> \in KnownTags
        /\ Cardinality(DOMAIN instance.tags) <= MaxTags

\* A machine that create has made Failed, and that nobody works on any more,
\* has left no instance behind at GCP: no attempt is made on top of an
\* instance whose answer was lost, and none that has asked for one ends as an
\* invalid configuration (InstancesInsert's error in create, handleMachineError).
FailedHasNoInstance == phase = "Failed" => ~instance.asked

\* With numbers that fit into 32 bits a machine is refused for its quota if
\* and only if the quota would be exceeded (checkQuota).
Accelerated == validateGuestAccelerators(spec) = "check"
QuotaExact ==
    [][LET sum == world.usage + requestedGPUs(spec, world)
       IN /\ pc = "quota" /\ faults' = faults
          /\ world.metered /\ world.accelerator /\ spec.gpuSupported
          /\ sum <= MaxInt32 /\ world.limit <= MaxInt32
          => (outcome' = "invalid" <=> sum > world.limit)]_vars

\* A call that failed for a passing reason never ends the attempt as an
\* invalid configuration, which would make the machine Failed for good.  This
\* does not hold: checkQuota and InstancesInsert take passing failures for one.
InvalidIsPermanent ==
    [][outcome' = "invalid" /\ outcome # "invalid" => faults' = faults]_vars

\* Every machine is created or Failed in the end, however often calls fail and
\* the manager dies of it, but for these: the ones whose error lost its type
\* or never had one, or ends the process every time, are retried for ever.
RetriedForEver ==
    \/ scopeAnswer(spec, world) # "ok" \/ ~validateMachine(spec)
    \/ tooManyLabels(spec.labels, world.labels)
    \/ tooManyLabels(spec.diskLabels, world.labels)
    \/ tooManyTags(mergeInfraProviderSpecTags(world.tags, spec.tags))
    \/ spec.shielded = Unset /\ IsUEFICompatible(spec, world) = "error"
    \/ Accelerated /\ ~typesListable(spec, world)
    \/ spec.userData /\ world.userData # "ok"
CreateSettles == <>[](instance.asked \/ phase = "Failed" \/ RetriedForEver)
=============================================================================
