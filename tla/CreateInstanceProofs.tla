----------------------- MODULE CreateInstanceProofs -----------------------
(***************************************************************************)
(* What CreateInstance guarantees of the instance it asks for and of its   *)
(* errors, for any labels, tags, limits, quotas and number of failures.    *)
(***************************************************************************)
EXTENDS CreateInstance, FiniteSetTheorems, TLAPS

USE CreateAssumption

----------------------------------------------------------------------------
(***************************************************************************)
(* The two records and how they change                                     *)
(***************************************************************************)

\* The fields of a spec that create never changes.
SameButShielded(s, t) ==
    /\ t.valid = s.valid /\ t.project = s.project /\ t.preemptible = s.preemptible
    /\ t.model = s.model /\ t.restart = s.restart /\ t.family = s.family
    /\ t.gpus = s.gpus /\ t.image = s.image /\ t.labels = s.labels
    /\ t.diskLabels = s.diskLabels /\ t.tags = s.tags

\* Storing the scope's ShieldedInstanceConfig leaves the rest of the spec.
LEMMA SpecStored ==
    ASSUME NEW s \in Specs, NEW options \in Shielded
    PROVE  /\ [s EXCEPT !.shielded = options] \in Specs
           /\ [s EXCEPT !.shielded = options].shielded = options
           /\ SameButShielded(s, [s EXCEPT !.shielded = options])
  BY ZenonT(60) DEF Specs, SameButShielded

\* What changes outside leaves the cluster's labels and tags alone, and the
\* boot image unless the spec names an image family.
LEMMA WorldMoves ==
    ASSUME world \in Worlds, WorldChanges
    PROVE  /\ world' \in Worlds
           /\ world'.labels = world.labels /\ world'.tags = world.tags
           /\ world'.image = world.image \/ spec.image = "family"
  BY DEF WorldChanges, Worlds

\* How a step changes the stored spec, the world and the instance.
LEMMA RecordMoves ==
    ASSUME [Next]_vars
    PROVE  \/ UNCHANGED <<spec, world, instance>>
           \/ /\ pc = "insert" /\ instance' = Instance(spec, world, chosen)
              /\ UNCHANGED <<spec, world>>
           \/ /\ pc = "close" /\ spec' = [spec EXCEPT !.shielded = chosen]
              /\ UNCHANGED <<world, instance>>
           \/ WorldChanges /\ UNCHANGED <<spec, instance>>
<1>1. CASE UNCHANGED vars
  BY <1>1 DEF vars
<1>2. CASE Exists \/ newMachineScope \/ GetLabels \/ GetTags
  BY <1>2 DEF Exists, newMachineScope, GetLabels, GetTags
<1>3. CASE CheckImage \/ ListTypes \/ checkQuota \/ BuildDisks \/ GetUserData
  BY <1>3 DEF CheckImage, ListTypes, checkQuota, BuildDisks, GetUserData
<1>4. CASE InstancesInsert
  BY <1>4 DEF InstancesInsert
<1>5. CASE Close
  BY <1>5 DEF Close
<1>6. CASE Finish \/ Crash \/ Restart
  BY <1>6 DEF Finish, Crash, Restart
<1>7. CASE WorldChanges
  BY <1>7 DEF WorldChanges
<1> QED
  BY <1>1, <1>2, <1>3, <1>4, <1>5, <1>6, <1>7 DEF Next, Create

----------------------------------------------------------------------------
(***************************************************************************)
(* What is known at each call                                              *)
(***************************************************************************)

Late == {"types", "quota", "disks", "userData", "insert"}
Inner == {"labels", "tags", "image"} \cup Late

Merged == mergeInfraProviderSpecTags(world.tags, spec.tags)

\* The properties of the instance are not inductive: what an earlier call has
\* checked must still hold of the spec and the world at InstancesInsert, and
\* the scope's ShieldedInstanceConfig is the stored one or stems from it.
Checked ==
    /\ pc \in Inner \cup {"scope"} => validateMachine(spec) /\ outcome = "none"
    /\ pc = "idle" => outcome = "none"
    /\ down => pc = "idle"
    /\ pc \in Inner \ {"labels"} => ~tooManyLabels(spec.labels, world.labels)
    /\ pc \in Inner \ {"labels", "tags"} =>
          ~tooManyTags(Merged) /\ inaccessibleTags(Merged) = {} /\ restartPolicyToBool(spec) # "error"
    /\ pc \in {"userData", "insert"} => ~tooManyLabels(spec.diskLabels, world.labels)
    /\ pc \in {"types", "quota"} => Accelerated
    /\ pc \in Inner \cup {"close"} =>
          chosen = spec.shielded \/ (spec.shielded = Unset /\ chosen = Disabled)
    /\ pc = "image" => chosen = Unset
    /\ pc \in Late /\ world.image = "legacy" /\ spec.image # "family" => chosen # Unset

\* The options an instance without UEFI support is given differ from none.
LEMMA DisabledIsSet == Unset # Disabled /\ Unset \in Shielded /\ Disabled \in Shielded
  BY DEF Unset, Disabled, Shielded

\* Where AfterShielded goes: to the list of machine types only if there are
\* accelerators to be checked.
LEMMA AfterShieldedMoves ==
    ASSUME AfterShielded
    PROVE  \/ pc' = "close" /\ outcome' = "invalid"
           \/ pc' = "disks" /\ outcome' = outcome
           \/ pc' = "types" /\ outcome' = outcome /\ Accelerated
  BY DEF AfterShielded, validateGuestAccelerators, Accelerated, Goto, Error

\* Every step keeps what the calls have established.  What create checks of
\* the spec and of the world does not depend on what others change.
LEMMA CheckedStep == TypeOK /\ Checked /\ [Next]_vars => Checked'
<1> SUFFICES ASSUME TypeOK, Checked, [Next]_vars PROVE Checked'
  OBVIOUS
<1> USE DEF Checked, Inner, Late, Goto, Error, NoScope
<1>1. CASE UNCHANGED vars
  BY <1>1 DEF vars, Accelerated, Merged
<1>2. CASE Exists
  BY <1>2 DEF Exists, Creatable, Accelerated, Merged
<1>3. CASE newMachineScope
  BY <1>3 DEF newMachineScope, Accelerated, Merged
<1>4. CASE GetLabels
  BY <1>4 DEF GetLabels, Accelerated, Merged
<1>5. CASE GetTags
  <2>1. pc = "tags" /\ UNCHANGED <<spec, world, chosen, down>>
    BY <1>5 DEF GetTags
  <2>2. /\ Merged' = Merged /\ Accelerated' = Accelerated
    BY <2>1 DEF Merged, Accelerated
  <2>3. CASE pc' = "close"
    BY <2>1, <2>2, <2>3
  <2>4. CASE pc' # "close"
    <3>1. /\ ~tooManyTags(Merged) /\ inaccessibleTags(Merged) = {}
          /\ restartPolicyToBool(spec) # "error"
          /\ IF chosen = Unset THEN Goto("image") ELSE AfterShielded
      BY <1>5, <2>4 DEF GetTags, getTagValuesNames, Merged
    <3>2. CASE chosen = Unset
      BY <2>1, <2>2, <3>1, <3>2
    <3>3. CASE chosen # Unset
      BY <2>1, <2>2, <2>4, <3>1, <3>3, AfterShieldedMoves
    <3> QED
      BY <3>2, <3>3
  <2> QED
    BY <2>3, <2>4
<1>6. CASE CheckImage
  <2>1. pc = "image" /\ UNCHANGED <<spec, world, down>> /\ chosen = Unset
    BY <1>6 DEF CheckImage
  <2>2. /\ Merged' = Merged /\ Accelerated' = Accelerated
    BY <2>1 DEF Merged, Accelerated
  <2>3. chosen' = Unset \/ chosen' = Disabled
    BY <1>6, <2>1 DEF CheckImage
  <2>4. spec.shielded = Unset
    BY <2>1, DisabledIsSet
  <2>5. CASE pc' = "close"
    BY <2>1, <2>2, <2>3, <2>4, <2>5
  <2>6. CASE pc' # "close"
    <3>1. /\ AfterShielded /\ IsUEFICompatible(spec, world) # "error"
          /\ chosen' = IF IsUEFICompatible(spec, world) = "no" THEN Disabled ELSE chosen
      BY <1>6, <2>6 DEF CheckImage
    <3>2. world.image = "legacy" => chosen' = Disabled
      BY <3>1 DEF IsUEFICompatible
    <3>3. outcome' = outcome /\ pc' \in {"disks", "types"} /\ (pc' = "types" => Accelerated)
      BY <2>6, <3>1, AfterShieldedMoves
    <3> QED
      BY <2>1, <2>2, <2>3, <2>4, <3>2, <3>3, DisabledIsSet
  <2> QED
    BY <2>5, <2>6
<1>7. CASE ListTypes
  BY <1>7 DEF ListTypes, ManagerExits, Accelerated, Merged
<1>8. CASE checkQuota
  BY <1>8 DEF checkQuota, Accelerated, Merged
<1>9. CASE BuildDisks
  BY <1>9 DEF BuildDisks, Accelerated, Merged
<1>10. CASE GetUserData
  BY <1>10 DEF GetUserData, Accelerated, Merged
<1>11. CASE InstancesInsert
  BY <1>11 DEF InstancesInsert, Accelerated, Merged
<1>12. CASE Close \/ Finish \/ Crash
  BY <1>12 DEF Close, Finish, Crash, ManagerExits
<1>13. CASE Restart
  BY <1>13 DEF Restart
<1>14. CASE WorldChanges
  <2>1. /\ UNCHANGED <<spec, pc, chosen, outcome, down>>
        /\ world'.labels = world.labels /\ world'.tags = world.tags
        /\ world'.image = world.image \/ spec.image = "family"
    BY <1>14, WorldMoves DEF WorldChanges, TypeOK
  <2>2. Merged' = Merged
    BY <2>1 DEF Merged
  <2>3. Accelerated' = Accelerated
    BY <2>1 DEF Accelerated
  <2> QED
    BY <2>1, <2>2, <2>3
<1> QED
  BY <1>1, <1>2, <1>3, <1>4, <1>5, <1>6, <1>7, <1>8, <1>9, <1>10, <1>11, <1>12,
     <1>13, <1>14 DEF Next, Create

\* Nothing has been checked when the first attempt begins.
LEMMA CheckedInit == Init => Checked
  BY DEF Init, Checked, Inner, Late

----------------------------------------------------------------------------
(***************************************************************************)
(* Types                                                                   *)
(***************************************************************************)

\* A step that leaves the spec, the world and the instance moves on to a call
\* or ends the attempt.
LEMMA ControlTypes ==
    ASSUME TypeOK, [Next]_vars
    PROVE  /\ phase' \in {"Provisioning", "Failed"} /\ pc' \in Steps
           /\ outcome' \in {"none", "retry", "invalid", "created"}
           /\ chosen' \in Shielded /\ down' \in BOOLEAN /\ faults' \in 0..MaxFaults
<1>f. Disturbance \/ UNCHANGED faults => faults' \in 0..MaxFaults
  <2>1. faults \in 0..MaxFaults /\ MaxFaults \in Nat
    BY DEF TypeOK
  <2> QED
    BY <2>1 DEF Disturbance
<1>s. spec.shielded \in Shielded
  BY DEF TypeOK, Specs
<1> USE DEF TypeOK, Steps, Goto, Error, NoScope
<1>1. CASE UNCHANGED vars
  BY <1>1 DEF vars
<1>2. CASE Exists
  BY <1>2, <1>f DEF Exists
<1>3. CASE newMachineScope
  BY <1>3, <1>f, <1>s DEF newMachineScope
<1>4. CASE GetLabels
  BY <1>4, <1>f DEF GetLabels
<1>5. CASE GetTags
  BY <1>5, <1>f DEF GetTags, getTagValuesNames, AfterShielded
<1>6. CASE CheckImage
  BY <1>6, <1>f, DisabledIsSet DEF CheckImage, AfterShielded
<1>7. CASE ListTypes
  BY <1>7, <1>f, DisabledIsSet DEF ListTypes, ManagerExits
<1>8. CASE checkQuota
  BY <1>8, <1>f DEF checkQuota
<1>9. CASE BuildDisks
  BY <1>9, <1>f DEF BuildDisks
<1>10. CASE GetUserData
  BY <1>10, <1>f DEF GetUserData
<1>11. CASE InstancesInsert
  BY <1>11, <1>f DEF InstancesInsert
<1>12. CASE Close
  BY <1>12, <1>f DEF Close
<1>13. CASE Finish
  BY <1>13, <1>f, DisabledIsSet DEF Finish
<1>14. CASE WorldChanges
  BY <1>14, <1>f DEF WorldChanges
<1>15. CASE Crash
  BY <1>15, <1>f, DisabledIsSet DEF Crash, ManagerExits
<1>16. CASE Restart
  BY <1>16, <1>f DEF Restart
<1> QED
  BY <1>1, <1>2, <1>3, <1>4, <1>5, <1>6, <1>7, <1>8, <1>9, <1>10, <1>11, <1>12,
     <1>13, <1>14, <1>15, <1>16 DEF Next, Create

\* What the instance asked for has to do with the spec and the world.
LEMMA InstanceFields ==
    ASSUME NEW s, NEW w, NEW options
    PROVE  /\ Instance(s, w, options).asked = TRUE
           /\ Instance(s, w, options).labels = mergeLabels(s.labels, w.labels)
           /\ Instance(s, w, options).diskLabels = mergeLabels(s.diskLabels, w.labels)
           /\ Instance(s, w, options).tags = mergeInfraProviderSpecTags(w.tags, s.tags)
           /\ Instance(s, w, options).preemptible = s.preemptible
           /\ Instance(s, w, options).spot = (s.model = "Spot")
           /\ Instance(s, w, options).automaticRestart = restartPolicyToBool(s)
           /\ Instance(s, w, options).shielded = shieldedInstanceConfig(options)
  BY DEF Instance

\* Every step keeps the types, given what has been checked.
LEMMA TypeStep == TypeOK /\ Checked /\ [Next]_vars => TypeOK'
<1> SUFFICES ASSUME TypeOK, Checked, [Next]_vars PROVE TypeOK'
  OBVIOUS
<1>1. spec' \in Specs /\ world' \in Worlds
  <2>1. spec \in Specs /\ world \in Worlds /\ chosen \in Shielded
    BY DEF TypeOK
  <2> QED
    BY <2>1, RecordMoves, SpecStored, WorldMoves
<1>2. /\ instance'.asked \in BOOLEAN
      /\ instance'.asked => instance'.automaticRestart \in {"", "Always", "Never"}
  <2>1. CASE instance' = instance
    BY <2>1 DEF TypeOK
  <2>2. CASE pc = "insert" /\ instance' = Instance(spec, world, chosen)
    <3>1. restartPolicyToBool(spec) # "error"
      BY <2>2 DEF Checked, Inner, Late
    <3>2. spec.restart \in {"", "Always", "Never", "other"}
      BY DEF TypeOK, Specs
    <3>3. restartPolicyToBool(spec) \in {"", "Always", "Never"}
      BY <3>1, <3>2 DEF restartPolicyToBool
    <3> QED
      BY <2>2, <3>3, InstanceFields
  <2> QED
    BY <2>1, <2>2, RecordMoves
<1> QED
  BY <1>1, <1>2, ControlTypes DEF TypeOK

\* The first attempt begins well typed.
LEMMA TypeInit == Init => TypeOK
<1> SUFFICES ASSUME Init PROVE TypeOK
  OBVIOUS
<1>1. spec \in Specs /\ world \in Worlds
  <2>1. PICK start \in Starts : spec = start[1] /\ world = start[2]
    BY DEF Init
  <2>2. start \in Specs \X Worlds
    BY <2>1
  <2> QED
    BY <2>1, <2>2
<1>2. instance.asked = FALSE
  BY DEF Init, NoInstance
<1>3. faults \in 0..MaxFaults
  <2>1. faults = MaxFaults /\ MaxFaults \in Nat
    BY DEF Init
  <2> QED
    BY <2>1
<1>4. /\ phase \in {"Provisioning", "Failed"} /\ pc \in Steps /\ chosen \in Shielded
      /\ outcome \in {"none", "retry", "invalid", "created"} /\ down \in BOOLEAN
  BY DisabledIsSet DEF Init, Steps
<1> QED
  BY <1>1, <1>2, <1>3, <1>4 DEF TypeOK

----------------------------------------------------------------------------
(***************************************************************************)
(* The instance that is asked for                                          *)
(***************************************************************************)

\* Every step keeps Schedulable: the spec that Exists accepted and whose
\* restart policy was converted is the one the instance is made of.
LEMMA SchedulableStep == TypeOK /\ Checked /\ Schedulable /\ [Next]_vars => Schedulable'
<1> SUFFICES ASSUME TypeOK, Checked, Schedulable, [Next]_vars PROVE Schedulable'
  OBVIOUS
<1>1. CASE instance' = instance
  BY <1>1 DEF Schedulable
<1>2. CASE pc = "insert" /\ instance' = Instance(spec, world, chosen)
  <2>1. validateMachine(spec) /\ restartPolicyToBool(spec) # "error"
    BY <1>2 DEF Checked, Inner, Late
  <2>2. ~(spec.preemptible /\ spec.model = "Spot")
    BY <2>1 DEF validateMachine
  <2>3. spec.preemptible \/ spec.model = "Spot" => restartPolicyToBool(spec) # "Always"
    BY <2>1 DEF restartPolicyToBool, isSpot
  <2>4. /\ instance'.preemptible = spec.preemptible
        /\ instance'.spot = (spec.model = "Spot")
        /\ instance'.automaticRestart = restartPolicyToBool(spec)
    BY ZenonT(60), <1>2, InstanceFields
  <2> HIDE DEF restartPolicyToBool
  <2> QED
    BY <2>2, <2>3, <2>4 DEF Schedulable
<1> QED
  BY <1>1, <1>2, RecordMoves

\* The labels are finite in number, so the cluster's own counts for one.
LEMMA LabelCount ==
    ASSUME NEW own \in SUBSET LabelKeys, NEW infra \in SUBSET LabelKeys,
           ~tooManyLabels(own, infra)
    PROVE  Labelled(mergeLabels(own, infra), own)
<1> DEFINE all == own \cup infra \cup {OwnedKey}
<1>1. DOMAIN mergeLabels(own, infra) = all
  BY DEF mergeLabels
<1>2. IsFiniteSet(all) /\ Cardinality(all) \in Nat
  BY FS_Subset, FS_CardinalityType
<1>3. Cardinality(all \ {OwnedKey}) = Cardinality(all) - 1
  BY <1>2, FS_RemoveElement
<1>4. Cardinality(all) - 1 <= MaxLabels
  <2>1. ~(Cardinality(all) - 1 > MaxLabels)
    BY <1>1 DEF tooManyLabels
  <2> QED
    BY <1>2, <2>1
<1>5. /\ mergeLabels(own, infra)[OwnedKey] = "ocp"
      /\ \A key \in own \ {OwnedKey} : mergeLabels(own, infra)[key] = "spec"
  BY DEF mergeLabels
<1> QED
  BY <1>1, <1>3, <1>4, <1>5 DEF Labelled

\* The machine's tags come first, the others are known, and few.
LEMMA TagCount ==
    ASSUME NEW infra \in Some(TagKeys, TagValues), NEW own \in Some(TagKeys, TagValues),
           ~tooManyTags(mergeInfraProviderSpecTags(infra, own)),
           inaccessibleTags(mergeInfraProviderSpecTags(infra, own)) = {}
    PROVE  LET all == mergeInfraProviderSpecTags(infra, own)
           IN  /\ \A key \in DOMAIN own : all[key] = own[key]
               /\ \A key \in DOMAIN all : <<key, all[key]>> \in KnownTags
               /\ Cardinality(DOMAIN all) <= MaxTags
<1> DEFINE all == mergeInfraProviderSpecTags(infra, own)
<1>1. \A key \in DOMAIN own : all[key] = own[key]
  BY DEF mergeInfraProviderSpecTags
<1>2. \A key \in DOMAIN all : <<key, all[key]>> \in KnownTags
  BY DEF inaccessibleTags
<1>3. DOMAIN all = DOMAIN infra \cup DOMAIN own /\ DOMAIN infra \subseteq TagKeys
      /\ DOMAIN own \subseteq TagKeys
  BY DEF mergeInfraProviderSpecTags, Some
<1>4. Cardinality(DOMAIN all) \in Nat
  BY <1>3, FS_Subset, FS_CardinalityType
<1>5. Cardinality(DOMAIN all) <= MaxTags
  BY <1>4 DEF tooManyTags
<1> QED
  BY <1>1, <1>2, <1>5

\* Every step keeps LabelsAndTags: the labels and tags that were counted are
\* those of the instance, and neither owner nor cluster changes them.
LEMMA LabelsStep == TypeOK /\ Checked /\ LabelsAndTags /\ [Next]_vars => LabelsAndTags'
<1> SUFFICES ASSUME TypeOK, Checked, LabelsAndTags, [Next]_vars PROVE LabelsAndTags'
  OBVIOUS
<1>1. CASE UNCHANGED <<spec, instance>>
  BY <1>1 DEF LabelsAndTags, Labelled
<1>2. CASE /\ pc = "insert" /\ instance' = Instance(spec, world, chosen)
           /\ UNCHANGED <<spec, world>>
  <2>1. /\ ~tooManyLabels(spec.labels, world.labels)
        /\ ~tooManyLabels(spec.diskLabels, world.labels)
        /\ ~tooManyTags(Merged) /\ inaccessibleTags(Merged) = {}
    BY <1>2 DEF Checked, Inner, Late
  <2>2. /\ spec.labels \in SUBSET LabelKeys /\ spec.diskLabels \in SUBSET LabelKeys
        /\ world.labels \in SUBSET LabelKeys
    BY DEF TypeOK, Specs, Worlds
  <2>3. spec.tags \in Some(TagKeys, TagValues) /\ world.tags \in Some(TagKeys, TagValues)
    BY DEF TypeOK, Specs, Worlds
  <2>4. /\ Labelled(instance'.labels, spec.labels)
        /\ Labelled(instance'.diskLabels, spec.diskLabels)
    <3>1. instance'.labels = mergeLabels(spec.labels, world.labels)
      BY <1>2 DEF Instance
    <3>2. instance'.diskLabels = mergeLabels(spec.diskLabels, world.labels)
      BY <1>2 DEF Instance
    <3>3. Labelled(mergeLabels(spec.labels, world.labels), spec.labels)
      BY <2>1, <2>2, LabelCount
    <3>4. Labelled(mergeLabels(spec.diskLabels, world.labels), spec.diskLabels)
      BY <2>1, <2>2, LabelCount
    <3> QED
      BY <3>1, <3>2, <3>3, <3>4
  <2>5. /\ \A key \in DOMAIN spec.tags : instance'.tags[key] = spec.tags[key]
        /\ \A key \in DOMAIN instance'.tags : <<key, instance'.tags[key]>> \in KnownTags
        /\ Cardinality(DOMAIN instance'.tags) <= MaxTags
    <3>1. instance'.tags = mergeInfraProviderSpecTags(world.tags, spec.tags)
      BY <1>2, InstanceFields
    <3> QED
      BY <2>1, <2>3, <3>1, TagCount DEF Merged
  <2> QED
    BY <1>2, <2>4, <2>5 DEF LabelsAndTags, Labelled
<1>3. CASE spec' = [spec EXCEPT !.shielded = chosen] /\ instance' = instance
  <2>1. spec \in Specs /\ chosen \in Shielded
    BY DEF TypeOK
  <2>2. /\ spec'.labels = spec.labels /\ spec'.diskLabels = spec.diskLabels
        /\ spec'.tags = spec.tags
    BY <1>3, <2>1, SpecStored DEF SameButShielded
  <2> QED
    BY <1>3, <2>2 DEF LabelsAndTags, Labelled
<1> QED
  BY <1>1, <1>2, <1>3, RecordMoves

\* Every step keeps BootsUnlessChosen: storing the scope's options, in
\* whatever attempt, does not make the stored ones look like the owner's
\* choice, nor the owner's choice like none.
LEMMA BootsStep == TypeOK /\ Checked /\ BootsUnlessChosen /\ [Next]_vars => BootsUnlessChosen'
<1> SUFFICES ASSUME TypeOK, Checked, BootsUnlessChosen, [Next]_vars PROVE BootsUnlessChosen'
  OBVIOUS
<1>1. CASE UNCHANGED <<spec, world, instance>>
  BY <1>1 DEF BootsUnlessChosen
<1>2. CASE /\ pc = "insert" /\ instance' = Instance(spec, world, chosen)
           /\ UNCHANGED <<spec, world>>
  <2> SUFFICES ASSUME world.image = "legacy", spec.image # "family",
                      spec.shielded \in {Unset, Disabled}
               PROVE  instance'.shielded
                        = [secureBoot |-> FALSE, vtpm |-> FALSE, integrity |-> FALSE]
    BY <1>2 DEF BootsUnlessChosen
  <2>1. chosen = Disabled
    BY <1>2 DEF Checked, Inner, Late
  <2>2. instance'.shielded = shieldedInstanceConfig(chosen)
    BY <1>2, InstanceFields
  <2> QED
    BY <2>1, <2>2 DEF shieldedInstanceConfig, Disabled
<1>3. CASE /\ pc = "close" /\ spec' = [spec EXCEPT !.shielded = chosen]
           /\ UNCHANGED <<world, instance>>
  <2>1. spec \in Specs /\ chosen \in Shielded
    BY DEF TypeOK
  <2>2. spec'.shielded = chosen /\ spec'.image = spec.image
    BY <1>3, <2>1, SpecStored DEF SameButShielded
  <2>3. chosen \in {Unset, Disabled} => spec.shielded \in {Unset, Disabled}
    BY <1>3 DEF Checked
  <2> QED
    BY <1>3, <2>2, <2>3 DEF BootsUnlessChosen
<1>4. CASE WorldChanges /\ UNCHANGED <<spec, instance>>
  <2>1. world'.image = world.image \/ spec.image = "family"
    BY <1>4, WorldMoves DEF TypeOK
  <2> QED
    BY <1>4, <2>1 DEF BootsUnlessChosen
<1> QED
  BY <1>1, <1>2, <1>3, <1>4, RecordMoves

\* An attempt is made of a machine that is not Failed and has no instance, and
\* an attempt that has asked for one does not end as an invalid configuration.
AttemptInv ==
    /\ pc \in Inner \cup {"scope"} => phase # "Failed" /\ ~instance.asked
    /\ outcome = "invalid" => ~instance.asked
    /\ FailedHasNoInstance

\* Every step keeps that, the lost answer of InstancesInsert included.
LEMMA AttemptStep == Checked /\ AttemptInv /\ [Next]_vars => AttemptInv'
<1> SUFFICES ASSUME Checked, AttemptInv, [Next]_vars PROVE AttemptInv'
  OBVIOUS
<1> USE DEF AttemptInv, FailedHasNoInstance, Inner, Late, Goto, Error, NoScope
<1>1. CASE Exists
  BY <1>1 DEF Exists, Creatable, NoInstance
<1>2. CASE newMachineScope \/ GetLabels
  BY <1>2 DEF newMachineScope, GetLabels
<1>3. CASE GetTags
  BY <1>3, AfterShieldedMoves DEF GetTags, getTagValuesNames
<1>4. CASE CheckImage
  BY <1>4, AfterShieldedMoves DEF CheckImage
<1>5. CASE ListTypes \/ Crash
  BY <1>5 DEF ListTypes, Crash, ManagerExits
<1>6. CASE checkQuota
  BY <1>6 DEF checkQuota
<1>7. CASE BuildDisks \/ GetUserData
  BY <1>7 DEF BuildDisks, GetUserData
<1>8. CASE InstancesInsert
  <2>1. /\ pc = "insert" /\ phase' = phase /\ pc' = "close"
        /\ outcome' = "invalid" => instance' = instance
    BY <1>8 DEF InstancesInsert
  <2> QED
    BY <2>1
<1>9. CASE Close \/ Finish
  BY <1>9 DEF Close, Finish
<1>10. CASE WorldChanges \/ Restart \/ UNCHANGED vars
  BY <1>10 DEF WorldChanges, Restart, vars
<1> QED
  BY <1>1, <1>2, <1>3, <1>4, <1>5, <1>6, <1>7, <1>8, <1>9, <1>10 DEF Next, Create

\* The strengthened invariant: types, what the calls have established, and
\* what is known of the instance.
CreateInv == TypeOK /\ Checked /\ Schedulable /\ LabelsAndTags /\ BootsUnlessChosen

\* The strengthened invariant holds.
LEMMA CreateInvariant == Spec => []CreateInv
<1>1. Init => CreateInv
  <2>1. Init => instance.asked = FALSE
    BY DEF Init, NoInstance
  <2> QED
    BY <2>1, TypeInit, CheckedInit DEF CreateInv, Schedulable, LabelsAndTags, BootsUnlessChosen
<1>2. CreateInv /\ [Next]_vars => CreateInv'
  BY TypeStep, CheckedStep, SchedulableStep, LabelsStep, BootsStep DEF CreateInv
<1> QED
  BY <1>1, <1>2, PTL DEF Spec

----------------------------------------------------------------------------
(***************************************************************************)
(* The theorems                                                            *)
(***************************************************************************)

\* The state is well typed; that the restart policy of the instance is one GCP
\* knows rests on what restartPolicyToBool has refused.
THEOREM TypeCorrect == Spec => []TypeOK
<1>1. CreateInv => TypeOK
  BY DEF CreateInv
<1> QED
  BY <1>1, CreateInvariant, PTL

\* No instance is asked for with a restart policy or a provisioning model
\* that contradicts the others (validateMachine, restartPolicyToBool).
THEOREM OnlySchedulable == Spec => []Schedulable
<1>1. CreateInv => Schedulable
  BY DEF CreateInv
<1> QED
  BY <1>1, CreateInvariant, PTL

\* An image without UEFI support gets an instance it can boot on unless the
\* owner chose otherwise, over any number of attempts (create, Close).
THEOREM LegacyImagesBoot == Spec => []BootsUnlessChosen
<1>1. CreateInv => BootsUnlessChosen
  BY DEF CreateInv
<1> QED
  BY <1>1, CreateInvariant, PTL

\* Labels and tags are complete, known and within their limits, for any keys
\* and any limits (GetLabelsList, GetResourceManagerTags).
THEOREM LabelsAndTagsRight == Spec => []LabelsAndTags
<1>1. CreateInv => LabelsAndTags
  BY DEF CreateInv
<1> QED
  BY <1>1, CreateInvariant, PTL

\* A machine Failed by create has no instance, whatever answers were lost and
\* however often the manager died in between (create, InstancesInsert).
THEOREM FailedLeavesNothing == Spec => []FailedHasNoInstance
<1>1. Init => AttemptInv
  BY DEF Init, AttemptInv, FailedHasNoInstance, NoInstance, Inner, Late
<1>2. CreateInv => Checked
  BY DEF CreateInv
<1>3. AttemptInv => FailedHasNoInstance
  BY DEF AttemptInv
<1> QED
  BY <1>1, <1>2, <1>3, AttemptStep, CreateInvariant, PTL DEF Spec

\* The comparison in 32 bits agrees with that of the numbers if they fit.
LEMMA QuotaFits ==
    ASSUME NEW usage \in Nat, NEW count \in Nat, NEW limit \in Nat,
           usage + count <= MaxInt32, limit <= MaxInt32
    PROVE  quotaExceeded(usage, count, limit) = {usage + count > limit}
<1>1. Int32(usage) = {usage} /\ Int32(limit) = {limit}
  BY DEF Int32
<1>2. Wrap(usage + count) = usage + count
  BY DEF Wrap
<1> QED
  BY <1>1, <1>2 DEF quotaExceeded

\* The quota is judged right for any usage, limit and count that fit into the
\* integer (checkQuota).
THEOREM QuotaJudged == Spec => QuotaExact
<1>1. CreateInv /\ [Next]_vars
        => [LET sum == world.usage + requestedGPUs(spec, world)
            IN /\ pc = "quota" /\ faults' = faults
               /\ world.metered /\ world.accelerator /\ spec.gpuSupported
               /\ sum <= MaxInt32 /\ world.limit <= MaxInt32
               => (outcome' = "invalid" <=> sum > world.limit)]_vars
  <2> DEFINE count == requestedGPUs(spec, world)
             sum == world.usage + count
  <2> HIDE DEF count
  <2> SUFFICES ASSUME TypeOK, Checked, Next, pc = "quota", faults' = faults,
                      world.metered, world.accelerator, spec.gpuSupported,
                      sum <= MaxInt32, world.limit <= MaxInt32
               PROVE  outcome' = "invalid" <=> sum > world.limit
    BY DEF CreateInv, count
  <2>1. ~Disturbance /\ outcome = "none" /\ ~down
    <3>1. faults \in 0..MaxFaults
      BY DEF TypeOK
    <3>2. ~Disturbance
      BY <3>1 DEF Disturbance
    <3> QED
      BY <3>2 DEF Checked, Inner, Late
  <2>2. world.usage \in Nat /\ world.limit \in Nat /\ count \in Nat
    <3>1. /\ world.usage \in 0..MaxUnits /\ world.limit \in 0..MaxUnits
          /\ world.attached \in 0..MaxInt32
      BY DEF TypeOK, Worlds
    <3>2. spec.gpuCount \in 0..MaxInt32
      BY DEF TypeOK, Specs
    <3>3. count \in {world.attached, spec.gpuCount}
      BY DEF count, requestedGPUs
    <3> QED
      BY <3>1, <3>2, <3>3
  <2>3. checkQuota
    BY <2>1 DEF Next, Create, Exists, Creatable, newMachineScope, GetLabels, GetTags,
       CheckImage, ListTypes, BuildDisks, GetUserData, InstancesInsert, Close, Finish, WorldChanges,
       Crash, Restart
  <2>4. \E exceeded \in quotaExceeded(world.usage, count, world.limit) :
           IF exceeded THEN Error("invalid") ELSE Goto("disks")
    BY <2>1, <2>3 DEF checkQuota, count
  <2>5. quotaExceeded(world.usage, count, world.limit) = {sum > world.limit}
    BY <2>2, QuotaFits
  <2>6. IF sum > world.limit THEN Error("invalid") ELSE Goto("disks")
    BY <2>4, <2>5
  <2> QED
    BY <2>1, <2>6 DEF Error, Goto
<1> QED
  BY <1>1, CreateInvariant, PTL DEF Spec, QuotaExact
=============================================================================
