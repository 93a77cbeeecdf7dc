--------------------- MODULE MachineSetControllerProofs ---------------------
(***************************************************************************)
(* What MachineSetController guarantees for any machine types and any      *)
(* number of edits and failures.                                           *)
(***************************************************************************)
EXTENDS MachineSetController, TLAPS

USE MachineSetAssumption

\* The types, and that the cache of machine types holds only what GCP knows.
TypeInv == TypeOK /\ types \subseteq KnownTypes

\* What a reconcile has established so far and what it leaves behind: a
\* MachineSet which is not queued is cached as the last reconcile has read it,
\* and it is stored like that unless the watch has something to deliver.
WorkInv ==
    /\ ~queued => base = cached
    /\ ~behind => cached = api
    /\ pc = "type" => ms = base
    /\ pc \in {"type", "image", "patch"} => ms.type = base.type
    /\ pc = "image" => ms.capacity = {base.type}
    /\ pc = "patch" /\ base.type \in KnownTypes =>
          result # "nil" \/ ms.capacity = {base.type}
    /\ pc = "idle" /\ ~queued /\ base.type \in KnownTypes =>
          \/ result = "invalid"
          \/ base.capacity = {base.type}
          \/ behind

\* The copy a reconcile works on has the owner's choices it has read.
ChoicesInv ==
    pc # "idle" =>
        /\ ms.team = base.team
        /\ base.shielded = "chosen" => ms.shielded = "chosen"

\* The steps on a copy keep its type.
LEMMA AnnotatedType ==
    ASSUME NEW set \in MachineSet, set.type \in KnownTypes, NEW order \in BOOLEAN
    PROVE  /\ annotated(set, order) \in MachineSet
           /\ annotated(set, order).type = set.type
           /\ annotated(set, order).capacity = {set.type}
           /\ annotated(set, order).team = set.team
           /\ annotated(set, order).shielded = set.shielded
  BY DEF MachineSet, annotated, mergedArch, CPUArchitecture

\* The change of the shielded configuration touches nothing else.
LEMMA ShieldedType ==
    ASSUME NEW set \in MachineSet
    PROVE  /\ shieldedDisabled(set) \in MachineSet
           /\ shieldedDisabled(set).type = set.type
           /\ shieldedDisabled(set).capacity = set.capacity
           /\ shieldedDisabled(set).team = set.team
           /\ set.shielded = "chosen" => shieldedDisabled(set).shielded = "chosen"
  BY DEF MachineSet, shieldedDisabled

\* A patch changes what differs between the two copies.
LEMMA PatchedFields ==
    ASSUME TypeOK, api' = Patched(api, base, ms)
    PROVE  /\ api' \in MachineSet
           /\ api'.capacity = IF ms.capacity = base.capacity THEN api.capacity ELSE ms.capacity
           /\ api'.team \in {ms.team, api.team}
           /\ api'.shielded =
                 IF ms.shielded = base.shielded THEN api.shielded ELSE ms.shielded
<1> USE DEF TypeOK
<1>1. api' \in MachineSet
  BY DEF MachineSet, Patched
<1>2. api'.capacity = IF ms.capacity = base.capacity THEN api.capacity ELSE ms.capacity
  BY DEF MachineSet, Patched
<1>3. api'.team \in {ms.team, api.team}
  BY DEF MachineSet, Patched
<1>4. api'.shielded = IF ms.shielded = base.shielded THEN api.shielded ELSE ms.shielded
  BY DEF MachineSet, Patched
<1> QED
  BY <1>1, <1>2, <1>3, <1>4

\* An edit leaves a MachineSet behind.
LEMMA EditedType ==
    ASSUME TypeOK, OwnerEdits
    PROVE  api' \in MachineSet
<1>0. api \in MachineSet
  BY DEF TypeOK
<1>1. CASE \E t \in Types : api' = [api EXCEPT !.type = t]
  BY <1>0, <1>1 DEF MachineSet
<1>2. CASE api' = [api EXCEPT !.uefi = ~@]
  BY <1>0, <1>2 DEF MachineSet
<1>3. CASE api' = [api EXCEPT !.team = ~@, !.order = FALSE]
  BY <1>0, <1>3 DEF MachineSet
<1>4. CASE \E sh \in {"unset", "chosen"} : api' = [api EXCEPT !.shielded = sh]
  BY <1>0, <1>4 DEF MachineSet
<1>5. CASE api' = [api EXCEPT !.capacity = {}]
  BY <1>0, <1>5 DEF MachineSet
<1>6. CASE api' = [api EXCEPT !.arch = "none", !.order = FALSE]
  BY <1>0, <1>6 DEF MachineSet
<1> QED
  BY <1>1, <1>2, <1>3, <1>4, <1>5, <1>6 DEF OwnerEdits

\* Whatever fails leaves the bound on disturbances.
LEMMA FaultsType ==
    ASSUME TypeOK, Disturbance \/ UNCHANGED faults
    PROVE  faults' \in 0..MaxFaults
<1>1. faults \in 0..MaxFaults /\ MaxFaults \in Nat
  BY DEF TypeOK
<1> QED
  BY <1>1 DEF Disturbance

\* Every step keeps the types.
LEMMA TypeStep == TypeInv /\ [Next]_vars => TypeInv'
<1> SUFFICES ASSUME TypeInv, [Next]_vars PROVE TypeInv'
  OBVIOUS
<1>t. TypeOK
  BY DEF TypeInv
<1> USE <1>t DEF TypeOK, TypeInv
<1>1. CASE UNCHANGED vars
  BY <1>1 DEF vars, ctlVars
<1>2. CASE Reconcile
  BY <1>2, FaultsType DEF Reconcile, getGCPServiceFails
<1>3. CASE getMachineType
  <2>1. /\ UNCHANGED <<api, cached, behind, queued, base, edits>> /\ pc' \in {"image", "patch"}
        /\ result' \in {"nil", "invalid", "error"}
        /\ Disturbance \/ UNCHANGED faults
        /\ \/ UNCHANGED <<types, ms>>
           \/ /\ ms.type \in KnownTypes /\ types' = types \cup {ms.type}
              /\ \E order \in BOOLEAN : ms' = annotated(ms, order)
    BY <1>3 DEF getMachineType, Fetched
  <2>2. ms' \in MachineSet /\ types' \subseteq KnownTypes
    BY <2>1, AnnotatedType
  <2> QED
    BY <2>1, <2>2, FaultsType DEF KnownTypes
<1>4. CASE checkImage
  <2>1. ms' \in MachineSet
    BY <1>4, ShieldedType DEF checkImage
  <2>2. faults' \in 0..MaxFaults
    BY <1>4, FaultsType DEF checkImage
  <2> QED
    BY <1>4, <2>1, <2>2 DEF checkImage
<1>5. CASE patch
  <2>1. api' \in MachineSet
    BY <1>5, PatchedFields DEF patch
  <2>2. faults' \in 0..MaxFaults /\ queued' \in BOOLEAN
    BY <1>5, FaultsType DEF patch, Requeued
  <2> QED
    BY <1>5, <2>1, <2>2 DEF patch
<1>6. CASE OwnerEdits
  <2>1. edits' \in 0..MaxEdits
    BY <1>6 DEF OwnerEdits
  <2> QED
    BY <1>6, <2>1, EditedType DEF OwnerEdits, ctlVars
<1>7. CASE WatchDelivers \/ Resync
  BY <1>7 DEF WatchDelivers, Resync, ctlVars
<1>8. CASE Crash
  BY <1>8, FaultsType DEF Crash
<1> QED
  BY <1>1, <1>2, <1>3, <1>4, <1>5, <1>6, <1>7, <1>8 DEF Next, Controller

\* Every step keeps what the controller relies on.
LEMMA WorkStep == TypeInv /\ WorkInv /\ [Next]_vars => WorkInv'
<1> SUFFICES ASSUME TypeInv, WorkInv, [Next]_vars PROVE WorkInv'
  OBVIOUS
<1>t. TypeOK
  BY DEF TypeInv
<1> USE <1>t DEF WorkInv
<1>1. CASE UNCHANGED vars
  BY <1>1 DEF vars, ctlVars
<1>2. CASE Reconcile
  BY <1>2 DEF Reconcile, getGCPServiceFails
<1>3. CASE getMachineType
  <2>1. CASE \E order \in BOOLEAN : ms' = annotated(ms, order)
             /\ ms.type \in KnownTypes /\ pc' = "image"
    <3>1. PICK order \in BOOLEAN : ms' = annotated(ms, order)
      BY <2>1
    <3>2. ms \in MachineSet /\ ms.type \in KnownTypes
      BY <2>1 DEF TypeOK
    <3>3. ms'.type = ms.type /\ ms'.capacity = {ms.type}
      BY <3>1, <3>2, AnnotatedType
    <3> QED
      BY <1>3, <2>1, <3>3 DEF getMachineType
  <2>2. CASE pc' = "patch" /\ ms' = ms /\ (ms.type \notin KnownTypes \/ result' = "invalid")
    BY <1>3, <2>2 DEF getMachineType
  <2> QED
    BY <1>3, <2>1, <2>2 DEF getMachineType, Fetched, TypeInv
<1>4. CASE checkImage
  <2>1. ms'.type = ms.type /\ ms'.capacity = ms.capacity
    BY <1>4, ShieldedType DEF checkImage, TypeOK
  <2> QED
    BY <1>4, <2>1 DEF checkImage
<1>5. CASE patch
  <2>1. CASE api' = Patched(api, base, ms)
    <3>1. api'.capacity = IF ms.capacity = base.capacity THEN api.capacity ELSE ms.capacity
      BY <2>1, PatchedFields DEF TypeOK
    <3>2. ms.capacity # base.capacity => api'.capacity = ms.capacity
      BY <3>1
    <3>3. /\ UNCHANGED <<cached, base, ms, result>> /\ pc = "patch" /\ pc' = "idle"
          /\ behind' = (behind \/ api' # api)
      BY <1>5 DEF patch
    <3>4. queued => queued'
      BY <1>5 DEF patch
    <3>5. result = "error" => queued'
      BY <1>5 DEF patch, Requeued
    <3>6. ~behind' => cached' = api'
      BY <3>3
    <3>7. ASSUME ~queued', base.type \in KnownTypes, result # "invalid", ~behind'
          PROVE  base.capacity = {base.type}
      <4>1. result = "nil" /\ ms.capacity = {base.type} /\ base = cached
        BY <3>3, <3>4, <3>5, <3>7 DEF TypeOK
      <4>2. api' = base
        BY <3>3, <3>6, <3>7, <4>1
      <4> QED
        BY <3>2, <4>1, <4>2
    <3> QED
      BY <3>3, <3>4, <3>6, <3>7
  <2>2. CASE queued'
    BY <1>5, <2>2 DEF patch
  <2> QED
    BY <1>5, <2>1, <2>2 DEF patch, Requeued
<1>6. CASE OwnerEdits
  BY <1>6 DEF OwnerEdits, ctlVars
<1>7. CASE WatchDelivers \/ Resync
  BY <1>7 DEF WatchDelivers, Resync, ctlVars
<1>8. CASE Crash
  BY <1>8 DEF Crash
<1> QED
  BY <1>1, <1>2, <1>3, <1>4, <1>5, <1>6, <1>7, <1>8 DEF Next, Controller

\* Every step keeps the owner's choices in the copy.
LEMMA ChoicesStep == TypeInv /\ WorkInv /\ ChoicesInv /\ [Next]_vars => ChoicesInv'
<1> SUFFICES ASSUME TypeInv, WorkInv, ChoicesInv, [Next]_vars PROVE ChoicesInv'
  OBVIOUS
<1>t. TypeOK
  BY DEF TypeInv
<1> USE <1>t DEF ChoicesInv
<1>1. CASE UNCHANGED vars \/ WatchDelivers \/ Resync \/ OwnerEdits \/ Crash
  BY <1>1 DEF vars, ctlVars, WatchDelivers, Resync, OwnerEdits, Crash
<1>2. CASE Reconcile \/ patch
  BY <1>2 DEF Reconcile, patch
<1>3. CASE getMachineType
  <2>1. CASE \E order \in BOOLEAN : ms' = annotated(ms, order)
             /\ ms.type \in KnownTypes /\ pc' = "image"
    <3>1. PICK order \in BOOLEAN : ms' = annotated(ms, order)
      BY <2>1
    <3>2. ms \in MachineSet /\ ms.type \in KnownTypes
      BY <2>1 DEF TypeOK
    <3>3. ms'.team = ms.team /\ ms'.shielded = ms.shielded
      BY <3>1, <3>2, AnnotatedType
    <3> QED
      BY <1>3, <3>3 DEF getMachineType
  <2>2. CASE ms' = ms
    BY <1>3, <2>2 DEF getMachineType
  <2> QED
    BY <1>3, <2>1, <2>2 DEF getMachineType, Fetched, TypeInv
<1>4. CASE checkImage
  <2>1. ms'.team = ms.team /\ (ms.shielded = "chosen" => ms'.shielded = "chosen")
    BY <1>4, ShieldedType DEF checkImage, TypeOK
  <2> QED
    BY <1>4, <2>1 DEF checkImage
<1> QED
  BY <1>1, <1>2, <1>3, <1>4 DEF Next, Controller

\* All that the theorems below rest on.
MachineSetInv == TypeInv /\ WorkInv /\ ChoicesInv

\* The invariants hold together.
LEMMA MachineSetInvariant == Spec => []MachineSetInv
<1>1. Init => MachineSetInv
  <2> SUFFICES ASSUME Init PROVE MachineSetInv
    OBVIOUS
  <2>1. TypeInv
    <3>1. api \in MachineSet
      BY DEF Init, MachineSet
    <3>2. behind \in BOOLEAN /\ queued \in BOOLEAN
      BY Zenon DEF Init
    <3> QED
      BY <3>1, <3>2 DEF Init, TypeInv, TypeOK
  <2>2. cached = api /\ base = cached /\ pc = "idle" /\ queued = TRUE
    BY DEF Init
  <2>3. WorkInv /\ ChoicesInv
    BY <2>2 DEF WorkInv, ChoicesInv
  <2> QED
    BY <2>1, <2>3 DEF MachineSetInv
<1>2. MachineSetInv /\ [Next]_vars => MachineSetInv'
  BY TypeStep, WorkStep, ChoicesStep DEF MachineSetInv
<1> QED
  BY <1>1, <1>2, PTL DEF Spec

----------------------------------------------------------------------------
\* Every variable keeps its type; what the annotations describe is a machine
\* type GCP knows.
THEOREM TypeCorrect == Spec => []TypeOK
<1>1. MachineSetInv => TypeOK
  BY DEF MachineSetInv, TypeInv
<1> QED
  BY <1>1, MachineSetInvariant, PTL

\* A MachineSet nobody is about to look at has the annotations of its machine
\* type, unless a failure was taken for an invalid configuration (Reconcile).
THEOREM NotGivenUpEarly == Spec => []GivenUpOnlyIfInvalid
<1>1. MachineSetInv => GivenUpOnlyIfInvalid
  BY DEF MachineSetInv, WorkInv, GivenUpOnlyIfInvalid
<1> QED
  BY <1>1, MachineSetInvariant, PTL

\* What the owner had chosen before the controller read the MachineSet is left
\* alone (reconcile and the patch of Reconcile).
THEOREM ChoicesAreKept == Spec => OwnersChoicesKept
<1> DEFINE Kept ==
      edits' = edits =>
          /\ api.team = base.team => api'.team = api.team
          /\ api.shielded = "chosen" /\ base.shielded = "chosen" => api'.shielded = "chosen"
<1>1. MachineSetInv /\ [Next]_vars => [Kept]_vars
  <2> SUFFICES ASSUME MachineSetInv, Next, edits' = edits PROVE Kept
    OBVIOUS
  <2>1. CASE patch /\ api' = Patched(api, base, ms)
    <3>1. /\ api'.team \in {ms.team, api.team}
          /\ api'.shielded = IF ms.shielded = base.shielded THEN api.shielded ELSE ms.shielded
      BY <2>1, PatchedFields DEF MachineSetInv, TypeInv
    <3> QED
      BY <2>1, <3>1 DEF MachineSetInv, ChoicesInv, patch
  <2>2. CASE OwnerEdits
    <3>1. edits' # edits
      BY <2>2 DEF OwnerEdits, MachineSetInv, TypeInv, TypeOK
    <3> QED
      BY <3>1
  <2>3. CASE api' = api
    BY <2>3
  <2> QED
    BY <2>1, <2>2, <2>3 DEF Next, Controller, Reconcile, getMachineType, checkImage,
       patch, WatchDelivers, Resync, Crash
<1> QED
  BY <1>1, MachineSetInvariant, PTL DEF Spec, OwnersChoicesKept
=============================================================================
