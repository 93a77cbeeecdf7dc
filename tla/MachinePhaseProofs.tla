------------------------- MODULE MachinePhaseProofs -------------------------
(***************************************************************************)
(* What the phase of a machine says.  Reconcile writes the phase from a    *)
(* copy it read several calls earlier, in a patch of its own; the provider *)
(* ID, the addresses and the reference to the Node come from other         *)
(* patches, of the actuator and of the nodelink controller.                *)
(***************************************************************************)
EXTENDS MachineLifecycleProofs

\* What a phase claims is so in the stored object.
Backed(phase) ==
    /\ phase \in {"Provisioned", "Running"} => api.providerID # NoPlace
    /\ phase = "Running" => api.nodeRef

\* No copy knows of a provider ID, of addresses or of a Node that the stored
\* object lacks, nor has a phase that claims them.
KnownTo(copy) ==
    /\ Backed(copy.phase)
    /\ machineIsProvisioned(copy) => api.providerID # NoPlace
    /\ copy.nodeRef => api.nodeRef

\* The stored phase is true, and so is every phase that may still be written.
PhaseInv ==
    /\ KnownTo(api) /\ KnownTo(cached)
    /\ pc \in ProvisioningSteps => KnownTo(m) /\ Backed(to)

\* What a phase claims of the addresses is so in the stored object.
Addressed(phase) == phase \in {"Provisioned", "Running"} => api.addresses

Closing == {"close.spec", "close.status"}

\* While the scope is closed its copy has the addresses the phase will claim,
\* though they may not be stored yet; what is stored is not taken away.
AddressInv ==
    /\ Addressed(api.phase) /\ Addressed(cached.phase)
    /\ cached.addresses => api.addresses
    /\ pc \in ProvisioningSteps =>
          Addressed(m.phase) /\ (m.addresses => api.addresses)
    /\ pc = "status" => Addressed(to)
    /\ pc \in Closing => /\ m.addresses => s.addresses
                         /\ to \in {"Provisioned", "Running"} => s.addresses

----------------------------------------------------------------------------
(***************************************************************************)
(* What a step does to the phases                                          *)
(***************************************************************************)

\* Only updateStatus writes the phase: the one Reconcile decided on, or
\* Deleting.
LEMMA PhaseWrites ==
    ASSUME TypeInv, [Next]_vars
    PROVE  \/ api'.phase = api.phase
           \/ pc = "status" /\ to \in Phases /\ api'.phase = to /\ pc' = "idle"
           \/ api'.phase = "Deleting"
<1> USE DEF storeVars
<1>a. /\ api \in Machine /\ cached \in Machine /\ m \in Machine /\ s \in Machine
      /\ "Deleting" \in Phases
  BY DEF TypeInv, TypeOK, Phases
<1>1. CASE AddFinalizer
  BY <1>1, <1>a DEF AddFinalizer, Write, Machine
<1>2. CASE PatchStatus
  BY <1>2, StatusWrites
<1>3. CASE PersistSpec \/ PersistStatus
  <2>1. api' \in {api, patchMachine(api, m, s), patchMachineStatus(api, m, s)}
    BY <1>3 DEF PersistSpec, PersistStatus, Write
  <2>2. /\ patchMachine(api, m, s).phase = api.phase
        /\ patchMachineStatus(api, m, s).phase = api.phase
    BY <1>a, PatchFields
  <2> QED
    BY <2>1, <2>2
<1>4. CASE MarkDeleting
  <2>1. CASE Write(updateStatus(api, cached, "Deleting", FALSE), {"m"})
    BY <1>a, <2>1, MarkingFields DEF Write
  <2> QED
    BY <1>4, <2>1 DEF MarkDeleting
<1>5. CASE RemoveFinalizer
  BY <1>5, <1>a DEF RemoveFinalizer, Write, Machine
<1>6. CASE DrainFinish \/ OwnerDeletes \/ OwnerEdits \/ HookRemoved \/ NodeLinked
  BY <1>6, OthersWrite DEF TypeInv
<1>7. CASE Create \/ UpdatePools \/ Register \/ ReadInstance
  BY <1>7, ProvisioningMoves
<1>8. CASE DeletePools \/ DeleteLookup \/ Unregister \/ DeleteInstance
             \/ FinalExists \/ DeleteNode
  BY <1>8, DeletionMoves
<1>9. CASE CheckExists \/ DrainStart \/ WatchDelivers \/ NodeJoins
             \/ InstanceStarts \/ InstanceVanishes \/ Interference \/ Crash
  BY <1>9 DEF CheckExists, DrainStart, WatchDelivers, NodeJoins,
       InstanceStarts, InstanceVanishes, Interference, Crash
<1>10. CASE UNCHANGED vars
  BY <1>10 DEF vars
<1> QED
  BY <1>1, <1>2, <1>3, <1>4, <1>5, <1>6, <1>7, <1>8, <1>9, <1>10
     DEF Next, Reconcile, Environment

\* Neither the provider ID nor the reference to the Node is ever removed.
LEMMA RecordGrows ==
    ASSUME TypeInv, ProviderIDInv, [Next]_vars
    PROVE  /\ api.providerID # NoPlace => api'.providerID # NoPlace
           /\ api.nodeRef => api'.nodeRef
<1>a. api \in Machine /\ m \in Machine /\ s \in Machine
  BY DEF TypeInv, TypeOK
<1>1. api.providerID # NoPlace => api'.providerID # NoPlace
  <2>1. CASE PersistSpec
    <3>1. CASE Write(patchMachine(api, m, s), {"scope"})
      <4>1. api'.providerID = Patched(api.providerID, m.providerID, s.providerID)
        BY <1>a, <3>1 DEF Write, patchMachine, Machine
      <4> QED
        BY <2>1, <4>1 DEF PersistSpec, Patched, ProviderIDInv
    <3> QED
      BY <2>1, <3>1 DEF PersistSpec, storeVars
  <2> QED
    BY <2>1, StoreSteps
<1>2. api.nodeRef => api'.nodeRef
  BY StoreSteps DEF NodeLinked
<1> QED
  BY <1>1, <1>2

\* The phases Reconcile may decide on, given the copy it looks at.
LEMMA PhaseDecisions ==
    ASSUME [Next]_vars, pc' \in ProvisioningSteps
    PROVE  \/ /\ CheckExists /\ m' = cached
              /\ \/ to' \in {"none", "Failed", cached.phase, Deref(cached.phase)}
                 \/ to' = "Provisioning" /\ Deref(cached.phase) = ""
           \/ /\ pc \in ProvisioningSteps /\ m' = m
              /\ to' \in {to, "none", "Failed", Deref(m.phase), PhaseAfterUpdate(m)}
<1> USE DEF storeVars, ctlVars
<1>a. /\ "idle" \notin ProvisioningSteps /\ DeletionSteps \cap ProvisioningSteps = {}
  BY DEF ProvisioningSteps, DeletionSteps
<1>1. CASE CheckExists
  BY <1>1 DEF CheckExists, AfterExists
<1>2. CASE Create \/ UpdatePools \/ Register \/ ReadInstance
  <2>1. pc \in ProvisioningSteps /\ m' = m
    BY <1>2, <1>a, ProvisioningMoves DEF MovesWithin
  <2>2. to' \in {to, "none", "Failed", Deref(m.phase), PhaseAfterUpdate(m)}
    BY <1>2 DEF Create, CreateFailed, UpdatePools, Register, registerInstance,
         ReadInstance, Done, Call, Report, Close
  <2> QED
    BY <2>1, <2>2
<1>3. CASE PersistSpec \/ PersistStatus
  BY <1>3 DEF PersistSpec, PersistStatus, CloseFailed, Closed, Done, Report,
       ProvisioningSteps
<1>4. CASE AddFinalizer \/ PatchStatus \/ RemoveFinalizer \/ Crash
  BY <1>4, <1>a DEF AddFinalizer, Readable, PatchStatus, RemoveFinalizer, Crash, Done
<1>5. CASE MarkDeleting
  BY <1>5 DEF MarkDeleting, Readable, Done, ProvisioningSteps
<1>6. CASE DeletePools \/ DeleteLookup \/ Unregister \/ DeleteInstance
             \/ FinalExists \/ DeleteNode
  BY <1>6, <1>a, DeletionMoves DEF MovesWithin
<1>7. CASE DrainStart \/ DrainFinish \/ OwnerDeletes \/ OwnerEdits \/ HookRemoved
             \/ WatchDelivers \/ NodeJoins \/ NodeLinked \/ InstanceStarts
             \/ InstanceVanishes \/ Interference
  BY <1>7 DEF DrainStart, DrainFinish, OwnerDeletes, OwnerEdits, HookRemoved,
       WatchDelivers, NodeJoins, NodeLinked, InstanceStarts, InstanceVanishes,
       Interference
<1>8. CASE UNCHANGED vars
  BY <1>8 DEF vars
<1> QED
  BY <1>1, <1>2, <1>3, <1>4, <1>5, <1>6, <1>7, <1>8 DEF Next, Reconcile, Environment

----------------------------------------------------------------------------
(***************************************************************************)
(* The phase is true                                                       *)
(***************************************************************************)

\* A phase that is backed, and a copy that is known, stay so.
LEMMA BackedStays ==
    ASSUME TypeInv, ProviderIDInv, [Next]_vars
    PROVE  /\ \A phase : Backed(phase) => Backed(phase)'
           /\ \A copy : KnownTo(copy) => KnownTo(copy)'
<1>1. ASSUME NEW phase, Backed(phase) PROVE Backed(phase)'
  BY <1>1, RecordGrows DEF Backed
<1>2. ASSUME NEW copy, KnownTo(copy) PROVE KnownTo(copy)'
  BY <1>2, RecordGrows DEF KnownTo, Backed
<1> QED
  BY <1>1, <1>2

\* Whatever Reconcile decides on from a known copy is backed.
LEMMA DecisionsBacked ==
    ASSUME NEW copy, KnownTo(copy)
    PROVE  \A phase \in {"none", "Failed", "Provisioning", copy.phase,
                         Deref(copy.phase), PhaseAfterUpdate(copy)} : Backed(phase)
  BY DEF KnownTo, Backed, Deref, PhaseAfterUpdate

\* Every step keeps the phases true.
LEMMA PhaseStep ==
    TypeInv /\ ProviderIDInv /\ PhaseInv /\ [Next]_vars => PhaseInv'
<1> SUFFICES ASSUME TypeInv, ProviderIDInv, PhaseInv, [Next]_vars PROVE PhaseInv'
  OBVIOUS
<1>a. "status" \in ProvisioningSteps /\ "idle" \notin ProvisioningSteps
  BY DEF ProvisioningSteps
<1>1. KnownTo(api)'
  <2>1. Backed(api.phase)'
    <3>1. Backed(api.phase) /\ (pc = "status" => Backed(to)) /\ Backed("Deleting")
      BY <1>a DEF PhaseInv, KnownTo, Backed
    <3> QED
      BY <3>1, PhaseWrites, RecordGrows DEF Backed
  <2>2. (machineIsProvisioned(api) => api.providerID # NoPlace)'
    <3>1. ProviderIDInv'
      BY ProviderIDStep
    <3> QED
      BY <3>1 DEF machineIsProvisioned, ProviderIDInv
  <2> QED
    BY <2>1, <2>2 DEF KnownTo
<1>2. KnownTo(cached)'
  <2>1. CASE cached' = cached
    BY <2>1, BackedStays DEF PhaseInv, KnownTo, Backed
  <2>2. CASE cached' = api /\ api' = api
    BY <2>2 DEF PhaseInv, KnownTo, Backed
  <2> QED
    BY <2>1, <2>2, ControlSteps
<1>3. ASSUME pc' \in ProvisioningSteps PROVE KnownTo(m)' /\ Backed(to)'
  <2>1. PICK copy \in {cached, m} :
           /\ m' = copy /\ KnownTo(copy) /\ Backed(to')
    <3>1. CASE /\ CheckExists /\ m' = cached
               /\ to' \in {"none", "Failed", "Provisioning", cached.phase,
                           Deref(cached.phase)}
      BY <3>1, DecisionsBacked DEF PhaseInv
    <3>2. CASE /\ pc \in ProvisioningSteps /\ m' = m
               /\ to' \in {to, "none", "Failed", Deref(m.phase), PhaseAfterUpdate(m)}
      BY <3>2, DecisionsBacked DEF PhaseInv
    <3> QED
      BY <1>3, <3>1, <3>2, PhaseDecisions
  <2> QED
    BY <2>1, RecordGrows DEF KnownTo, Backed
<1> QED
  BY <1>1, <1>2, <1>3 DEF PhaseInv

\* The phases are always true.
LEMMA PhaseInvariant == Spec => []PhaseInv
<1>1. Init => PhaseInv
  <2> SUFFICES ASSUME Init PROVE PhaseInv
    OBVIOUS
  <2>1. PICK spec \in StartSpecs, hook \in StartHooks : api = NewMachine(spec, hook)
    BY DEF Init
  <2>2. /\ api.phase = "nil" /\ ~api.addresses /\ ~api.nodeRef
        /\ api.providerID = NoPlace /\ cached = api /\ pc \notin ProvisioningSteps
    BY <2>1 DEF Init, NewMachine, ProvisioningSteps
  <2> QED
    BY <2>2 DEF PhaseInv, KnownTo, Backed, machineIsProvisioned
<1> QED
  BY <1>1, PhaseStep, InvInvariant, PTL DEF Spec

\* How a reconcile comes to close its scope.
LEMMA ClosingSteps ==
    ASSUME TypeInv, [Next]_vars, pc' \in Closing
    PROVE  \/ /\ Create /\ m' = m /\ s' = [m EXCEPT !.created = "False"]
              /\ to' \in {"none", "Failed"}
           \/ /\ ReadInstance /\ m' = m /\ inst' = inst
              /\ inst[m.spec.place] # "none"
              /\ s' = reconciledWithCloud(m, inst[m.spec.place])
              /\ to' \in {"none", PhaseAfterUpdate(m), Deref(m.phase)}
           \/ pc \in Closing /\ UNCHANGED <<m, s, to>>
<1> USE DEF storeVars, ctlVars, cloudVars, Closing
<1>a. /\ "idle" \notin ProvisioningSteps /\ DeletionSteps \cap ProvisioningSteps = {}
      /\ Closing \subseteq ProvisioningSteps
  BY DEF ProvisioningSteps, DeletionSteps
<1>1. CASE CheckExists
  BY <1>1 DEF CheckExists, AfterExists
<1>2. CASE Create \/ UpdatePools \/ Register
  BY <1>2 DEF Create, CreateFailed, UpdatePools, Register, registerInstance,
       Done, Call, Report, Close
<1>3. CASE ReadInstance
  BY <1>3 DEF ReadInstance, Done, Report, Close
<1>4. CASE PersistSpec \/ PersistStatus
  BY <1>4 DEF PersistSpec, PersistStatus, CloseFailed, Closed, Done, Report
<1>5. CASE AddFinalizer \/ PatchStatus \/ RemoveFinalizer \/ Crash
  BY <1>5 DEF AddFinalizer, Readable, PatchStatus, RemoveFinalizer, Crash, Done
<1>6. CASE MarkDeleting
  BY <1>6 DEF MarkDeleting, Readable, Done
<1>7. CASE DeletePools \/ DeleteLookup \/ Unregister \/ DeleteInstance
             \/ FinalExists \/ DeleteNode
  BY <1>7, <1>a, DeletionMoves DEF MovesWithin
<1>8. CASE DrainStart \/ DrainFinish \/ OwnerDeletes \/ OwnerEdits \/ HookRemoved
             \/ WatchDelivers \/ NodeJoins \/ NodeLinked \/ InstanceStarts
             \/ InstanceVanishes \/ Interference
  BY <1>8 DEF DrainStart, DrainFinish, OwnerDeletes, OwnerEdits, HookRemoved,
       WatchDelivers, NodeJoins, NodeLinked, InstanceStarts, InstanceVanishes,
       Interference
<1>9. CASE UNCHANGED vars
  BY <1>9 DEF vars
<1> QED
  BY <1>1, <1>2, <1>3, <1>4, <1>5, <1>6, <1>7, <1>8, <1>9
     DEF Next, Reconcile, Environment

\* How it comes to write a phase.
LEMMA StatusSteps ==
    ASSUME TypeInv, [Next]_vars, pc' = "status"
    PROVE  \/ CheckExists /\ m' = cached
           \/ /\ pc \in ProvisioningSteps /\ m' = m
              /\ \/ pc = "create" /\ to' = "Failed"
                 \/ pc \in Closing /\ to = "Failed" /\ to' = "Failed"
                 \/ to' = Deref(m.phase)
                 \/ pc = "status" /\ to' = to
                 \/ /\ pc = "close.status" /\ to' = to
                    /\ Write(patchMachineStatus(api, m, s), {})
<1> USE DEF storeVars, ctlVars, Closing
<1>a. /\ "idle" \notin ProvisioningSteps /\ DeletionSteps \cap ProvisioningSteps = {}
      /\ "status" \in ProvisioningSteps
  BY DEF ProvisioningSteps, DeletionSteps
<1>1. CASE CheckExists
  BY <1>1 DEF CheckExists
<1>2. CASE Create \/ UpdatePools \/ Register \/ ReadInstance
  <2>1. pc \in ProvisioningSteps /\ m' = m
    BY <1>2, <1>a, ProvisioningMoves DEF MovesWithin
  <2> QED
    BY <1>2, <2>1 DEF Create, CreateFailed, UpdatePools, Register, registerInstance,
         ReadInstance, Done, Call, Report, Close
<1>3. CASE PersistSpec
  BY <1>3 DEF PersistSpec, CloseFailed, Closed, Done, Report, ProvisioningSteps
<1>4. CASE PersistStatus
  BY <1>4 DEF PersistStatus, CloseFailed, Closed, Done, Report, ProvisioningSteps
<1>5. CASE AddFinalizer \/ PatchStatus \/ RemoveFinalizer \/ Crash
  BY <1>5 DEF AddFinalizer, Readable, PatchStatus, RemoveFinalizer, Crash, Done
<1>6. CASE MarkDeleting
  BY <1>6 DEF MarkDeleting, Readable, Done
<1>7. CASE DeletePools \/ DeleteLookup \/ Unregister \/ DeleteInstance
             \/ FinalExists \/ DeleteNode
  BY <1>7, <1>a, DeletionMoves DEF MovesWithin
<1>8. CASE DrainStart \/ DrainFinish \/ OwnerDeletes \/ OwnerEdits \/ HookRemoved
             \/ WatchDelivers \/ NodeJoins \/ NodeLinked \/ InstanceStarts
             \/ InstanceVanishes \/ Interference
  BY <1>8, <1>a DEF DrainStart, DrainFinish, OwnerDeletes, OwnerEdits, HookRemoved,
       WatchDelivers, NodeJoins, NodeLinked, InstanceStarts, InstanceVanishes,
       Interference
<1>9. CASE UNCHANGED vars
  BY <1>9, <1>a DEF vars
<1> QED
  BY <1>1, <1>2, <1>3, <1>4, <1>5, <1>6, <1>7, <1>8, <1>9
     DEF Next, Reconcile, Environment

\* The addresses are not taken away from a machine.
LEMMA AddressesStay ==
    ASSUME TypeInv, AddressInv, [Next]_vars, api.addresses
    PROVE  api'.addresses
<1>a. api \in Machine /\ m \in Machine /\ s \in Machine
  BY DEF TypeInv, TypeOK
<1>1. CASE PersistStatus
  <2>1. CASE Write(patchMachineStatus(api, m, s), {})
    <3>1. api'.addresses = Patched(api.addresses, m.addresses, s.addresses)
      BY <1>a, <2>1 DEF Write, patchMachineStatus, Machine
    <3>2. /\ m.addresses => s.addresses
          /\ m.addresses \in BOOLEAN /\ s.addresses \in BOOLEAN
      BY <1>1, <1>a DEF PersistStatus, AddressInv, Closing, Machine
    <3> QED
      BY <3>1, <3>2 DEF Patched
  <2> QED
    BY <1>1, <2>1 DEF PersistStatus, storeVars
<1> QED
  BY <1>1, StoreSteps

\* Every step keeps the addresses ahead of the phase.
LEMMA AddressStep == TypeInv /\ AddressInv /\ [Next]_vars => AddressInv'
<1> SUFFICES ASSUME TypeInv, AddressInv, [Next]_vars PROVE AddressInv'
  OBVIOUS
<1> USE DEF Addressed
<1>a. /\ api \in Machine /\ cached \in Machine /\ m \in Machine /\ s \in Machine
      /\ "status" \in ProvisioningSteps /\ Closing \subseteq ProvisioningSteps
      /\ "idle" \notin ProvisioningSteps
  BY DEF TypeInv, TypeOK, ProvisioningSteps, Closing
<1>b. api.addresses => api'.addresses
  BY AddressesStay
<1>1. Addressed(api.phase)'
  BY <1>b, PhaseWrites DEF AddressInv
<1>2. Addressed(cached.phase)' /\ (cached.addresses => api.addresses)'
  BY <1>b, ControlSteps DEF AddressInv
<1>3. ASSUME pc' \in ProvisioningSteps
      PROVE  Addressed(m.phase)' /\ (m.addresses => api.addresses)'
  <2>1. \/ m' = cached
        \/ pc \in ProvisioningSteps /\ m' = m
    BY <1>3, PhaseDecisions
  <2> QED
    BY <1>b, <2>1 DEF AddressInv
<1>4. ASSUME pc' = "status" PROVE Addressed(to)'
  <2>1. CASE CheckExists /\ m' = cached
    <3>1. \/ to' \in {"none", "Failed", "Provisioning", cached.phase, Deref(cached.phase)}
          \/ pc \in ProvisioningSteps
      BY <1>4, <1>a, PhaseDecisions
    <3>2. pc \notin ProvisioningSteps
      BY <2>1, <1>a DEF CheckExists, Reconcilable, Readable
    <3>3. \A phase \in {"none", "Failed", "Provisioning", cached.phase, Deref(cached.phase)} :
            Addressed(phase)
      BY DEF AddressInv, Deref
    <3> QED
      BY <1>b, <3>1, <3>2, <3>3
  <2>2. CASE /\ pc \in ProvisioningSteps
             /\ to' \in {"Failed", Deref(m.phase)} \/ (pc = "status" /\ to' = to)
    <3>1. Addressed("Failed") /\ Addressed(Deref(m.phase))
      BY <2>2 DEF AddressInv, Deref
    <3> QED
      BY <1>b, <2>2, <3>1 DEF AddressInv
  <2>3. CASE /\ pc = "close.status" /\ to' = to
             /\ Write(patchMachineStatus(api, m, s), {})
    <3>1. api'.addresses = Patched(api.addresses, m.addresses, s.addresses)
      BY <1>a, <2>3 DEF Write, patchMachineStatus, Machine
    <3>2. /\ m.addresses => api.addresses
          /\ to \in {"Provisioned", "Running"} => s.addresses
          /\ m.addresses \in BOOLEAN /\ s.addresses \in BOOLEAN
      BY <2>3, <1>a DEF AddressInv, Closing, Machine
    <3> QED
      BY <2>3, <3>1, <3>2 DEF Patched
  <2> QED
    BY <1>4, <2>1, <2>2, <2>3, StatusSteps
<1>5. ASSUME pc' \in Closing
      PROVE  /\ (m.addresses => s.addresses)'
             /\ (to \in {"Provisioned", "Running"} => s.addresses)'
  <2>1. CASE /\ m' = m /\ s' = [m EXCEPT !.created = "False"]
             /\ to' \in {"none", "Failed"}
    BY <1>a, <2>1 DEF Machine
  <2>2. CASE s' = reconciledWithCloud(m, inst[m.spec.place])
    BY <1>a, <2>2 DEF reconciledWithCloud, Machine
  <2>3. CASE pc \in Closing /\ UNCHANGED <<m, s, to>>
    BY <2>3 DEF AddressInv
  <2> QED
    BY <1>5, <2>1, <2>2, <2>3, ClosingSteps
<1> QED
  BY <1>1, <1>2, <1>3, <1>4, <1>5 DEF AddressInv

\* Whatever the owner edits, however stale the cache is and whatever fails, a
\* machine stored as Provisioned or Running has its provider ID and its
\* addresses, and one stored as Running its Node.
THEOREM PhaseIsTrue == Spec => []PhaseTruthful
<1>1. Init => AddressInv
  <2> SUFFICES ASSUME Init PROVE AddressInv
    OBVIOUS
  <2>1. PICK spec \in StartSpecs, hook \in StartHooks : api = NewMachine(spec, hook)
    BY DEF Init
  <2>2. /\ api.phase = "nil" /\ ~api.addresses /\ cached = api
        /\ pc \notin ProvisioningSteps \cup Closing /\ pc # "status"
    BY <2>1 DEF Init, NewMachine, ProvisioningSteps, Closing
  <2> QED
    BY <2>2 DEF AddressInv, Addressed
<1>2. PhaseInv /\ AddressInv => PhaseTruthful
  BY DEF PhaseInv, KnownTo, Backed, AddressInv, Addressed, PhaseTruthful
<1> QED
  BY <1>1, <1>2, AddressStep, PhaseInvariant, InvInvariant, PTL DEF Spec

----------------------------------------------------------------------------
(***************************************************************************)
(* A machine that has an instance is given up only when it was taken away  *)
(***************************************************************************)

\* Somebody may have begun to delete the instance: somebody else, or the
\* controller once it has seen that the machine is deleted.
Begun == removed \/ cached.deleted

\* A phase, once there is one, is not lost; there is one before there is an
\* instance, and before there is a copy that knows of one.
PhaseKeptInv ==
    /\ cached.phase # "nil" \/ machineIsProvisioned(api) \/ ~NoInstance
          => api.phase # "nil"
    /\ machineIsProvisioned(cached) => cached.phase # "nil"
    /\ pc \in ProvisioningSteps => to # "nil" /\ m.phase # "Failed"
    /\ pc = "create" => api.phase # "nil" /\ ~machineIsProvisioned(m)
    /\ pc \in Closing /\ machineIsProvisioned(s) => api.phase # "nil"

\* Until then the instance of a machine with a provider ID or addresses, or of
\* a scope that has found it, is there; and the machine is not given up.
RemovedInv ==
    /\ ~Begun => \A p \in Places : inst[p] # "STOPPING"
    /\ ~Begun /\ machineIsProvisioned(api) => ~NoInstance
    /\ ~Begun /\ pc \in Closing /\ machineIsProvisioned(s) => ~NoInstance
    /\ pc \in Closing /\ to = "Failed" => ~machineIsProvisioned(m)
    /\ pc = "status" /\ to = "Failed" => removed \/ ~machineIsProvisioned(m)

\* An instance disappears only after somebody has begun to delete it.
LEMMA RemovalSteps ==
    ASSUME TypeInv, CopiesInv, [Next]_vars
    PROVE  /\ removed => removed'
           /\ Begun => Begun'
           /\ \A p \in Places : inst[p] # "none" /\ inst'[p] = "none"
                                 => inst[p] = "STOPPING"
           /\ \A p \in Places : inst[p] # "STOPPING" /\ inst'[p] = "STOPPING" => Begun'
<1> USE DEF cloudVars
<1>a. /\ inst \in [Places -> CloudStates \cup {"none"}]
      /\ m.spec.place \in Places /\ cached.spec.place \in Places
  BY DEF TypeInv, TypeOK, Machine, Specs
<1>b. cached.deleted => cached'.deleted
  BY ControlSteps DEF CopiesInv
<1>1. CASE Create
  BY <1>1, <1>a, <1>b DEF Create, Inserted, Begun
<1>2. CASE DeleteInstance
  <2>1. cached.deleted /\ removed' = removed
    BY <1>2 DEF DeleteInstance, CopiesInv, DeletionSteps
  <2> QED
    BY <1>2, <1>a, <1>b, <2>1 DEF DeleteInstance, Begun
<1>3. CASE InstanceStarts \/ InstanceVanishes
  BY <1>3, <1>a, <1>b DEF InstanceStarts, InstanceVanishes, Begun
<1>4. CASE Interference
  BY <1>4, <1>a, <1>b DEF Interference, Begun
<1>5. CASE UpdatePools \/ Register \/ DeletePools \/ Unregister \/ DeleteNode \/ NodeJoins
  <2>1. UNCHANGED <<inst, removed>>
    BY Zenon, <1>5 DEF UpdatePools, Register, DeletePools, Unregister, DeleteNode,
         NodeJoins
  <2> QED
    BY <1>b, <2>1 DEF Begun
<1>6. CASE AddFinalizer \/ CheckExists \/ PatchStatus \/ ReadInstance \/ PersistSpec
             \/ PersistStatus \/ DeleteLookup \/ FinalExists \/ RemoveFinalizer
  BY <1>6, <1>b DEF AddFinalizer, CheckExists, PatchStatus, ReadInstance, PersistSpec,
       PersistStatus, DeleteLookup, FinalExists, RemoveFinalizer, Begun
<1>7. CASE MarkDeleting
  <2>1. UNCHANGED cloudVars
    BY Zenon, <1>7 DEF MarkDeleting
  <2> QED
    BY <1>b, <2>1 DEF Begun
<1>8. CASE DrainStart \/ DrainFinish \/ OwnerDeletes \/ OwnerEdits \/ HookRemoved
             \/ WatchDelivers \/ NodeLinked \/ Crash
  BY <1>8, <1>b DEF DrainStart, DrainFinish, OwnerDeletes, OwnerEdits, HookRemoved,
       WatchDelivers, NodeLinked, Crash, Begun
<1>9. CASE UNCHANGED vars
  BY <1>9, <1>b DEF vars, Begun
<1> QED
  BY <1>1, <1>2, <1>3, <1>4, <1>5, <1>6, <1>7, <1>8, <1>9
     DEF Next, Reconcile, Environment

\* A machine gets a provider ID or addresses from the scope's copy.
LEMMA ProvisionedFrom ==
    ASSUME TypeInv, [Next]_vars, machineIsProvisioned(api'), ~machineIsProvisioned(api)
    PROVE  pc \in Closing /\ machineIsProvisioned(s)
<1> USE DEF machineIsProvisioned, Closing
<1>a. api \in Machine /\ m \in Machine /\ s \in Machine
  BY DEF TypeInv, TypeOK
<1>1. CASE PersistSpec
  <2>1. CASE Write(patchMachine(api, m, s), {"scope"})
    <3>1. /\ api'.providerID = Patched(api.providerID, m.providerID, s.providerID)
          /\ api'.addresses = api.addresses
      BY <1>a, <2>1 DEF Write, patchMachine, Machine
    <3> QED
      BY <1>1, <3>1 DEF PersistSpec, Patched
  <2> QED
    BY <1>1, <2>1 DEF PersistSpec, storeVars
<1>2. CASE PersistStatus
  <2>1. CASE Write(patchMachineStatus(api, m, s), {})
    <3>1. /\ api'.addresses = Patched(api.addresses, m.addresses, s.addresses)
          /\ api'.providerID = api.providerID
      BY <1>a, <2>1 DEF Write, patchMachineStatus, Machine
    <3> QED
      BY <1>2, <3>1 DEF PersistStatus, Patched
  <2> QED
    BY <1>2, <2>1 DEF PersistStatus, storeVars
<1> QED
  BY <1>1, <1>2, StoreSteps

\* InstancesInsert is called for a copy that has a phase, and neither a
\* provider ID nor addresses.
LEMMA CreateSteps ==
    ASSUME TypeInv, [Next]_vars, pc' = "create"
    PROVE  \/ /\ CheckExists /\ m' = cached /\ cached.phase # "nil"
              /\ ~machineIsProvisioned(cached)
           \/ pc = "create" /\ m' = m
<1> USE DEF ctlVars
<1>a. /\ "idle" # "create" /\ "create" \notin DeletionSteps
  BY DEF DeletionSteps
<1>1. CASE CheckExists
  BY Zenon, <1>1 DEF CheckExists, AfterExists, Deref
<1>2. CASE Create \/ UpdatePools \/ Register \/ ReadInstance
  BY <1>2 DEF Create, CreateFailed, UpdatePools, Register, registerInstance,
       ReadInstance, Done, Call, Report, Close
<1>3. CASE PersistSpec \/ PersistStatus
  BY <1>3 DEF PersistSpec, PersistStatus, CloseFailed, Closed, Done, Report
<1>4. CASE AddFinalizer \/ PatchStatus \/ RemoveFinalizer \/ Crash
  BY <1>4 DEF AddFinalizer, Readable, PatchStatus, RemoveFinalizer, Crash, Done
<1>5. CASE MarkDeleting
  BY <1>5 DEF MarkDeleting, Readable, Done
<1>6. CASE DeletePools \/ DeleteLookup \/ Unregister \/ DeleteInstance
             \/ FinalExists \/ DeleteNode
  BY <1>6, <1>a, DeletionMoves DEF MovesWithin
<1>7. CASE DrainStart \/ DrainFinish \/ OwnerDeletes \/ OwnerEdits \/ HookRemoved
             \/ WatchDelivers \/ NodeJoins \/ NodeLinked \/ InstanceStarts
             \/ InstanceVanishes \/ Interference
  BY <1>7 DEF DrainStart, DrainFinish, OwnerDeletes, OwnerEdits, HookRemoved,
       WatchDelivers, NodeJoins, NodeLinked, InstanceStarts, InstanceVanishes,
       Interference
<1>8. CASE UNCHANGED vars
  BY <1>8 DEF vars
<1> QED
  BY <1>1, <1>2, <1>3, <1>4, <1>5, <1>6, <1>7, <1>8 DEF Next, Reconcile, Environment

\* Every step keeps the phase.
LEMMA PhaseKeptStep == TypeInv /\ PhaseKeptInv /\ [Next]_vars => PhaseKeptInv'
<1> SUFFICES ASSUME TypeInv, PhaseKeptInv, [Next]_vars PROVE PhaseKeptInv'
  OBVIOUS
<1>a. /\ m \in Machine /\ cached \in Machine /\ m.spec.place \in Places
      /\ "status" \in ProvisioningSteps /\ "idle" \notin ProvisioningSteps
      /\ Closing \subseteq ProvisioningSteps
  BY DEF TypeInv, TypeOK, ProvisioningSteps, Closing, Machine, Specs
<1>b. api.phase # "nil" => api'.phase # "nil"
  BY <1>a, PhaseWrites DEF PhaseKeptInv
<1>c. \A copy : Deref(copy.phase) # "nil" /\ PhaseAfterUpdate(copy) # "nil"
  BY Zenon DEF Deref, PhaseAfterUpdate
<1>1. ~NoInstance' => api'.phase # "nil"
  BY <1>b, OnlyCreateInserts DEF NoInstance, Create, PhaseKeptInv
<1>2. machineIsProvisioned(api') => api'.phase # "nil"
  BY <1>b, ProvisionedFrom DEF PhaseKeptInv
<1>3. /\ cached'.phase # "nil" => api'.phase # "nil"
      /\ machineIsProvisioned(cached') => cached'.phase # "nil"
  BY <1>b, ControlSteps DEF PhaseKeptInv
<1>4. ASSUME pc' \in ProvisioningSteps PROVE to' # "nil" /\ m'.phase # "Failed"
  <2>1. CASE CheckExists /\ m' = cached
    <3>1. m'.phase # "Failed"
      BY <2>1 DEF CheckExists, Reconcilable, machineIsFailed
    <3>2. to' # "nil"
      BY Zenon, <2>1, <1>c DEF CheckExists, AfterExists
    <3> QED
      BY <3>1, <3>2
  <2>2. CASE /\ pc \in ProvisioningSteps /\ m' = m
             /\ to' \in {to, "none", "Failed", Deref(m.phase), PhaseAfterUpdate(m)}
    BY <1>c, <2>2 DEF PhaseKeptInv
  <2> QED
    BY <1>4, <2>1, <2>2, PhaseDecisions
<1>5. pc' = "create" => api'.phase # "nil" /\ ~machineIsProvisioned(m')
  BY <1>b, CreateSteps DEF PhaseKeptInv
<1>6. ASSUME pc' \in Closing, machineIsProvisioned(s') PROVE api'.phase # "nil"
  <2>1. CASE Create /\ s' = [m EXCEPT !.created = "False"]
    <3>1. machineIsProvisioned(s') = machineIsProvisioned(m)
      BY <1>a, <2>1 DEF machineIsProvisioned, Machine
    <3> QED
      BY <1>6, <2>1, <3>1 DEF Create, PhaseKeptInv
  <2>2. CASE inst[m.spec.place] # "none"
    BY <1>a, <1>b, <2>2 DEF NoInstance, PhaseKeptInv
  <2>3. CASE pc \in Closing /\ UNCHANGED <<m, s, to>>
    BY <1>6, <1>b, <2>3 DEF PhaseKeptInv
  <2> QED
    BY <1>6, <2>1, <2>2, <2>3, ClosingSteps
<1> QED
  BY <1>1, <1>2, <1>3, <1>4, <1>5, <1>6 DEF PhaseKeptInv, NoInstance

\* Every step gives a machine up only when its instance was removed: the place
\* Exists looked at is the only one where the instance can be.
LEMMA RemovedStep ==
    ASSUME OneValidPlace
    PROVE  TypeInv /\ CopiesInv /\ PhaseInv /\ KnownSpecsInv /\ KnownInv
             /\ PhaseKeptInv /\ RemovedInv /\ [Next]_vars => RemovedInv'
<1> SUFFICES ASSUME TypeInv, CopiesInv, PhaseInv, KnownSpecsInv, KnownInv,
                    PhaseKeptInv, RemovedInv, [Next]_vars
             PROVE  RemovedInv'
  OBVIOUS
<1>a. /\ m \in Machine /\ cached \in Machine /\ m.spec.place \in Places
      /\ "idle" \notin ProvisioningSteps /\ Closing \subseteq ProvisioningSteps
      /\ "status" \in ProvisioningSteps
  BY DEF TypeInv, TypeOK, ProvisioningSteps, Closing, Machine, Specs
<1>b. ~Begun' => ~Begun /\ (NoInstance' => NoInstance)
  BY RemovalSteps DEF NoInstance, RemovedInv
<1>c. removed => removed'
  BY RemovalSteps
<1>1. ~Begun' => \A p \in Places : inst'[p] # "STOPPING"
  BY <1>b, RemovalSteps DEF RemovedInv
<1>2. ~Begun' /\ machineIsProvisioned(api') => ~NoInstance'
  BY <1>b, ProvisionedFrom DEF RemovedInv
<1>3. ASSUME ~Begun', pc' \in Closing, machineIsProvisioned(s') PROVE ~NoInstance'
  <2>1. CASE Create /\ s' = [m EXCEPT !.created = "False"]
    <3>1. machineIsProvisioned(s') = machineIsProvisioned(m)
      BY <1>a, <2>1 DEF machineIsProvisioned, Machine
    <3> QED
      BY <1>3, <2>1, <3>1 DEF Create, PhaseKeptInv
  <2>2. CASE inst[m.spec.place] # "none"
    BY <1>a, <1>b, <1>3, <2>2 DEF NoInstance
  <2>3. CASE pc \in Closing /\ UNCHANGED <<m, s, to>>
    BY <1>3, <1>b, <2>3 DEF RemovedInv
  <2> QED
    BY <1>3, <2>1, <2>2, <2>3, ClosingSteps
<1>4. ASSUME pc' \in Closing, to' = "Failed" PROVE ~machineIsProvisioned(m')
  <2>1. CASE Create /\ m' = m
    BY <2>1 DEF Create, PhaseKeptInv
  <2>2. CASE ReadInstance /\ to' \in {"none", PhaseAfterUpdate(m), Deref(m.phase)}
    <3>1. pc \in ProvisioningSteps
      BY <2>2, ProvisioningMoves
    <3>2. Deref(m.phase) # "Failed" /\ PhaseAfterUpdate(m) # "Failed"
      BY Zenon, <3>1 DEF PhaseKeptInv, Deref, PhaseAfterUpdate
    <3> QED
      BY <1>4, <2>2, <3>2
  <2>3. CASE pc \in Closing /\ UNCHANGED <<m, s, to>>
    BY <1>4, <2>3 DEF RemovedInv
  <2> QED
    BY <1>4, <2>1, <2>2, <2>3, ClosingSteps
<1>5. ASSUME pc' = "status", to' = "Failed", machineIsProvisioned(m') PROVE removed'
  <2>1. CASE CheckExists /\ m' = cached
    <3>1. PICK answer \in {"error", "invalidConfiguration", "found", "missing"} :
            ExistsAnswer(answer, cached.spec) /\ AfterExists(answer, cached)
      BY <2>1 DEF CheckExists
    <3>2. /\ ~cached.deleted /\ cached.phase # "Failed" /\ cached.phase # "nil"
          /\ Deref(cached.phase) # "Failed"
      BY Zenon, <1>5, <2>1
         DEF CheckExists, Reconcilable, machineIsFailed, PhaseKeptInv, Deref
    <3>3. answer = "missing"
      BY Zenon, <1>5, <3>1, <3>2 DEF AfterExists
    <3>4. cached.spec.place \in ValidPlaces /\ inst[cached.spec.place] = "none"
      BY <3>1, <3>3 DEF ExistsAnswer, exists
    <3>5. NoInstance
      BY ZenonT(60), <3>4 DEF OneValidPlace, KnownSpecsInv, KnownInv, NoInstance
    <3>6. machineIsProvisioned(cached) => machineIsProvisioned(api)
      BY DEF PhaseInv, KnownTo, machineIsProvisioned
    <3> QED
      BY <1>c, <1>5, <2>1, <3>2, <3>5, <3>6 DEF RemovedInv, Begun
  <2>2. CASE pc = "create" /\ m' = m
    BY <1>5, <2>2 DEF PhaseKeptInv
  <2>3. CASE pc \in Closing /\ to = "Failed" /\ m' = m
    BY <1>5, <2>3 DEF RemovedInv
  <2>4. CASE pc \in ProvisioningSteps /\ m' = m /\ to' = Deref(m.phase)
    BY Zenon, <1>5, <2>4 DEF PhaseKeptInv, Deref
  <2>5. CASE pc = "status" /\ to' = to /\ m' = m
    BY <1>5, <1>c, <2>5 DEF RemovedInv
  <2> QED
    BY <1>5, <2>1, <2>2, <2>3, <2>4, <2>5, StatusSteps DEF Closing
<1> QED
  BY <1>1, <1>2, <1>3, <1>4, <1>5 DEF RemovedInv, NoInstance, Begun

\* Though its owner changes the zone or the project to ones GCP does not know,
\* though calls fail and though reconciles start from a stale cache, a machine
\* that has a provider ID or addresses is given up as Failed only if somebody
\* else has deleted its instance.
THEOREM GivenUpOnlyIfRemoved ==
    ASSUME OneValidPlace
    PROVE  Spec => []FailedOnlyIfRemoved
<1>1. Init => PhaseKeptInv /\ RemovedInv
  <2> SUFFICES ASSUME Init PROVE PhaseKeptInv /\ RemovedInv
    OBVIOUS
  <2>1. PICK spec \in StartSpecs, hook \in StartHooks : api = NewMachine(spec, hook)
    BY DEF Init
  <2>2. /\ api.phase = "nil" /\ ~machineIsProvisioned(api) /\ cached = api
        /\ NoInstance /\ pc = "idle" /\ "idle" \notin ProvisioningSteps
    BY <2>1 DEF Init, NewMachine, machineIsProvisioned, NoInstance, ProvisioningSteps
  <2> QED
    BY <2>2 DEF PhaseKeptInv, RemovedInv, NoInstance, Closing
<1>2. TypeInv /\ CopiesInv /\ PhaseInv /\ KnownSpecsInv /\ KnownInv
        /\ PhaseKeptInv /\ RemovedInv /\ [Next]_vars => RemovedInv'
  BY RemovedStep
<1>3. RemovedInv => FailedOnlyIfRemoved
  BY DEF RemovedInv, FailedOnlyIfRemoved
<1> QED
  BY <1>1, <1>2, <1>3, PhaseKeptStep, PhaseInvariant, KnownInvariant, InvInvariant, PTL
     DEF Spec
=============================================================================
