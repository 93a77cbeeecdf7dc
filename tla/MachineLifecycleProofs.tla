----------------------- MODULE MachineLifecycleProofs -----------------------
(***************************************************************************)
(* What MachineLifecycle guarantees for every number of target pools, every *)
(* set of places and any number of failures.                               *)
(***************************************************************************)
EXTENDS MachineLifecycle, TLAPS

USE PlacesAssumption, LifecycleAssumption

----------------------------------------------------------------------------
(***************************************************************************)
(* Types                                                                   *)
(***************************************************************************)

\* A machine as its owner creates it is a machine.
LEMMA NewMachineType ==
    ASSUME NEW spec \in Specs, NEW hook \in BOOLEAN
    PROVE  NewMachine(spec, hook) \in Machine
  BY DEF NewMachine, Machine, Phases, ConditionStatus

\* So is what the controller's variables hold between two reconciles.
LEMMA BlankType == Blank \in Machine
<1>1. (CHOOSE spec \in StartSpecs : TRUE) \in Specs
  OBVIOUS
<1> QED
  BY <1>1, NewMachineType DEF Blank

\* updateStatus, reconcileMachineWithCloudState and PatchMachine map
\* machines to machines.
LEMMA UpdateStatusType ==
    ASSUME NEW stored \in Machine, NEW mach \in Machine, NEW phase \in Phases,
           NEW others \in BOOLEAN
    PROVE  updateStatus(stored, mach, phase, others) \in Machine
<1> DEFINE terminable == setLifecycleHookConditions(mach)
           sends == others \/ terminable # mach.terminable
           newPhase == IF phase = "Failed" THEN phase
                       ELSE Patched(stored.phase, mach.phase, phase)
           newState == IF phase = "Failed" /\ stored.instanceState # ""
                       THEN "Unknown" ELSE stored.instanceState
           newTerminable == IF sends THEN terminable ELSE stored.terminable
           newDrained == IF sends THEN mach.drained ELSE stored.drained
<1>1. updateStatus(stored, mach, phase, others)
        = [stored EXCEPT !.phase = newPhase, !.instanceState = newState,
                         !.terminable = newTerminable, !.drained = newDrained]
  BY DEF updateStatus, Machine
<1>2. newPhase \in Phases
  BY DEF Patched, Machine
<1>3. newState \in CloudStates \cup {"", "Unknown"}
  BY DEF Machine
<1>4. newTerminable \in ConditionStatus
  BY DEF setLifecycleHookConditions, ConditionStatus, Machine
<1>5. newDrained \in BOOLEAN
  BY DEF Machine
<1> HIDE DEF newPhase, newState, newTerminable, newDrained
<1> QED
  BY ZenonT(60), <1>1, <1>2, <1>3, <1>4, <1>5 DEF Machine

\* What reconcileMachineWithCloudState makes of a machine is a machine.
LEMMA ReconciledType ==
    ASSUME NEW mach \in Machine, NEW state \in CloudStates
    PROVE  reconciledWithCloud(mach, state) \in Machine
  BY DEF reconciledWithCloud, Machine, Specs, ConditionStatus

\* What the patches of updateStatus and PatchMachine store is a machine.
LEMMA PatchType ==
    ASSUME NEW stored \in Machine, NEW base \in Machine, NEW modified \in Machine
    PROVE  /\ patchMachine(stored, base, modified) \in Machine
           /\ patchMachineStatus(stored, base, modified) \in Machine
<1> DEFINE newID == Patched(stored.providerID, base.providerID, modified.providerID)
           newAddresses ==
             Patched(stored.addresses, base.addresses, modified.addresses)
           newState == Patched(stored.instanceState, base.instanceState,
                               modified.instanceState)
           newCreated == Patched(stored.created, base.created, modified.created)
<1>1. /\ newID \in Places \cup {NoPlace} /\ newAddresses \in BOOLEAN
      /\ newState \in CloudStates \cup {"", "Unknown"}
      /\ newCreated \in ConditionStatus
  BY DEF Patched, Machine
<1>2. /\ patchMachine(stored, base, modified) = [stored EXCEPT !.providerID = newID]
      /\ patchMachineStatus(stored, base, modified)
           = [stored EXCEPT !.addresses = newAddresses,
                            !.instanceState = newState, !.created = newCreated]
  BY DEF patchMachine, patchMachineStatus, Machine
<1> HIDE DEF newID, newAddresses, newState, newCreated
<1> QED
  BY ZenonT(60), <1>1, <1>2 DEF Machine

\* Visiting target pools leaves every pool a set of places.
LEMMA PoolsType ==
    ASSUME pools \in [1..NPools -> SUBSET Places], NEW place \in Places,
           NEW desired \in BOOLEAN, NEW k
    PROVE  processTargetPools(place, desired, k) \in [1..NPools -> SUBSET Places]
  BY DEF processTargetPools

\* A write to the store keeps the store well typed.
LEMMA WriteType ==
    ASSUME TypeOK, NEW new \in Machine, NEW copies \in SUBSET {"cache", "m", "scope"},
           Write(new, copies)
    PROVE  api' \in Machine /\ fresh' \subseteq {"cache", "m", "scope"}
  BY DEF TypeOK, Write

\* TypeOK by itself is not inductive: the phase updateStatus is called with
\* has to be one, that is, no reconcile reaches it with nothing to report.
ControlOK ==
    /\ pc \in Steps /\ m \in Machine /\ s \in Machine
    /\ to \in Phases \cup {"none"} /\ locked \in BOOLEAN
    /\ pc = "status" => to # "none"

TypeInv == TypeOK /\ ControlOK

\* The ways in which a reconcile ends or goes on keep its variables typed.
LEMMA DoneType == Done => ControlOK'
  BY BlankType DEF Done, ControlOK, Steps

\* Going on to the next call keeps the controller's variables typed.
LEMMA CallType ==
    ASSUME ControlOK, NEW step \in Steps \ {"status"}, Call(step)
    PROVE  ControlOK'
  BY DEF Call, ControlOK

\* Going on to updateStatus with a phase keeps them typed.
LEMMA ReportType ==
    ASSUME ControlOK, NEW phase \in Phases, Report(phase)
    PROVE  ControlOK'
  BY DEF Report, ControlOK, Steps, Phases

\* Closing the scope with a modified copy keeps them typed.
LEMMA CloseType ==
    ASSUME ControlOK, NEW copy \in Machine, NEW phase \in Phases \cup {"none"},
           Close(copy, phase)
    PROVE  ControlOK'
  BY DEF Close, ControlOK, Steps

\* The end of scope.Close keeps them typed.
LEMMA ClosedType ==
    ASSUME ControlOK, NEW phase \in Phases \cup {"none"}, Closed(phase)
    PROVE  ControlOK'
  BY DoneType, ReportType DEF Closed

\* A failed scope.Close keeps them typed.
LEMMA CloseFailedType == ControlOK /\ CloseFailed => ControlOK'
<1>1. ControlOK => Deref(m.phase) \in Phases
  BY DEF ControlOK, Machine, Deref, Phases
<1> QED
  BY <1>1, ClosedType DEF CloseFailed, ControlOK

\* Asking whether the instance exists uses up at most one disturbance.
LEMMA ExistsAnswerType ==
    ASSUME TypeOK, NEW answer, NEW spec, ExistsAnswer(answer, spec)
    PROVE  faults' \in 0..MaxFaults
  BY DEF ExistsAnswer, exists, Disturbance, TypeOK

\* No step, failed call, crash or interference takes the state out of its types.
LEMMA TypeStep == TypeInv /\ [Next]_vars => TypeInv'
<1> SUFFICES ASSUME TypeInv, [Next]_vars PROVE TypeInv'
  OBVIOUS
<1> USE DEF TypeInv, cloudVars, ctlVars, storeVars, poolVars, groupVars, Disturbance
<1>a. /\ api \in Machine /\ cached \in Machine /\ m \in Machine /\ s \in Machine
      /\ m.spec.place \in Places
      /\ Deref(m.phase) \in Phases /\ Deref(cached.phase) \in Phases
      /\ cached.phase \in Phases /\ "none" \notin Phases
  BY DEF TypeOK, Machine, Specs, Deref, Phases
<1>b. \A step \in {"create.get", "register", "update.get", "delete.get", "unregister",
                   "delete", "exists", "deleteNode", "removeFinalizer"} :
        step \in Steps \ {"status"}
  BY DEF Steps
<1>1. CASE AddFinalizer
  <2>1. [api EXCEPT !.finalizer = TRUE] \in Machine
    BY <1>a DEF Machine
  <2> QED
    BY <1>1, <2>1, WriteType DEF AddFinalizer, TypeOK, ControlOK
<1>2. CASE CheckExists
  <2>1. PICK answer \in {"error", "invalidConfiguration", "found", "missing"} :
          ExistsAnswer(answer, cached.spec) /\ AfterExists(answer, cached)
    BY <1>2 DEF CheckExists
  <2>2. ControlOK'
    BY <1>2, <1>a, <2>1 DEF CheckExists, AfterExists, ControlOK, Steps, Phases
  <2>3. fresh' \subseteq {"cache", "m", "scope"}
    BY <1>2 DEF CheckExists, TypeOK
  <2>4. faults' \in 0..MaxFaults
    BY <2>1, ExistsAnswerType
  <2> QED
    BY <1>2, <2>2, <2>3, <2>4 DEF CheckExists, TypeOK, ControlOK
<1>3. CASE PatchStatus
  <2>1. \A others \in BOOLEAN : updateStatus(api, m, to, others) \in Machine
    BY <1>3, <1>a, UpdateStatusType DEF PatchStatus, ControlOK
  <2>2. api' \in Machine /\ fresh' \subseteq {"cache", "m", "scope"}
    <3>1. PICK new \in Machine : Write(new, {}) \/ UNCHANGED storeVars
      BY <1>3, <1>a, <2>1 DEF PatchStatus
    <3> QED
      BY <3>1, WriteType DEF TypeOK
  <2>3. ControlOK'
    BY <1>3, DoneType DEF PatchStatus
  <2> QED
    BY <1>3, <2>2, <2>3 DEF PatchStatus, TypeOK, ControlOK
<1>4. CASE Create
  <2>1. [m EXCEPT !.created = "False"] \in Machine
    BY ZenonT(60), <1>a DEF Machine, ConditionStatus
  <2>2. "Failed" \in Phases
    BY DEF Phases
  <2>3. ControlOK'
    BY <1>4, <1>b, <2>1, <2>2, DoneType, CallType, ReportType, CloseType
       DEF Create, CreateFailed
  <2> QED
    BY <1>4, <2>3, <1>a DEF Create, Inserted, CloudStates, TypeOK, ControlOK
<1>5. CASE UpdatePools
  <2>1. \A k : processTargetPools(m.spec.place, TRUE, k)
                 \in [1..NPools -> SUBSET Places]
    BY <1>a, PoolsType DEF TypeOK
  <2>2. ControlOK'
    BY <1>5, <1>a, <1>b, CallType, ReportType DEF UpdatePools
  <2>3. pools' \in [1..NPools -> SUBSET Places]
    BY <1>5, <2>1 DEF UpdatePools
  <2>4. faults' \in 0..MaxFaults
    BY <1>5 DEF UpdatePools, processTargetPools, TypeOK
  <2> QED
    BY <1>5, <2>2, <2>3, <2>4 DEF UpdatePools, TypeOK, ControlOK
<1>6. CASE Register
  <2>1. ControlOK'
    BY <1>6, <1>a, <1>b, CallType, ReportType
       DEF Register, registerInstance
  <2>2. groups' \subseteq Places /\ backends' \subseteq Places
        /\ members' \subseteq Places
    BY <1>6, <1>a DEF Register, registerInstance, TypeOK
  <2> QED
    BY <1>6, <2>1, <2>2 DEF Register, TypeOK, ControlOK
<1>7. CASE ReadInstance
  <2>1. inst[m.spec.place] \in CloudStates \cup {"none"}
    BY <1>a DEF TypeOK
  <2>2. PhaseAfterUpdate(m) \in Phases
    BY <1>a DEF PhaseAfterUpdate, Phases
  <2>3. ControlOK'
    BY <1>7, <1>a, <2>1, <2>2, ReconciledType, DoneType, CloseType, ReportType
       DEF ReadInstance
  <2> QED
    BY <1>7, <2>3 DEF ReadInstance, TypeOK, ControlOK
<1>8. CASE PersistSpec
  <2>1. patchMachine(api, m, s) \in Machine
    BY <1>a, PatchType
  <2>2. api' \in Machine /\ fresh' \subseteq {"cache", "m", "scope"}
    BY <1>8, <2>1, WriteType DEF PersistSpec, TypeOK
  <2>3. ControlOK'
    BY <1>8, CloseFailedType DEF PersistSpec, ControlOK, Steps
  <2> QED
    BY <1>8, <2>2, <2>3 DEF PersistSpec, TypeOK, ControlOK
<1>9. CASE PersistStatus
  <2>1. patchMachineStatus(api, m, s) \in Machine
    BY <1>a, PatchType
  <2>2. api' \in Machine /\ fresh' \subseteq {"cache", "m", "scope"}
    BY <1>9, <2>1, WriteType DEF PersistStatus, TypeOK
  <2>3. to \in Phases \cup {"none"}
    BY DEF ControlOK
  <2>4. ControlOK'
    BY <1>9, <2>3, ClosedType, CloseFailedType DEF PersistStatus
  <2> QED
    BY <1>9, <2>2, <2>4 DEF PersistStatus, TypeOK, ControlOK
<1>10. CASE MarkDeleting
  <2>1. updateStatus(api, cached, "Deleting", FALSE) \in Machine
    BY <1>a, UpdateStatusType, "Deleting" \in Phases DEF Phases
  <2>2. api' \in Machine /\ fresh' \subseteq {"cache", "m", "scope"}
    BY <1>10, <2>1, WriteType DEF MarkDeleting, TypeOK
  <2>3. ControlOK'
    BY <1>10, <2>2, DoneType DEF MarkDeleting, ControlOK, Steps
  <2>4. UNCHANGED <<cached, cloudVars, drain>> /\ (UNCHANGED faults \/ Disturbance)
    BY Zenon, <1>10 DEF MarkDeleting
  <2> QED
    BY <2>2, <2>3, <2>4 DEF TypeOK, ControlOK
<1>11. CASE DeletePools
  <2>1. \A k : processTargetPools(m.spec.place, FALSE, k)
                 \in [1..NPools -> SUBSET Places]
    BY <1>a, PoolsType DEF TypeOK
  <2>2. ControlOK'
    BY <1>11, <1>b, DoneType, CallType DEF DeletePools
  <2>3. pools' \in [1..NPools -> SUBSET Places]
    BY <1>11, <2>1 DEF DeletePools, processTargetPools, TypeOK
  <2>4. faults' \in 0..MaxFaults
    BY <1>11 DEF DeletePools, processTargetPools, TypeOK
  <2> QED
    BY <1>11, <2>2, <2>3, <2>4 DEF DeletePools, TypeOK, ControlOK
<1>12. CASE DeleteLookup
  <2>1. PICK answer \in {"error", "invalidConfiguration", "found", "missing"} :
          ExistsAnswer(answer, m.spec) /\ AfterLookup(answer)
    BY <1>12 DEF DeleteLookup
  <2>2. ControlOK'
    BY <1>b, <2>1, DoneType, CallType DEF AfterLookup
  <2>3. faults' \in 0..MaxFaults
    BY <2>1, ExistsAnswerType
  <2> QED
    BY <1>12, <2>2, <2>3 DEF DeleteLookup, TypeOK, ControlOK
<1>13. CASE Unregister
  <2>1. ControlOK'
    BY <1>13, <1>b, DoneType, CallType DEF Unregister, unregisterInstance
  <2> QED
    BY <1>13, <2>1 DEF Unregister, unregisterInstance, TypeOK, ControlOK
<1>14. CASE DeleteInstance
  <2>1. ControlOK'
    BY <1>14, DoneType DEF DeleteInstance
  <2> QED
    BY <1>14, <1>a, <2>1 DEF DeleteInstance, CloudStates, TypeOK, ControlOK
<1>15. CASE FinalExists
  <2>1. PICK answer \in {"error", "invalidConfiguration", "found", "missing"} :
          /\ ExistsAnswer(answer, m.spec)
          /\ Done \/ Call(IF m.nodeRef THEN "deleteNode" ELSE "removeFinalizer")
    BY <1>15 DEF FinalExists
  <2>2. ControlOK'
    BY <1>b, <2>1, DoneType, CallType
  <2>3. faults' \in 0..MaxFaults
    BY <2>1, ExistsAnswerType
  <2> QED
    BY <1>15, <2>2, <2>3 DEF FinalExists, TypeOK, ControlOK
<1>16. CASE DeleteNode
  <2>1. ControlOK'
    BY <1>16, <1>b, DoneType, CallType DEF DeleteNode
  <2>2. node' \in BOOLEAN
    BY <1>16, Zenon DEF DeleteNode, TypeOK
  <2>3. faults' \in 0..MaxFaults
    BY <1>16 DEF DeleteNode, TypeOK
  <2> QED
    BY <1>16, <2>1, <2>2, <2>3 DEF DeleteNode, TypeOK, ControlOK
<1>17. CASE RemoveFinalizer
  <2>1. [api EXCEPT !.finalizer = FALSE, !.present = FALSE] \in Machine
    BY <1>a DEF Machine
  <2>2. api' \in Machine /\ fresh' \subseteq {"cache", "m", "scope"}
    BY <1>17, <2>1, WriteType DEF RemoveFinalizer, TypeOK
  <2>3. ControlOK'
    BY <1>17, DoneType DEF RemoveFinalizer
  <2> QED
    BY <1>17, <2>2, <2>3 DEF RemoveFinalizer, TypeOK, ControlOK
<1>18. CASE DrainStart
  <2>1. drain' \in ConditionStatus \cup {"none"}
    BY <1>18, <1>a DEF DrainStart, Machine
  <2> QED
    BY <1>18, <2>1 DEF DrainStart, TypeOK, ControlOK
<1>19. CASE DrainFinish
  <2>1. drain # "none" => [api EXCEPT !.drained = TRUE, !.terminable = drain] \in Machine
    BY <1>a DEF Machine, TypeOK
  <2>2. api' \in Machine /\ fresh' \subseteq {"cache", "m", "scope"}
    BY <1>19, <2>1, WriteType DEF DrainFinish, TypeOK
  <2> QED
    BY <1>19, <2>2 DEF DrainFinish, TypeOK, ControlOK
<1>20. CASE OwnerDeletes \/ OwnerEdits \/ HookRemoved \/ NodeLinked
  <2>1. /\ [api EXCEPT !.deleted = TRUE, !.present = api.finalizer] \in Machine
        /\ \A spec \in EditSpecs : [api EXCEPT !.spec = spec] \in Machine
        /\ [api EXCEPT !.hook = FALSE] \in Machine
        /\ [api EXCEPT !.nodeRef = TRUE] \in Machine
    BY ZenonT(60), <1>a DEF Machine
  <2>2. api' \in Machine /\ fresh' \subseteq {"cache", "m", "scope"}
    BY <1>20, <2>1, WriteType, {} \in SUBSET {"cache", "m", "scope"}
       DEF OwnerDeletes, OwnerEdits, HookRemoved, NodeLinked
  <2> QED
    BY <1>20, <2>2
       DEF OwnerDeletes, OwnerEdits, HookRemoved, NodeLinked, TypeOK, ControlOK
<1>21. CASE WatchDelivers \/ NodeJoins
  BY <1>21 DEF WatchDelivers, NodeJoins, TypeOK, ControlOK
<1>22. CASE InstanceStarts \/ InstanceVanishes \/ Interference
  <2>1. inst' \in [Places -> CloudStates \cup {"none"}] /\ members' \subseteq Places
    BY <1>22
       DEF InstanceStarts, InstanceVanishes, Interference, CloudStates, TypeOK
  <2>2. faults' \in 0..MaxFaults
    BY <1>22 DEF InstanceStarts, InstanceVanishes, Interference, TypeOK
  <2> QED
    BY <1>22, <2>1, <2>2
       DEF InstanceStarts, InstanceVanishes, Interference, TypeOK, ControlOK
<1>23. CASE Crash
  <2>1. ControlOK'
    BY <1>23, DoneType DEF Crash
  <2> QED
    BY <1>23, <2>1 DEF Crash, TypeOK, ControlOK
<1>24. CASE UNCHANGED vars
  BY <1>24 DEF vars, TypeOK, ControlOK
<1> QED
  BY <1>1, <1>2, <1>3, <1>4, <1>5, <1>6, <1>7, <1>8, <1>9, <1>10, <1>11, <1>12,
     <1>13, <1>14, <1>15, <1>16, <1>17, <1>18, <1>19, <1>20, <1>21, <1>22, <1>23,
     <1>24
     DEF Next, Reconcile, Environment

\* The type invariant holds when the machine has just been created.
LEMMA TypeInit == Init => TypeInv
<1> SUFFICES ASSUME Init PROVE TypeInv
  OBVIOUS
<1>1. api \in Machine /\ cached \in Machine
  BY NewMachineType DEF Init
<1>2. ControlOK
  BY BlankType DEF Init, ControlOK, Steps
<1>3. StartGroups \subseteq Places
  BY DEF ValidPlaces
<1>4. node \in BOOLEAN
  BY Zenon DEF Init
<1>5. faults \in 0..MaxFaults /\ drain \in ConditionStatus \cup {"none"}
  BY DEF Init
<1> QED
  BY <1>1, <1>2, <1>3, <1>4, <1>5 DEF Init, TypeInv, TypeOK, ControlOK

\* The stored object, the controller's copies, the cloud's side and the
\* bookkeeping of the model stay within their types in every behaviour; in
\* particular updateStatus never stores anything but a phase.
THEOREM TypeCorrect == Spec => []TypeOK
<1>1. TypeInv => TypeOK
  BY DEF TypeInv
<1> QED
  BY <1>1, TypeInit, TypeStep, PTL DEF Spec

----------------------------------------------------------------------------
(***************************************************************************)
(* The inductive invariants                                                *)
(*                                                                         *)
(* The informer cache may lag, but it only moves forward, and while a      *)
(* reconcile is in flight no other one is.  So a reconcile that started    *)
(* from a copy without a deletion timestamp keeps the finalizer in place   *)
(* to its end, and once a reconcile has stored Deleting every later one    *)
(* starts from a copy with the timestamp.                                  *)
(***************************************************************************)

\* The steps of a reconcile that deletes, and of one that provisions.
DeletionSteps ==
    {"delete.pools", "delete.get", "unregister", "delete", "exists",
     "deleteNode", "removeFinalizer"}
ProvisioningSteps ==
    {"status", "update.pools", "register", "update.get", "create", "create.get",
     "close.spec", "close.status"}

\* How the copies relate to the stored object, and the phase to the
\* deletion timestamp.
CopiesInv ==
    /\ api.finalizer => api.present
    /\ cached.deleted => api.deleted
    /\ cached.finalizer /\ ~cached.deleted => api.finalizer
    /\ "cache" \in fresh => cached = api
    /\ "m" \in fresh /\ pc # "idle" => m = api
    /\ pc \in DeletionSteps => cached.deleted
    /\ pc \in ProvisioningSteps => /\ api.finalizer /\ api.phase # "Deleting"
                                   /\ m.phase # "Deleting" /\ to # "Deleting"
    /\ api.phase = "Deleting" \/ cached.phase = "Deleting" => cached.deleted

\* The gates a reconcile has passed before it deletes stay open until it ends.
ReadyInv ==
    /\ pc \in DeletionSteps => api.drained /\ ~api.hook
    /\ pc \in {"delete.get", "unregister", "delete"} =>
          \A i \in 1..NPools : m.spec.place \notin pools[i]

\* No copy knows of a provider ID that is not stored, except the scope's
\* before it is persisted; and only with a provider ID does it get addresses.
ProviderIDInv ==
    /\ api.addresses => api.providerID # NoPlace
    /\ cached.providerID # NoPlace => api.providerID # NoPlace
    /\ pc \in ProvisioningSteps =>
          (m.providerID # NoPlace => api.providerID # NoPlace)
    /\ pc \in {"close.spec", "close.status"} =>
          /\ s.addresses /\ ~m.addresses => s.providerID # NoPlace
          /\ s.providerID = NoPlace => m.providerID = NoPlace
    /\ pc = "close.status" /\ s.providerID # NoPlace => api.providerID # NoPlace

NoInstance == \A p \in Places : inst[p] = "none"
NoPoolLink == \A i \in 1..NPools : pools[i] = {}

\* When nobody edits the provider spec, every copy has the stored one.
SpecInv == cached.spec = api.spec /\ (pc # "idle" => m.spec = api.spec)

\* Then there is at most one instance, where the spec says; it is gone before
\* the finalizer goes, and no other one comes afterwards.
InstanceInv ==
    /\ \A p \in Places : inst[p] # "none" => p = api.spec.place /\ p \in ValidPlaces
    /\ ~api.finalizer => NoInstance
    /\ pc \in {"deleteNode", "removeFinalizer"} => NoInstance

\* The target pools list no other instance, and it is taken out of all of
\* them before the finalizer of a machine that has addresses goes.
PoolsInv ==
    /\ \A i \in 1..NPools : pools[i] \subseteq {api.spec.place}
    /\ ~api.finalizer /\ api.addresses => NoPoolLink
    /\ pc \in {"exists", "deleteNode", "removeFinalizer"} /\ m.addresses => NoPoolLink

\* A linked Node is deleted before the finalizer goes: if it is linked after
\* the controller looked, the Update that removes the finalizer is refused.
NodeInv ==
    /\ ~api.finalizer /\ node => ~api.present /\ ~api.nodeRef
    /\ pc = "removeFinalizer" /\ m.nodeRef => ~node

----------------------------------------------------------------------------
(***************************************************************************)
(* What the writes leave alone                                             *)
(***************************************************************************)

\* A copy that is up to date after a write was so before, and nothing was
\* written, unless the response was decoded into it.
LEMMA WriteFresh ==
    ASSUME NEW new, NEW copies, Write(new, copies), NEW c \in fresh', c \notin copies
    PROVE  c \in fresh /\ api' = api
  BY DEF Write

\* updateStatus writes the phase, the instance state and the conditions.
LEMMA UpdateStatusFields ==
    ASSUME NEW stored \in Machine, NEW mach \in Machine, NEW phase \in Phases,
           NEW others \in BOOLEAN
    PROVE  LET new == updateStatus(stored, mach, phase, others)
           IN /\ new.present = stored.present /\ new.deleted = stored.deleted
              /\ new.finalizer = stored.finalizer /\ new.hook = stored.hook
              /\ new.spec = stored.spec /\ new.nodeRef = stored.nodeRef
              /\ new.providerID = stored.providerID
              /\ new.addresses = stored.addresses
              /\ new.phase \in {stored.phase, phase}
  BY DEF updateStatus, Patched, Machine

\* The call of updateStatus that ends a reconcile writes these, and no copy
\* becomes up to date by it.
LEMMA StatusWrites ==
    ASSUME TypeInv, PatchStatus
    PROVE  /\ pc = "status" /\ pc' = "idle" /\ to \in Phases /\ cached' = cached
           /\ \A c \in fresh' : c \in fresh /\ api' = api
           /\ api'.present = api.present /\ api'.deleted = api.deleted
           /\ api'.finalizer = api.finalizer /\ api'.hook = api.hook
           /\ api'.spec = api.spec /\ api'.nodeRef = api.nodeRef
           /\ api'.providerID = api.providerID /\ api'.addresses = api.addresses
           /\ api'.phase \in {api.phase, to}
<1>1. /\ pc = "status" /\ pc' = "idle" /\ to \in Phases /\ cached' = cached
      /\ api \in Machine /\ m \in Machine
  BY DEF PatchStatus, Done, TypeInv, TypeOK, ControlOK
<1>2. CASE \E others \in BOOLEAN : Write(updateStatus(api, m, to, others), {})
  <2>1. PICK others \in BOOLEAN : Write(updateStatus(api, m, to, others), {})
    BY <1>2
  <2>2. api' = updateStatus(api, m, to, others)
    BY <2>1 DEF Write
  <2>3. \A c \in fresh' : c \in fresh /\ api' = api
    BY <2>1, WriteFresh
  <2> QED
    BY <1>1, <2>2, <2>3, UpdateStatusFields
<1>3. CASE Write(api, {})
  <2>1. api' = api /\ \A c \in fresh' : c \in fresh
    BY <1>3 DEF Write
  <2> QED
    BY <1>1, <2>1
<1>4. CASE UNCHANGED storeVars
  BY <1>1, <1>4 DEF storeVars
<1> QED
  BY <1>2, <1>3, <1>4 DEF PatchStatus, storeVars

\* So does the one that marks a machine as Deleting.
LEMMA MarkingFields ==
    ASSUME TypeInv
    PROVE  LET new == updateStatus(api, cached, "Deleting", FALSE)
           IN /\ new \in Machine
              /\ new.present = api.present /\ new.deleted = api.deleted
              /\ new.finalizer = api.finalizer /\ new.hook = api.hook
              /\ new.spec = api.spec /\ new.nodeRef = api.nodeRef
              /\ new.providerID = api.providerID /\ new.addresses = api.addresses
              /\ new.phase \in {api.phase, "Deleting"}
<1>1. api \in Machine /\ cached \in Machine /\ "Deleting" \in Phases
  BY DEF TypeInv, TypeOK, Phases
<1>2. ASSUME NEW others \in BOOLEAN, others = FALSE
      PROVE  LET new == updateStatus(api, cached, "Deleting", others)
             IN /\ new \in Machine
                /\ new.present = api.present /\ new.deleted = api.deleted
                /\ new.finalizer = api.finalizer /\ new.hook = api.hook
                /\ new.spec = api.spec /\ new.nodeRef = api.nodeRef
                /\ new.providerID = api.providerID /\ new.addresses = api.addresses
                /\ new.phase \in {api.phase, "Deleting"}
  BY <1>1, UpdateStatusType, UpdateStatusFields
<1> QED
  BY Zenon, <1>2

\* PatchMachine writes the provider ID first, addresses and state second.
LEMMA PatchFields ==
    ASSUME NEW stored \in Machine, NEW base \in Machine, NEW modified \in Machine,
           NEW new \in {patchMachine(stored, base, modified),
                        patchMachineStatus(stored, base, modified)}
    PROVE  /\ new.present = stored.present /\ new.deleted = stored.deleted
           /\ new.finalizer = stored.finalizer /\ new.hook = stored.hook
           /\ new.spec = stored.spec /\ new.nodeRef = stored.nodeRef
           /\ new.phase = stored.phase /\ new.drained = stored.drained
  BY DEF patchMachine, patchMachineStatus, Machine

----------------------------------------------------------------------------
(***************************************************************************)
(* How a reconcile moves on                                                *)
(***************************************************************************)

\* It ends, or it goes on within the given steps on the same copy.
MovesWithin(steps) == pc' = "idle" \/ (pc' \in steps /\ m' = m)

\* The calls of Create and Update to GCP stay on the provisioning side and
\* leave the stored object and the cache alone.
LEMMA ProvisioningMoves ==
    ASSUME Create \/ UpdatePools \/ Register \/ ReadInstance
    PROVE  /\ pc \in ProvisioningSteps /\ MovesWithin(ProvisioningSteps)
           /\ UNCHANGED <<api, fresh, cached>>
           /\ m.phase # "Deleting" /\ to # "Deleting" => to' # "Deleting"
<1> USE DEF ProvisioningSteps, MovesWithin, storeVars, Done, Call, Report, Close, Deref
<1>1. CASE Create
  BY <1>1 DEF Create, CreateFailed
<1>2. CASE UpdatePools
  BY <1>2 DEF UpdatePools
<1>3. CASE Register
  BY <1>3 DEF Register, registerInstance
<1>4. CASE ReadInstance
  BY <1>4 DEF ReadInstance, PhaseAfterUpdate
<1> QED
  BY <1>1, <1>2, <1>3, <1>4

\* So do the ends of scope.Close.
LEMMA CloseMoves ==
    ASSUME CloseFailed \/ Closed(to)
    PROVE  /\ MovesWithin(ProvisioningSteps)
           /\ m.phase # "Deleting" /\ to # "Deleting" => to' # "Deleting"
  BY DEF CloseFailed, Closed, MovesWithin, ProvisioningSteps, Done, Report, Deref

\* The calls of Delete to GCP stay on the deleting side and leave the stored
\* object and the cache alone.
LEMMA DeletionMoves ==
    ASSUME DeletePools \/ DeleteLookup \/ Unregister \/ DeleteInstance
             \/ FinalExists \/ DeleteNode
    PROVE  /\ pc \in DeletionSteps /\ MovesWithin(DeletionSteps)
           /\ UNCHANGED <<api, fresh, cached>>
<1> USE DEF DeletionSteps, MovesWithin, storeVars, Done, Call
<1>1. CASE DeletePools
  BY <1>1 DEF DeletePools
<1>2. CASE DeleteLookup
  BY <1>2 DEF DeleteLookup, AfterLookup
<1>3. CASE Unregister
  BY <1>3 DEF Unregister, unregisterInstance
<1>4. CASE DeleteInstance
  BY <1>4 DEF DeleteInstance
<1>5. CASE FinalExists
  BY <1>5 DEF FinalExists
<1>6. CASE DeleteNode
  BY <1>6 DEF DeleteNode
<1> QED
  BY <1>1, <1>2, <1>3, <1>4, <1>5, <1>6

\* What the drain controller, the owner and the nodelink controller write
\* leaves alone everything the reconcile in flight relies on.
LEMMA OthersWrite ==
    ASSUME TypeOK,
           DrainFinish \/ OwnerDeletes \/ OwnerEdits \/ HookRemoved \/ NodeLinked
    PROVE  /\ UNCHANGED <<cached, pc, m, s, to, locked, inst, pools, node>>
           /\ api'.finalizer = api.finalizer
           /\ api.finalizer => api'.present = api.present
           /\ api'.present => api.present
           /\ api.deleted => api'.deleted
           /\ api'.phase = api.phase
           /\ api'.providerID = api.providerID /\ api'.addresses = api.addresses
           /\ api.drained => api'.drained
           /\ ~api.hook => ~api'.hook
           /\ api'.spec \in {api.spec} \cup EditSpecs
           /\ \A c \in fresh' : c \in fresh /\ api' = api
<1> USE DEF ctlVars, cloudVars, storeVars
<1>1. CASE DrainFinish
  <2>1. CASE UNCHANGED storeVars
    BY <1>1, <2>1 DEF DrainFinish
  <2>2. CASE /\ api.present
             /\ Write([api EXCEPT !.drained = TRUE, !.terminable = drain], {})
    BY <1>1, <2>2 DEF DrainFinish, Write, TypeOK, Machine
  <2> QED
    BY <1>1, <2>1, <2>2 DEF DrainFinish
<1>2. CASE OwnerDeletes
  BY <1>2 DEF OwnerDeletes, Write, TypeOK, Machine
<1>3. CASE OwnerEdits
  BY ZenonT(60), <1>3 DEF OwnerEdits, Write, TypeOK, Machine
<1>4. CASE HookRemoved
  BY <1>4 DEF HookRemoved, Write, TypeOK, Machine
<1>5. CASE NodeLinked
  BY <1>5 DEF NodeLinked, Write, TypeOK, Machine
<1> QED
  BY <1>1, <1>2, <1>3, <1>4, <1>5

----------------------------------------------------------------------------
(***************************************************************************)
(* Copies, phases and the deletion timestamp                               *)
(***************************************************************************)

\* Every step keeps the copies earlier versions of the stored object.
LEMMA CopiesStep == TypeInv /\ CopiesInv /\ [Next]_vars => CopiesInv'
<1> SUFFICES ASSUME TypeInv, CopiesInv, [Next]_vars PROVE CopiesInv'
  OBVIOUS
<1> USE DEF storeVars, ctlVars
<1>a. /\ api \in Machine /\ cached \in Machine /\ m \in Machine /\ s \in Machine
      /\ "idle" \notin ProvisioningSteps \cup DeletionSteps
      /\ ProvisioningSteps \cap DeletionSteps = {}
  BY DEF TypeInv, TypeOK, ProvisioningSteps, DeletionSteps
<1>1. CASE AddFinalizer
  <2>1. CASE UNCHANGED storeVars
    BY <1>1, <2>1 DEF AddFinalizer, CopiesInv
  <2>2. CASE api.present /\ Write([api EXCEPT !.finalizer = TRUE], {})
    <3>1. api' = [api EXCEPT !.finalizer = TRUE]
      BY <2>2 DEF Write
    <3>2. "cache" \in fresh' => "cache" \in fresh /\ api' = api
      BY <2>2, WriteFresh
    <3> QED
      BY <1>1, <1>a, <2>2, <3>1, <3>2
         DEF AddFinalizer, Readable, CopiesInv, Machine
  <2> QED
    BY <1>1, <2>1, <2>2 DEF AddFinalizer
<1>2. CASE CheckExists
  <2>1. /\ pc' \in ProvisioningSteps
        /\ cached.phase # "Deleting" => to' # "Deleting"
    BY <1>2 DEF CheckExists, AfterExists, Deref, ProvisioningSteps
  <2>2. "cache" \in fresh' \/ "m" \in fresh' => "cache" \in fresh
    BY <1>2 DEF CheckExists
  <2> QED
    BY <1>2, <1>a, <2>1, <2>2 DEF CheckExists, Reconcilable, CopiesInv
<1>3. CASE PatchStatus
  <2>1. pc' = "idle" /\ pc \in ProvisioningSteps /\ cached' = cached
    BY <1>3 DEF PatchStatus, Done, ProvisioningSteps
  <2> QED
    BY <1>3, <1>a, <2>1, StatusWrites DEF CopiesInv
<1>4. CASE Create \/ UpdatePools \/ Register \/ ReadInstance
  BY <1>4, <1>a, ProvisioningMoves DEF MovesWithin, CopiesInv
<1>5. CASE PersistSpec
  <2>1. pc \in ProvisioningSteps /\ "close.status" \in ProvisioningSteps
    BY <1>5 DEF PersistSpec, ProvisioningSteps
  <2>2. CASE UNCHANGED storeVars /\ CloseFailed
    BY <1>5, <1>a, <2>1, <2>2, CloseMoves DEF PersistSpec, MovesWithin, CopiesInv
  <2>3. CASE /\ Write(patchMachine(api, m, s), {"scope"})
             /\ pc' = "close.status" /\ UNCHANGED <<m, s, to>>
    <3>1. /\ api' = patchMachine(api, m, s)
          /\ "cache" \in fresh' => "cache" \in fresh /\ api' = api
          /\ "m" \in fresh' => "m" \in fresh /\ api' = api
      BY <2>3, WriteFresh, "cache" # "scope", "m" # "scope" DEF Write
    <3> QED
      BY <1>5, <1>a, <2>1, <2>3, <3>1, PatchFields DEF PersistSpec, CopiesInv
  <2> QED
    BY <1>5, <2>2, <2>3 DEF PersistSpec
<1>6. CASE PersistStatus
  <2>1. pc \in ProvisioningSteps
    BY <1>6 DEF PersistStatus, ProvisioningSteps
  <2>2. CASE UNCHANGED storeVars /\ CloseFailed
    BY <1>6, <1>a, <2>1, <2>2, CloseMoves DEF PersistStatus, MovesWithin, CopiesInv
  <2>3. CASE Write(patchMachineStatus(api, m, s), {}) /\ Closed(to)
    <3>1. /\ api' = patchMachineStatus(api, m, s)
          /\ "cache" \in fresh' => "cache" \in fresh /\ api' = api
          /\ "m" \in fresh' => "m" \in fresh /\ api' = api
      BY <2>3, WriteFresh DEF Write
    <3> QED
      BY <1>6, <1>a, <2>1, <2>3, <3>1, PatchFields, CloseMoves
         DEF PersistStatus, MovesWithin, CopiesInv
  <2> QED
    BY <1>6, <2>2, <2>3 DEF PersistStatus
<1>7. CASE MarkDeleting
  <2>1. pc = "idle" /\ cached.deleted /\ cached' = cached
    BY <1>7 DEF MarkDeleting, Readable
  <2>2. CASE UNCHANGED <<api, fresh, pc, m, s, to, locked>>
    BY <1>a, <2>1, <2>2 DEF CopiesInv
  <2>3. CASE /\ Write(updateStatus(api, cached, "Deleting", FALSE), {"m"})
             /\ \/ pc' = "delete.pools" /\ m' = api'
                \/ Done
    <3>1. /\ api' = updateStatus(api, cached, "Deleting", FALSE)
          /\ "cache" \in fresh' => "cache" \in fresh /\ api' = api
      BY <2>3, WriteFresh, "cache" # "m" DEF Write
    <3>2. pc' = "idle" \/ (pc' \in DeletionSteps /\ m' = api')
      BY <2>3 DEF Done, DeletionSteps
    <3>3. /\ api'.present = api.present /\ api'.finalizer = api.finalizer
          /\ api'.deleted = api.deleted
      BY <3>1, MarkingFields
    <3> QED
      BY <1>a, <2>1, <3>1, <3>2, <3>3 DEF CopiesInv
  <2> QED
    BY <1>7, <2>2, <2>3 DEF MarkDeleting
<1>8. CASE DeletePools \/ DeleteLookup \/ Unregister \/ DeleteInstance
             \/ FinalExists \/ DeleteNode
  BY <1>8, <1>a, DeletionMoves DEF MovesWithin, CopiesInv
<1>9. CASE RemoveFinalizer
  <2>1. pc \in DeletionSteps /\ pc' = "idle" /\ cached' = cached
    BY <1>9 DEF RemoveFinalizer, DeletionSteps, Done
  <2>2. CASE UNCHANGED storeVars
    BY <1>a, <2>1, <2>2 DEF CopiesInv
  <2>3. CASE Write([api EXCEPT !.finalizer = FALSE, !.present = FALSE], {})
    <3>1. /\ api' = [api EXCEPT !.finalizer = FALSE, !.present = FALSE]
          /\ "cache" \in fresh' => "cache" \in fresh /\ api' = api
      BY <2>3, WriteFresh DEF Write
    <3> QED
      BY <1>a, <2>1, <3>1 DEF CopiesInv, Machine
  <2> QED
    BY <1>9, <2>2, <2>3 DEF RemoveFinalizer
<1>10. CASE DrainFinish \/ OwnerDeletes \/ OwnerEdits \/ HookRemoved \/ NodeLinked
  BY <1>10, <1>a, OthersWrite DEF TypeInv, CopiesInv
<1>11. CASE WatchDelivers
  BY <1>11, <1>a DEF WatchDelivers, CopiesInv
<1>12. CASE Crash
  BY <1>12, <1>a DEF Crash, Done, CopiesInv
<1>13. CASE DrainStart \/ NodeJoins \/ InstanceStarts \/ InstanceVanishes \/ Interference
  BY <1>13 DEF DrainStart, NodeJoins, InstanceStarts, InstanceVanishes,
               Interference, CopiesInv
<1>14. CASE UNCHANGED vars
  BY <1>14 DEF vars, CopiesInv
<1> QED
  BY <1>1, <1>2, <1>3, <1>4, <1>5, <1>6, <1>7, <1>8, <1>9, <1>10, <1>11, <1>12,
     <1>13, <1>14
     DEF Next, Reconcile, Environment

\* A reconcile that does not delete never gets to a step of one that does.
LEMMA ProvisioningSide ==
    ASSUME AddFinalizer \/ CheckExists \/ PatchStatus \/ Create \/ UpdatePools
             \/ Register \/ ReadInstance \/ PersistSpec \/ PersistStatus
    PROVE  pc' \notin DeletionSteps
<1>a. "idle" \notin DeletionSteps /\ ProvisioningSteps \cap DeletionSteps = {}
  BY DEF DeletionSteps, ProvisioningSteps
<1>1. CASE AddFinalizer \/ CheckExists \/ PatchStatus
  BY <1>1 DEF AddFinalizer, CheckExists, AfterExists, PatchStatus, Readable,
              ctlVars, Done, DeletionSteps
<1>2. CASE Create \/ UpdatePools \/ Register \/ ReadInstance
  BY <1>a, <1>2, ProvisioningMoves DEF MovesWithin
<1>3. CASE PersistSpec \/ PersistStatus
  <2>1. pc' = "close.status" \/ CloseFailed \/ Closed(to)
    BY <1>3 DEF PersistSpec, PersistStatus
  <2> QED
    BY <1>a, <2>1, CloseMoves DEF MovesWithin, DeletionSteps
<1> QED
  BY <1>1, <1>2, <1>3

----------------------------------------------------------------------------
(***************************************************************************)
(* The gates of a deletion                                                 *)
(***************************************************************************)

\* Every step keeps what the calls of a deletion have established so far.
LEMMA ReadyStep == TypeInv /\ ReadyInv /\ [Next]_vars => ReadyInv'
<1> SUFFICES ASSUME TypeInv, ReadyInv, [Next]_vars PROVE ReadyInv'
  OBVIOUS
<1> USE DEF storeVars, ctlVars, cloudVars, poolVars
<1>a. /\ {"delete.get", "unregister", "delete"} \subseteq DeletionSteps
      /\ "idle" \notin DeletionSteps
  BY DEF DeletionSteps
<1>1. CASE AddFinalizer \/ CheckExists \/ PatchStatus \/ Create \/ UpdatePools
             \/ Register \/ ReadInstance \/ PersistSpec \/ PersistStatus
  BY <1>1, <1>a, ProvisioningSide DEF ReadyInv
<1>2. CASE MarkDeleting
  <2>1. CASE pc' = "idle"
    BY <1>a, <2>1 DEF ReadyInv
  <2>2. CASE pc' = "delete.pools" /\ MayBeTerminated(api')
    BY <2>2 DEF ReadyInv, MayBeTerminated
  <2> QED
    BY <1>2, <2>1, <2>2 DEF MarkDeleting, Readable, Done
<1>3. CASE DeletePools
  <2>1. CASE pc' \in {"idle", "exists"}
    BY <1>3, <1>a, <2>1, DeletionMoves DEF MovesWithin, ReadyInv
  <2>2. CASE /\ pools' = processTargetPools(m.spec.place, FALSE, NPools)
             /\ Call("delete.get")
    <3>1. \A i \in 1..NPools : m.spec.place \notin pools'[i]
      BY <2>2 DEF processTargetPools
    <3> QED
      BY <1>3, <2>2, <3>1, DeletionMoves DEF ReadyInv, Call
  <2> QED
    BY <1>3, <2>1, <2>2 DEF DeletePools, Done, Call
<1>4. CASE DeleteLookup \/ Unregister \/ DeleteInstance \/ FinalExists \/ DeleteNode
  <2>1. /\ pools' = pools
        /\ pc' \in {"delete.get", "unregister", "delete"} =>
              pc \in {"delete.get", "unregister", "delete"}
    BY <1>4 DEF DeleteLookup, AfterLookup, Unregister, unregisterInstance,
                DeleteInstance, FinalExists, DeleteNode, Done, Call
  <2> QED
    BY <1>4, <1>a, <2>1, DeletionMoves DEF MovesWithin, ReadyInv
<1>5. CASE RemoveFinalizer \/ Crash
  BY <1>5, <1>a DEF RemoveFinalizer, Crash, Done, ReadyInv
<1>6. CASE DrainFinish \/ OwnerDeletes \/ OwnerEdits \/ HookRemoved \/ NodeLinked
  BY ZenonT(40), <1>6, OthersWrite DEF TypeInv, ReadyInv
<1>7. CASE DrainStart \/ WatchDelivers \/ NodeJoins \/ InstanceStarts
             \/ InstanceVanishes \/ Interference
  BY <1>7 DEF DrainStart, WatchDelivers, NodeJoins, InstanceStarts,
              InstanceVanishes, Interference, ReadyInv
<1>8. CASE UNCHANGED vars
  BY <1>8 DEF vars, ReadyInv
<1> QED
  BY <1>1, <1>2, <1>3, <1>4, <1>5, <1>6, <1>7, <1>8 DEF Next, Reconcile, Environment

----------------------------------------------------------------------------
(***************************************************************************)
(* Provider IDs and addresses                                              *)
(***************************************************************************)

\* Every step keeps the provider ID stored before the addresses are.
LEMMA ProviderIDStep == TypeInv /\ ProviderIDInv /\ [Next]_vars => ProviderIDInv'
<1> SUFFICES ASSUME TypeInv, ProviderIDInv, [Next]_vars PROVE ProviderIDInv'
  OBVIOUS
<1> USE DEF storeVars, ctlVars
<1> DEFINE Closing == {"close.spec", "close.status"}
           StoreKept == /\ api'.providerID = api.providerID
                        /\ api'.addresses = api.addresses
                        /\ cached' = cached
<1>a. /\ api \in Machine /\ cached \in Machine /\ m \in Machine /\ s \in Machine
      /\ "idle" \notin ProvisioningSteps /\ Closing \subseteq ProvisioningSteps
      /\ ProvisioningSteps \cap DeletionSteps = {}
  BY DEF TypeInv, TypeOK, ProvisioningSteps, DeletionSteps
<1>b. StoreKept /\ pc' \notin ProvisioningSteps => ProviderIDInv'
  BY <1>a DEF ProviderIDInv
<1>1. CASE AddFinalizer
  <2>1. StoreKept
    BY <1>1, <1>a DEF AddFinalizer, Write, Machine
  <2> QED
    BY <1>1, <1>a, <1>b, <2>1 DEF AddFinalizer, Readable
<1>2. CASE CheckExists
  <2>1. pc' \notin Closing
    BY <1>2 DEF CheckExists, AfterExists
  <2> QED
    BY <1>2, <2>1 DEF CheckExists, ProviderIDInv
<1>3. CASE PatchStatus
  <2>1. StoreKept
    BY <1>3, StatusWrites DEF PatchStatus
  <2> QED
    BY <1>3, <1>a, <1>b, <2>1 DEF PatchStatus, Done
<1>4. CASE Create
  <2>1. CASE CreateFailed("Failed") \/ CreateFailed("none")
    <3>1. /\ pc' = "close.spec" /\ m' = m /\ s' = [m EXCEPT !.created = "False"]
          /\ pc \in ProvisioningSteps /\ UNCHANGED <<api, cached>>
      BY <1>4, <2>1 DEF Create, CreateFailed, Close, ProvisioningSteps
    <3>2. s'.addresses = m.addresses /\ s'.providerID = m.providerID
      BY <1>a, <3>1 DEF Machine
    <3> QED
      BY <1>a, <3>1, <3>2 DEF ProviderIDInv
  <2>2. CASE pc' \notin Closing
    BY <1>4, <1>a, <2>2, ProvisioningMoves DEF MovesWithin, ProviderIDInv
  <2> QED
    BY <1>4, <2>1, <2>2 DEF Create, Call, Report, Done
<1>5. CASE UpdatePools \/ Register
  <2>1. pc' \notin Closing
    BY <1>5 DEF UpdatePools, Register, registerInstance, Call, Report
  <2> QED
    BY SMTT(20), Zenon, <1>5, <1>a, <2>1, ProvisioningMoves DEF MovesWithin, ProviderIDInv
<1>6. CASE ReadInstance
  <2> DEFINE state == inst[m.spec.place]
  <2>1. CASE pc' = "close.spec" /\ m' = m /\ s' = reconciledWithCloud(m, state)
    <3>1. s'.providerID = m.spec.place /\ m.spec.place \in Places
      BY <1>a, <2>1 DEF reconciledWithCloud, Machine, Specs
    <3> QED
      BY <1>6, <2>1, <3>1, ProvisioningMoves DEF ProviderIDInv
  <2>2. CASE pc' \notin Closing
    BY <1>6, <1>a, <2>2, ProvisioningMoves DEF MovesWithin, ProviderIDInv
  <2> QED
    BY <1>6, <2>1, <2>2 DEF ReadInstance, Close, Report, Done
<1>7. CASE PersistSpec
  <2>0. pc = "close.spec" /\ cached' = cached
    BY <1>7 DEF PersistSpec
  <2>1. CASE UNCHANGED storeVars /\ CloseFailed
    <3>1. pc' \notin Closing
      BY <2>1 DEF CloseFailed, Closed, Done, Report
    <3> QED
      BY <1>a, <2>0, <2>1, <3>1, CloseMoves DEF MovesWithin, ProviderIDInv
  <2>2. CASE /\ Write(patchMachine(api, m, s), {"scope"})
             /\ pc' = "close.status" /\ UNCHANGED <<m, s>>
    <3>1. /\ api'.providerID = Patched(api.providerID, m.providerID, s.providerID)
          /\ api'.addresses = api.addresses
      BY <1>a, <2>2 DEF Write, patchMachine, Machine
    <3> QED
      BY <1>a, <2>0, <2>2, <3>1 DEF Patched, ProviderIDInv
  <2> QED
    BY <1>7, <2>1, <2>2 DEF PersistSpec
<1>8. CASE PersistStatus
  <2>0. pc = "close.status" /\ cached' = cached
    BY <1>8 DEF PersistStatus
  <2>1. /\ pc' \notin Closing /\ MovesWithin(ProvisioningSteps)
    <3>1. CloseFailed \/ Closed(to)
      BY <1>8 DEF PersistStatus
    <3> QED
      BY <3>1, CloseMoves DEF CloseFailed, Closed, Done, Report
  <2>2. CASE UNCHANGED storeVars
    BY <1>a, <2>0, <2>1, <2>2 DEF MovesWithin, ProviderIDInv
  <2>3. CASE Write(patchMachineStatus(api, m, s), {})
    <3>1. /\ api'.addresses = Patched(api.addresses, m.addresses, s.addresses)
          /\ api'.providerID = api.providerID
      BY <1>a, <2>3 DEF Write, patchMachineStatus, Machine
    <3>2. /\ m.addresses \in BOOLEAN /\ s.addresses \in BOOLEAN
      BY <1>a DEF Machine
    <3>3. api'.addresses => api'.providerID # NoPlace
      BY <1>a, <2>0, <3>1, <3>2 DEF Patched, ProviderIDInv
    <3> QED
      BY <1>a, <2>0, <2>1, <3>1, <3>3 DEF MovesWithin, ProviderIDInv
  <2> QED
    BY <1>8, <2>2, <2>3 DEF PersistStatus
<1>9. CASE MarkDeleting
  <2>1. StoreKept
    <3>1. CASE Write(updateStatus(api, cached, "Deleting", FALSE), {"m"})
      <4>1. api' = updateStatus(api, cached, "Deleting", FALSE)
        BY <3>1 DEF Write
      <4>2. cached' = cached
        BY Zenon, <1>9 DEF MarkDeleting
      <4> QED
        BY <4>1, <4>2, MarkingFields
    <3> QED
      BY <1>9, <3>1 DEF MarkDeleting
  <2>2. pc' \notin ProvisioningSteps
    BY <1>9 DEF MarkDeleting, Readable, Done, ProvisioningSteps
  <2> QED
    BY <1>b, <2>1, <2>2
<1>10. CASE DeletePools \/ DeleteLookup \/ Unregister \/ DeleteInstance
              \/ FinalExists \/ DeleteNode
  BY <1>10, <1>a, <1>b, DeletionMoves DEF MovesWithin
<1>11. CASE RemoveFinalizer
  <2>1. StoreKept
    BY <1>11, <1>a DEF RemoveFinalizer, Write, Machine
  <2> QED
    BY <1>11, <1>a, <1>b, <2>1 DEF RemoveFinalizer, Done
<1>12. CASE DrainFinish \/ OwnerDeletes \/ OwnerEdits \/ HookRemoved \/ NodeLinked
  BY <1>12, OthersWrite DEF TypeInv, ProviderIDInv
<1>13. CASE WatchDelivers
  BY <1>13 DEF WatchDelivers, ProviderIDInv
<1>14. CASE Crash
  BY SMTT(20), Zenon, <1>14, <1>a DEF Crash, Done, ProviderIDInv
<1>15. CASE DrainStart \/ NodeJoins \/ InstanceStarts \/ InstanceVanishes \/ Interference
  BY SMTT(20), Zenon, <1>15 DEF DrainStart, NodeJoins, InstanceStarts, InstanceVanishes,
               Interference, ProviderIDInv
<1>16. CASE UNCHANGED vars
  BY <1>16 DEF vars, ProviderIDInv
<1> QED
  BY <1>1, <1>2, <1>3, <1>4, <1>5, <1>6, <1>7, <1>8, <1>9, <1>10, <1>11, <1>12,
     <1>13, <1>14, <1>15, <1>16
     DEF Next, Reconcile, Environment

----------------------------------------------------------------------------
(***************************************************************************)
(* What holds whatever the owner does                                      *)
(***************************************************************************)

\* The invariants hold when the machine has just been created.
LEMMA InvInit == Init => TypeInv /\ CopiesInv /\ ReadyInv /\ ProviderIDInv
<1> SUFFICES ASSUME Init PROVE CopiesInv /\ ReadyInv /\ ProviderIDInv
  BY TypeInit
<1>0. PICK spec \in StartSpecs, hook \in StartHooks : api = NewMachine(spec, hook)
  BY DEF Init
<1>1. /\ api.phase = "nil" /\ ~api.finalizer /\ ~api.deleted /\ ~api.addresses
      /\ api.providerID = NoPlace /\ cached = api /\ pc = "idle"
  BY <1>0 DEF Init, NewMachine
<1>2. pc \notin DeletionSteps \cup ProvisioningSteps
  BY <1>1 DEF DeletionSteps, ProvisioningSteps
<1>3. CopiesInv
  BY <1>1, <1>2 DEF CopiesInv
<1>4. ReadyInv /\ ProviderIDInv
  BY <1>1, <1>2 DEF ReadyInv, ProviderIDInv
<1> QED
  BY <1>3, <1>4

\* The invariants that need no assumption on edits always hold.
LEMMA InvInvariant == Spec => [](TypeInv /\ CopiesInv /\ ReadyInv /\ ProviderIDInv)
  BY InvInit, TypeStep, CopiesStep, ReadyStep, ProviderIDStep, PTL DEF Spec

\* The actuator deletes the instance only of a machine that is stored as
\* deleted and drained and without pre-terminate hooks at that moment, though
\* it looked at them several calls earlier, and only when no target pool of
\* the provider spec lists it.
THEOREM DeletesOnlyWhenReady == Spec => []DeleteOnlyWhenReady
<1>1. CopiesInv /\ ReadyInv => DeleteOnlyWhenReady
  BY DEF CopiesInv, ReadyInv, DeleteOnlyWhenReady, DeletionSteps
<1> QED
  BY <1>1, InvInvariant, PTL

\* A crash, a conflict or a failed call between the two patches of
\* PatchMachine never leaves addresses without a provider ID.
THEOREM AddressesFollowProviderID == Spec => []AddressesAfterProviderID
<1>1. ProviderIDInv => AddressesAfterProviderID
  BY DEF ProviderIDInv, AddressesAfterProviderID
<1> QED
  BY <1>1, InvInvariant, PTL

\* Only InstancesInsert makes an instance, and only where the spec says.
LEMMA OnlyCreateInserts ==
    ASSUME TypeInv, [Next]_vars, NEW p \in Places, inst[p] = "none", inst'[p] # "none"
    PROVE  /\ Create /\ p = m.spec.place /\ p \in ValidPlaces
           /\ UNCHANGED <<api, fresh, cached, pools, node>>
<1> USE DEF cloudVars
<1>a. inst \in [Places -> CloudStates \cup {"none"}] /\ m.spec.place \in Places
  BY DEF TypeInv, TypeOK, Machine, Specs
<1>1. CASE Create
  BY <1>1, <1>a DEF Create, Inserted, storeVars, poolVars
<1>2. CASE DeleteInstance
  BY <1>2, <1>a DEF DeleteInstance
<1>3. CASE InstanceStarts \/ InstanceVanishes \/ Interference
  BY <1>3, <1>a DEF InstanceStarts, InstanceVanishes, Interference
<1>4. CASE inst' = inst
  BY <1>4
<1>5. CASE AddFinalizer \/ CheckExists \/ PatchStatus \/ UpdatePools \/ Register
             \/ ReadInstance \/ PersistSpec \/ PersistStatus \/ MarkDeleting
             \/ DeletePools \/ DeleteLookup \/ Unregister \/ FinalExists
             \/ DeleteNode \/ RemoveFinalizer
  BY <1>4, <1>5 DEF AddFinalizer, CheckExists, PatchStatus, UpdatePools, Register,
       ReadInstance, PersistSpec, PersistStatus, MarkDeleting, DeletePools,
       DeleteLookup, Unregister, FinalExists, DeleteNode, RemoveFinalizer
<1>6. CASE DrainStart \/ DrainFinish \/ OwnerDeletes \/ OwnerEdits \/ HookRemoved
             \/ WatchDelivers \/ NodeJoins \/ NodeLinked \/ Crash
  BY <1>4, <1>6 DEF DrainStart, DrainFinish, OwnerDeletes, OwnerEdits, HookRemoved,
       WatchDelivers, NodeJoins, NodeLinked, Crash
<1>7. CASE UNCHANGED vars
  BY <1>4, <1>7 DEF vars
<1> QED
  BY <1>1, <1>2, <1>3, <1>5, <1>6, <1>7 DEF Next, Reconcile, Environment

\* Once Deleting is stored it stays, and no instance is created: no reconcile
\* that started before the deletion was seen is in flight.
LEMMA DeletingStays ==
    ASSUME TypeInv, CopiesInv, [Next]_vars, api.phase = "Deleting"
    PROVE  api'.phase = "Deleting" /\ ~InstanceCreated
<1> USE DEF storeVars
<1>a. /\ pc \notin ProvisioningSteps
      /\ api \in Machine /\ cached \in Machine /\ "Deleting" \in Phases
  BY DEF CopiesInv, TypeInv, TypeOK, Phases
<1>1. ~InstanceCreated
  BY <1>a, OnlyCreateInserts DEF InstanceCreated, Create, ProvisioningSteps
<1> SUFFICES api'.phase = "Deleting"
  BY <1>1
<1>2. CASE AddFinalizer
  BY <1>a, <1>2 DEF AddFinalizer, Write, Machine
<1>3. CASE PatchStatus \/ PersistSpec \/ PersistStatus
  BY <1>a, <1>3 DEF PatchStatus, PersistSpec, PersistStatus, ProvisioningSteps
<1>4. CASE Create \/ UpdatePools \/ Register \/ ReadInstance
  BY <1>a, <1>4, ProvisioningMoves
<1>5. CASE MarkDeleting
  <2>1. CASE Write(updateStatus(api, cached, "Deleting", FALSE), {"m"})
    BY <1>a, <2>1, MarkingFields DEF Write
  <2> QED
    BY <1>5, <2>1 DEF MarkDeleting
<1>6. CASE DeletePools \/ DeleteLookup \/ Unregister \/ DeleteInstance
             \/ FinalExists \/ DeleteNode
  BY <1>6, DeletionMoves
<1>7. CASE RemoveFinalizer
  BY <1>a, <1>7 DEF RemoveFinalizer, Write, Machine
<1>8. CASE DrainFinish \/ OwnerDeletes \/ OwnerEdits \/ HookRemoved \/ NodeLinked
  BY <1>8, OthersWrite DEF TypeInv
<1>9. CASE CheckExists \/ DrainStart \/ WatchDelivers \/ NodeJoins
             \/ InstanceStarts \/ InstanceVanishes \/ Interference \/ Crash
  BY <1>9 DEF CheckExists, DrainStart, WatchDelivers, NodeJoins,
       InstanceStarts, InstanceVanishes, Interference, Crash
<1>10. CASE UNCHANGED vars
  BY <1>10 DEF vars
<1> QED
  BY <1>2, <1>3, <1>4, <1>5, <1>6, <1>7, <1>8, <1>9, <1>10
     DEF Next, Reconcile, Environment

\* Once Deleting is stored no reconcile that started before the deletion was
\* seen is in flight, and none will start: the phase stays, and no instance
\* is created any more.
THEOREM DeletingIsFinal == Spec => DeletionIsFinal
<1>1. TypeInv /\ CopiesInv /\ [Next]_vars =>
        [api.phase = "Deleting" => api'.phase = "Deleting" /\ ~InstanceCreated]_vars
  BY DeletingStays
<1> QED
  BY <1>1, InvInvariant, PTL DEF Spec, DeletionIsFinal

----------------------------------------------------------------------------
(***************************************************************************)
(* What is left behind when nobody edits the provider spec                 *)
(***************************************************************************)

\* Who may change what of the stored object.
LEMMA StoreSteps ==
    ASSUME TypeInv, [Next]_vars
    PROVE  /\ api'.spec \in {api.spec} \cup EditSpecs
           /\ api'.present => api.present
           /\ \/ api'.finalizer = api.finalizer
              \/ AddFinalizer /\ api.present /\ ~api.finalizer /\ api'.finalizer
              \/ RemoveFinalizer /\ "m" \in fresh /\ ~api'.finalizer /\ ~api'.present
           /\ api'.nodeRef = api.nodeRef \/ NodeLinked
           /\ api'.addresses = api.addresses \/ PersistStatus
           /\ api'.providerID = api.providerID \/ PersistSpec
<1> USE DEF storeVars
<1>a. /\ api \in Machine /\ cached \in Machine /\ m \in Machine /\ s \in Machine
      /\ "Deleting" \in Phases
  BY DEF TypeInv, TypeOK, Phases
<1>1. CASE AddFinalizer
  <2>1. CASE UNCHANGED storeVars
    BY <2>1
  <2>2. CASE api.present /\ Write([api EXCEPT !.finalizer = TRUE], {})
    BY <1>1, <1>a, <2>2 DEF Write, Machine
  <2> QED
    BY <1>1, <2>1, <2>2 DEF AddFinalizer
<1>2. CASE PatchStatus
  BY <1>2, StatusWrites
<1>3. CASE PersistSpec
  <2>1. CASE Write(patchMachine(api, m, s), {"scope"})
    BY <1>3, <1>a, <2>1 DEF Write, patchMachine, Machine
  <2> QED
    BY <1>3, <2>1 DEF PersistSpec
<1>4. CASE PersistStatus
  <2>1. CASE Write(patchMachineStatus(api, m, s), {})
    <3>1. patchMachineStatus(api, m, s).providerID = api.providerID
      BY <1>a DEF patchMachineStatus, Machine
    <3> QED
      BY <1>4, <1>a, <2>1, <3>1, PatchFields DEF Write
  <2> QED
    BY <1>4, <2>1 DEF PersistStatus
<1>5. CASE MarkDeleting
  <2>1. CASE Write(updateStatus(api, cached, "Deleting", FALSE), {"m"})
    <3>1. api' = updateStatus(api, cached, "Deleting", FALSE)
      BY <2>1 DEF Write
    <3> QED
      BY <3>1, MarkingFields
  <2> QED
    BY <1>5, <2>1 DEF MarkDeleting
<1>6. CASE RemoveFinalizer
  <2>1. CASE /\ "m" \in fresh
             /\ Write([api EXCEPT !.finalizer = FALSE, !.present = FALSE], {})
    BY <1>6, <1>a, <2>1 DEF Write, Machine
  <2> QED
    BY <1>6, <2>1 DEF RemoveFinalizer
<1>7. CASE DrainFinish \/ OwnerDeletes \/ OwnerEdits \/ HookRemoved
  <2>1. api'.nodeRef = api.nodeRef
    BY <1>7, <1>a
       DEF DrainFinish, OwnerDeletes, OwnerEdits, HookRemoved, Write, Machine
  <2> QED
    BY <1>7, <2>1, OthersWrite DEF TypeInv
<1>8. CASE NodeLinked
  BY <1>8, OthersWrite DEF TypeInv
<1>9. CASE Create \/ UpdatePools \/ Register \/ ReadInstance
  BY <1>9, ProvisioningMoves
<1>10. CASE DeletePools \/ DeleteLookup \/ Unregister \/ DeleteInstance
              \/ FinalExists \/ DeleteNode
  BY <1>10, DeletionMoves
<1>11. CASE CheckExists \/ DrainStart \/ WatchDelivers \/ NodeJoins
              \/ InstanceStarts \/ InstanceVanishes \/ Interference \/ Crash
  BY <1>11 DEF CheckExists, DrainStart, WatchDelivers, NodeJoins,
       InstanceStarts, InstanceVanishes, Interference, Crash
<1>12. CASE UNCHANGED vars
  BY <1>12 DEF vars
<1> QED
  BY <1>1, <1>2, <1>3, <1>4, <1>5, <1>6, <1>7, <1>8, <1>9, <1>10, <1>11, <1>12
     DEF Next, Reconcile, Environment

\* Where the controller's copy comes from, and who gets a deletion to the
\* steps after the instance was found missing.
LEMMA ControlSteps ==
    ASSUME [Next]_vars
    PROVE  /\ \/ pc' = "idle"
              \/ CheckExists /\ m' = cached /\ pc' \in ProvisioningSteps
              \/ MarkDeleting /\ m' = api' /\ pc' = "delete.pools"
              \/ pc # "idle" /\ m' = m
           /\ pc' \in {"exists", "deleteNode", "removeFinalizer"} =>
                 \/ pc' = pc /\ m' = m
                 \/ DeletePools \/ DeleteLookup \/ FinalExists \/ DeleteNode
           /\ cached' = cached \/ (cached' = api /\ api' = api)
<1> USE DEF ctlVars
<1>a. /\ {"exists", "deleteNode", "removeFinalizer"} \subseteq DeletionSteps
      /\ "idle" \notin DeletionSteps \cup ProvisioningSteps
  BY DEF DeletionSteps, ProvisioningSteps
<1>1. CASE AddFinalizer \/ CheckExists \/ PatchStatus \/ PersistSpec \/ PersistStatus
  <2>1. \/ pc' = "idle"
        \/ CheckExists /\ m' = cached /\ pc' \in ProvisioningSteps
        \/ pc # "idle" /\ m' = m
    BY <1>1 DEF AddFinalizer, CheckExists, AfterExists, PatchStatus, PersistSpec,
         PersistStatus, CloseFailed, Closed, Readable, Done, Report, ProvisioningSteps
  <2>2. cached' = cached
    BY <1>1 DEF AddFinalizer, CheckExists, PatchStatus, PersistSpec, PersistStatus
  <2> QED
    BY <1>1, <1>a, <2>1, <2>2, ProvisioningSide
<1>2. CASE Create \/ UpdatePools \/ Register \/ ReadInstance
  BY <1>2, <1>a, ProvisioningMoves, ProvisioningSide DEF MovesWithin
<1>3. CASE MarkDeleting
  BY <1>3 DEF MarkDeleting, Readable, Done
<1>4. CASE DeletePools \/ DeleteLookup \/ FinalExists \/ DeleteNode
  BY <1>4, <1>a, DeletionMoves DEF MovesWithin
<1>5. CASE Unregister \/ DeleteInstance
  <2>1. pc' \notin {"exists", "deleteNode", "removeFinalizer"}
    BY <1>5 DEF Unregister, unregisterInstance, DeleteInstance, Done, Call
  <2> QED
    BY <1>5, <1>a, <2>1, DeletionMoves DEF MovesWithin
<1>6. CASE RemoveFinalizer \/ Crash
  BY <1>6 DEF RemoveFinalizer, Crash, Done
<1>7. CASE DrainStart \/ DrainFinish \/ OwnerDeletes \/ OwnerEdits \/ HookRemoved
             \/ WatchDelivers \/ NodeJoins \/ NodeLinked \/ InstanceStarts
             \/ InstanceVanishes \/ Interference
  BY <1>7 DEF DrainStart, DrainFinish, OwnerDeletes, OwnerEdits, HookRemoved,
       WatchDelivers, NodeJoins, NodeLinked, InstanceStarts, InstanceVanishes,
       Interference
<1>8. CASE UNCHANGED vars
  BY <1>8 DEF vars
<1> QED
  BY <1>1, <1>2, <1>3, <1>4, <1>5, <1>6, <1>7, <1>8 DEF Next, Reconcile, Environment

\* Without edits every step keeps all copies on one provider spec.
LEMMA SpecStep ==
    ASSUME EditSpecs = {}
    PROVE  TypeInv /\ SpecInv /\ [Next]_vars => SpecInv'
  BY ControlSteps, StoreSteps DEF SpecInv

\* Without edits every step keeps the instance where the spec says, and
\* absent after the last lookup of a deletion.
LEMMA InstanceStep ==
    ASSUME EditSpecs = {}
    PROVE  TypeInv /\ CopiesInv /\ SpecInv /\ InstanceInv /\ [Next]_vars => InstanceInv'
<1> SUFFICES ASSUME TypeInv, CopiesInv, SpecInv, InstanceInv, [Next]_vars
             PROVE  InstanceInv'
  OBVIOUS
<1>1. CASE Create
  <2>1. /\ pc = "create" /\ api.finalizer /\ UNCHANGED api
        /\ pc' \notin {"deleteNode", "removeFinalizer"}
    BY <1>1, ProvisioningMoves, ProvisioningSide
       DEF Create, CopiesInv, ProvisioningSteps, DeletionSteps
  <2>2. \A p \in Places : inst'[p] # "none" =>
            inst[p] # "none" \/ (p = m.spec.place /\ p \in ValidPlaces)
    BY OnlyCreateInserts
  <2> QED
    BY <2>1, <2>2 DEF InstanceInv, SpecInv
<1>2. CASE ~Create
  <2>1. \A p \in Places : inst[p] = "none" => inst'[p] = "none"
    BY <1>2, OnlyCreateInserts
  <2>2. ~api'.finalizer => NoInstance
    BY StoreSteps DEF InstanceInv, RemoveFinalizer
  <2>3. pc' \in {"deleteNode", "removeFinalizer"} => NoInstance
    <3>1. CASE FinalExists
      <4>1. PICK answer \in {"error", "invalidConfiguration", "found", "missing"} :
              /\ ExistsAnswer(answer, m.spec)
              /\ pc' \in {"deleteNode", "removeFinalizer"} =>
                   answer \in {"missing", "invalidConfiguration"}
        BY <3>1 DEF FinalExists, Done
      <4>2. m.spec = api.spec
        BY <3>1 DEF FinalExists, SpecInv
      <4>3. answer \in {"missing", "invalidConfiguration"} =>
              inst[api.spec.place] = "none" \/ api.spec.place \notin ValidPlaces
        BY <4>1, <4>2 DEF ExistsAnswer, exists
      <4> QED
        BY <4>1, <4>3 DEF InstanceInv, NoInstance
    <3>2. CASE DeletePools \/ DeleteLookup
      BY <3>2 DEF DeletePools, DeleteLookup, AfterLookup, Done, Call
    <3>3. CASE DeleteNode
      BY <3>3 DEF DeleteNode, InstanceInv
    <3> QED
      BY <3>1, <3>2, <3>3, ControlSteps DEF InstanceInv
  <2>4. api'.spec = api.spec
    BY StoreSteps
  <2> QED
    BY <2>1, <2>2, <2>3, <2>4 DEF InstanceInv, NoInstance
<1> QED
  BY <1>1, <1>2

\* Only Update and Delete change the target pools; only the kubelet and the
\* deletion change the Node.
LEMMA CloudSteps ==
    ASSUME [Next]_vars
    PROVE  /\ pools' = pools \/ UpdatePools \/ DeletePools
           /\ node' = node \/ NodeJoins \/ DeleteNode
<1> USE DEF cloudVars, poolVars
<1>1. CASE AddFinalizer \/ CheckExists \/ PatchStatus \/ Create \/ UpdatePools
             \/ Register \/ ReadInstance \/ PersistSpec \/ PersistStatus
  BY <1>1 DEF AddFinalizer, CheckExists, PatchStatus, Create, UpdatePools,
       Register, ReadInstance, PersistSpec, PersistStatus
<1>2. CASE MarkDeleting \/ DeletePools \/ DeleteLookup \/ Unregister
             \/ DeleteInstance \/ FinalExists \/ DeleteNode \/ RemoveFinalizer
  BY <1>2 DEF MarkDeleting, DeletePools, DeleteLookup, Unregister,
       DeleteInstance, FinalExists, DeleteNode, RemoveFinalizer
<1>3. CASE Environment
  BY <1>3 DEF Environment, DrainStart, DrainFinish, OwnerDeletes, OwnerEdits,
       HookRemoved, WatchDelivers, NodeJoins, NodeLinked, InstanceStarts,
       InstanceVanishes, Interference, Crash
<1>4. CASE UNCHANGED vars
  BY <1>4 DEF vars
<1> QED
  BY <1>1, <1>2, <1>3, <1>4 DEF Next, Reconcile

\* Without edits every step keeps the target pools empty once a deletion
\* has visited them.
LEMMA PoolsStep ==
    ASSUME EditSpecs = {}
    PROVE  TypeInv /\ CopiesInv /\ ReadyInv /\ SpecInv /\ PoolsInv /\ [Next]_vars
             => PoolsInv'
<1> SUFFICES ASSUME TypeInv, CopiesInv, ReadyInv, SpecInv, PoolsInv, [Next]_vars
             PROVE  PoolsInv'
  OBVIOUS
<1> DEFINE Late == {"exists", "deleteNode", "removeFinalizer"}
<1>a. api'.spec = api.spec /\ Late \subseteq DeletionSteps
  BY StoreSteps DEF DeletionSteps
<1>1. CASE UpdatePools
  <2>1. /\ pc \in ProvisioningSteps /\ api' = api /\ m.spec = api.spec
        /\ pc' \notin Late
    BY ZenonT(40), <1>1, <1>a, ProvisioningMoves, ProvisioningSide DEF UpdatePools, SpecInv
  <2>2. \A i \in 1..NPools : pools'[i] \subseteq {api.spec.place}
    BY <1>1, <2>1 DEF UpdatePools, processTargetPools, PoolsInv
  <2> QED
    BY SMTT(20), Zenon, <2>1, <2>2 DEF PoolsInv, CopiesInv
<1>2. CASE DeletePools
  <2>1. \A i \in 1..NPools : pools'[i] \subseteq pools[i]
    BY <1>2 DEF DeletePools, processTargetPools
  <2>2. api' = api /\ MovesWithin(DeletionSteps)
    BY <1>2, DeletionMoves
  <2>3. pc' \in Late => pc' = "exists" /\ ~m.addresses /\ m' = m
    BY <1>2 DEF DeletePools, Done, Call
  <2> QED
    BY <2>1, <2>2, <2>3 DEF PoolsInv, NoPoolLink
<1>3. CASE pools' = pools
  <2>1. ~api'.finalizer /\ api'.addresses => NoPoolLink
    <3>1. CASE RemoveFinalizer /\ "m" \in fresh
      <4>1. m = api /\ pc = "removeFinalizer"
        BY <3>1 DEF RemoveFinalizer, CopiesInv
      <4>2. api'.addresses = api.addresses
        BY <4>1, StoreSteps DEF PersistStatus
      <4> QED
        BY <4>1, <4>2 DEF PoolsInv
    <3>2. CASE PersistStatus
      BY <3>2, StoreSteps
         DEF PersistStatus, AddFinalizer, Readable, RemoveFinalizer, CopiesInv,
             ProvisioningSteps
    <3> QED
      BY <3>1, <3>2, StoreSteps DEF PoolsInv
  <2>2. pc' \in Late /\ m'.addresses => NoPoolLink
    <3>1. CASE DeletePools
      BY <3>1 DEF DeletePools, Done, Call
    <3>2. CASE DeleteLookup
      <4>1. /\ m.spec = api.spec /\ \A i \in 1..NPools : m.spec.place \notin pools[i]
        BY <3>2 DEF DeleteLookup, SpecInv, ReadyInv
      <4> QED
        BY <4>1 DEF PoolsInv, NoPoolLink
    <3>3. CASE FinalExists \/ DeleteNode
      BY <3>3 DEF FinalExists, DeleteNode, PoolsInv, Done, Call
    <3> QED
      BY <3>1, <3>2, <3>3, ControlSteps DEF PoolsInv
  <2> QED
    BY <1>3, <1>a, <2>1, <2>2 DEF PoolsInv, NoPoolLink
<1> QED
  BY <1>1, <1>2, <1>3, CloudSteps

\* Without edits every step keeps a linked Node absent once it is deleted.
LEMMA NodeStep ==
    ASSUME EditSpecs = {}
    PROVE  TypeInv /\ CopiesInv /\ InstanceInv /\ NodeInv /\ [Next]_vars => NodeInv'
<1> SUFFICES ASSUME TypeInv, CopiesInv, InstanceInv, NodeInv, [Next]_vars
             PROVE  NodeInv'
  OBVIOUS
<1>1. CASE NodeJoins
  BY <1>1 DEF NodeJoins, storeVars, ctlVars, InstanceInv, NoInstance, NodeInv
<1>2. CASE node' = FALSE
  BY <1>2 DEF NodeInv
<1>3. CASE node' = node
  <2>1. ~api'.finalizer /\ node => ~api'.present /\ ~api'.nodeRef
    <3>1. CASE RemoveFinalizer /\ "m" \in fresh /\ ~api'.present
      <4>1. m = api /\ pc = "removeFinalizer"
        BY <3>1 DEF RemoveFinalizer, CopiesInv
      <4>2. api'.nodeRef = api.nodeRef
        BY <3>1, <4>1, StoreSteps DEF RemoveFinalizer, NodeLinked, ctlVars, Done
      <4> QED
        BY <3>1, <4>1, <4>2 DEF NodeInv
    <3>2. CASE NodeLinked
      BY <3>2, OthersWrite DEF NodeLinked, NodeInv, TypeInv
    <3> QED
      BY <3>1, <3>2, StoreSteps DEF NodeInv
  <2>2. pc' = "removeFinalizer" /\ m'.nodeRef => ~node
    <3>1. CASE DeletePools \/ DeleteLookup
      BY <3>1 DEF DeletePools, DeleteLookup, AfterLookup, Done, Call
    <3>2. CASE FinalExists
      BY <3>2 DEF FinalExists, Done, Call
    <3>3. CASE DeleteNode
      BY <1>3, <3>3 DEF DeleteNode, Done
    <3> QED
      BY <3>1, <3>2, <3>3, ControlSteps DEF NodeInv
  <2> QED
    BY <1>3, <2>1, <2>2 DEF NodeInv
<1> QED
  BY <1>1, <1>2, <1>3, CloudSteps DEF DeleteNode

\* The invariants behind NoOrphan and PoolsReleased hold at the start.
LEMMA OrphanInit == Init => SpecInv /\ InstanceInv /\ PoolsInv /\ NodeInv
<1> SUFFICES ASSUME Init PROVE SpecInv /\ InstanceInv /\ PoolsInv /\ NodeInv
  OBVIOUS
<1>1. cached = api /\ pc = "idle" /\ node = FALSE /\ NoInstance /\ NoPoolLink
  BY DEF Init, NoInstance, NoPoolLink
<1> QED
  BY <1>1 DEF SpecInv, InstanceInv, PoolsInv, NodeInv, NoInstance, NoPoolLink

\* Without edits the invariants behind NoOrphan and PoolsReleased always
\* hold.
LEMMA OrphanInvariant ==
    ASSUME EditSpecs = {}
    PROVE  Spec => [](CopiesInv /\ InstanceInv /\ PoolsInv /\ NodeInv)
  BY InvInvariant, OrphanInit, SpecStep, InstanceStep, PoolsStep, NodeStep, PTL
     DEF Spec

\* When nobody edits the provider spec of the machine, releasing it leaves
\* neither an instance nor its linked Node behind, whatever fails, crashes,
\* lags or interferes between the last look at the cloud and the Update that
\* removes the finalizer.
THEOREM NothingIsOrphaned ==
    ASSUME EditSpecs = {}
    PROVE  Spec => []NoOrphan
<1>1. CopiesInv /\ InstanceInv /\ NodeInv => NoOrphan
  BY DEF CopiesInv, InstanceInv, NodeInv, NoInstance, NoOrphan
<1> QED
  BY <1>1, OrphanInvariant, PTL

\* Nor, if its addresses were ever stored, a link in a target pool.
THEOREM PoolsAreReleased ==
    ASSUME EditSpecs = {}
    PROVE  Spec => []PoolsReleased
<1>1. CopiesInv /\ PoolsInv => PoolsReleased
  BY DEF CopiesInv, PoolsInv, NoPoolLink, PoolsReleased
<1> QED
  BY <1>1, OrphanInvariant, PTL

----------------------------------------------------------------------------
(***************************************************************************)
(* A machine with a provider ID, whatever its spec is changed to, as long  *)
(* as no two valid places are involved                                     *)
(***************************************************************************)

\* The provider specs the machine may have name at most one valid place.
OneValidPlace ==
    \A spec1, spec2 \in StartSpecs \cup EditSpecs :
        spec1.place \in ValidPlaces /\ spec2.place \in ValidPlaces
            => spec1.place = spec2.place

\* Every copy has one of these provider specs.
KnownSpecsInv ==
    /\ api.spec \in StartSpecs \cup EditSpecs
    /\ cached.spec \in StartSpecs \cup EditSpecs
    /\ pc # "idle" => m.spec \in StartSpecs \cup EditSpecs

\* Every instance is at a valid place the machine may have, and the finalizer
\* of a machine with a provider ID outlives it: an invalid place is taken for
\* proof that there is no instance only without one.
KnownInv ==
    /\ \A p \in Places : inst[p] # "none" =>
          \E spec \in StartSpecs \cup EditSpecs : p = spec.place /\ p \in ValidPlaces
    /\ ~api.finalizer => NoInstance \/ api.providerID = NoPlace
    /\ pc \in {"deleteNode", "removeFinalizer"} => NoInstance \/ m.providerID = NoPlace

\* Every step keeps the copies on these provider specs.
LEMMA KnownSpecsStep == TypeInv /\ KnownSpecsInv /\ [Next]_vars => KnownSpecsInv'
  BY ControlSteps, StoreSteps DEF KnownSpecsInv

\* Every step keeps the finalizer until the instance of a provider ID is gone.
LEMMA KnownStep ==
    ASSUME OneValidPlace
    PROVE  TypeInv /\ CopiesInv /\ KnownSpecsInv /\ KnownInv /\ [Next]_vars => KnownInv'
<1> SUFFICES ASSUME TypeInv, CopiesInv, KnownSpecsInv, KnownInv, [Next]_vars
             PROVE  KnownInv'
  OBVIOUS
<1>1. CASE Create
  <2>1. /\ pc = "create" /\ api.finalizer /\ UNCHANGED api
        /\ pc' \notin {"deleteNode", "removeFinalizer"}
    BY <1>1, ProvisioningMoves, ProvisioningSide
       DEF Create, CopiesInv, ProvisioningSteps, DeletionSteps
  <2>2. \A p \in Places : inst'[p] # "none" =>
            inst[p] # "none" \/ (p = m.spec.place /\ p \in ValidPlaces)
    BY OnlyCreateInserts
  <2> QED
    BY ZenonT(40), <2>1, <2>2 DEF KnownInv, KnownSpecsInv
<1>2. CASE ~Create
  <2>1. \A p \in Places : inst[p] = "none" => inst'[p] = "none"
    BY <1>2, OnlyCreateInserts
  <2>2. ~api'.finalizer => NoInstance \/ api'.providerID = NoPlace
    <3>1. CASE PersistSpec
      BY <3>1, StoreSteps
         DEF PersistSpec, CopiesInv, ProvisioningSteps, AddFinalizer, Readable,
             RemoveFinalizer
    <3>2. CASE RemoveFinalizer /\ "m" \in fresh
      <4>1. m = api /\ pc = "removeFinalizer" /\ api'.providerID = api.providerID
        BY <3>2, StoreSteps DEF RemoveFinalizer, CopiesInv, PersistSpec
      <4> QED
        BY <4>1 DEF KnownInv
    <3> QED
      BY <3>1, <3>2, StoreSteps DEF KnownInv
  <2>3. pc' \in {"deleteNode", "removeFinalizer"} =>
          NoInstance \/ m'.providerID = NoPlace
    <3>1. CASE FinalExists
      <4>1. PICK answer \in {"error", "invalidConfiguration", "found", "missing"} :
              /\ ExistsAnswer(answer, m.spec)
              /\ pc' \in {"deleteNode", "removeFinalizer"} =>
                   \/ answer = "missing"
                   \/ answer = "invalidConfiguration" /\ m.providerID = NoPlace
        BY <3>1 DEF FinalExists, Done
      <4>2. answer = "missing" =>
              m.spec.place \in ValidPlaces /\ inst[m.spec.place] = "none"
        BY <4>1 DEF ExistsAnswer, exists
      <4>3. answer = "missing" => NoInstance
        <5>1. m.spec \in StartSpecs \cup EditSpecs
          BY <3>1 DEF FinalExists, KnownSpecsInv
        <5> QED
          BY ZenonT(60), <4>2, <5>1 DEF OneValidPlace, KnownInv, NoInstance
      <4>4. pc' \in {"deleteNode", "removeFinalizer"} => m' = m
        BY <3>1 DEF FinalExists, Done, Call
      <4> QED
        BY <4>1, <4>3, <4>4
    <3>2. CASE DeletePools \/ DeleteLookup
      BY <3>2 DEF DeletePools, DeleteLookup, AfterLookup, Done, Call
    <3>3. CASE DeleteNode
      BY <3>3 DEF DeleteNode, Done, Call, KnownInv
    <3> QED
      BY <3>1, <3>2, <3>3, ControlSteps DEF KnownInv
  <2> QED
    BY <2>1, <2>2, <2>3 DEF KnownInv, NoInstance
<1> QED
  BY <1>1, <1>2

\* With one valid place both always hold.
LEMMA KnownInvariant ==
    ASSUME OneValidPlace
    PROVE  Spec => [](KnownSpecsInv /\ KnownInv)
<1>1. Init => KnownSpecsInv /\ KnownInv
  <2> SUFFICES ASSUME Init PROVE KnownSpecsInv /\ KnownInv
    OBVIOUS
  <2>1. PICK spec \in StartSpecs, hook \in StartHooks : api = NewMachine(spec, hook)
    BY DEF Init
  <2>2. api.spec = spec /\ cached = api /\ pc = "idle" /\ NoInstance
    BY <2>1 DEF Init, NewMachine, NoInstance
  <2> QED
    BY <2>2 DEF KnownSpecsInv, KnownInv, NoInstance
<1>2. TypeInv /\ CopiesInv /\ KnownSpecsInv /\ KnownInv /\ [Next]_vars => KnownInv'
  BY KnownStep
<1> QED
  BY <1>1, <1>2, KnownSpecsStep, InvInvariant, PTL DEF Spec

\* A machine that ever had a provider ID is not released while its instance
\* lives, though its owner changes the zone or the project to ones GCP does
\* not know, or the spec to one the actuator cannot read, at any moment.
THEOREM KnownInstanceIsKept ==
    ASSUME OneValidPlace
    PROVE  Spec => []KnownInstanceNotLost
<1>1. CopiesInv /\ KnownInv => KnownInstanceNotLost
  BY DEF CopiesInv, KnownInv, NoInstance, KnownInstanceNotLost
<1> QED
  BY <1>1, KnownInvariant, InvInvariant, PTL

=============================================================================
