----------------------- MODULE MachineContractProofs -----------------------
(***************************************************************************)
(* MachineLifecycle implements MachineContract, for every number of target *)
(* pools and of failures, when nobody edits the provider spec.             *)
(***************************************************************************)
EXTENDS MachineLifecycleProofs

\* What the contract sees of a state, besides its Stage.
Ready == api.drained /\ ~api.hook
Up == inst[api.spec.place] # "none"
Attached == api.nodeRef /\ node

\* A reconcile that deletes has stored Deleting and keeps the finalizer to
\* its last call; the cache never knows of Deleting before the store does.
LeavingInv ==
    /\ cached.phase = "Deleting" => api.phase = "Deleting"
    /\ pc \in DeletionSteps => api.phase = "Deleting" /\ api.finalizer

\* The patch that marks a machine stores Deleting.
LEMMA MarkStores ==
    ASSUME TypeInv, cached.phase = "Deleting" => api.phase = "Deleting"
    PROVE  updateStatus(api, cached, "Deleting", FALSE).phase = "Deleting"
<1>1. ASSUME NEW others \in BOOLEAN, others = FALSE
      PROVE  updateStatus(api, cached, "Deleting", others).phase = "Deleting"
  BY DEF updateStatus, Patched, Machine, TypeInv, TypeOK
<1> QED
  BY Zenon, <1>1

\* Only marking begins a deletion.
LEMMA OnlyMarkBegins ==
    ASSUME [Next]_vars, pc' \in DeletionSteps, ~MarkDeleting
    PROVE  pc \in DeletionSteps
<1>a. "idle" \notin DeletionSteps /\ ProvisioningSteps \cap DeletionSteps = {}
  BY DEF DeletionSteps, ProvisioningSteps
<1>1. CASE AddFinalizer \/ CheckExists \/ PatchStatus \/ PersistSpec \/ PersistStatus
  <2>1. pc' = pc \/ pc' = "idle" \/ pc' \in ProvisioningSteps
    BY <1>1 DEF AddFinalizer, CheckExists, AfterExists, PatchStatus, PersistSpec,
         PersistStatus, CloseFailed, Closed, Done, Report, ctlVars, ProvisioningSteps
  <2> QED
    BY <1>a, <2>1
<1>2. CASE Create \/ UpdatePools \/ Register \/ ReadInstance
  BY <1>2, <1>a, ProvisioningMoves DEF MovesWithin
<1>3. CASE DeletePools \/ DeleteLookup \/ Unregister \/ DeleteInstance
             \/ FinalExists \/ DeleteNode
  BY <1>3, DeletionMoves
<1>4. CASE RemoveFinalizer \/ Crash
  BY <1>4, <1>a DEF RemoveFinalizer, Crash, Done
<1>5. CASE DrainStart \/ DrainFinish \/ OwnerDeletes \/ OwnerEdits \/ HookRemoved
             \/ WatchDelivers \/ NodeJoins \/ NodeLinked \/ InstanceStarts
             \/ InstanceVanishes \/ Interference
  BY <1>5 DEF DrainStart, DrainFinish, OwnerDeletes, OwnerEdits, HookRemoved,
       WatchDelivers, NodeJoins, NodeLinked, InstanceStarts, InstanceVanishes,
       Interference, ctlVars
<1>6. CASE UNCHANGED vars
  BY <1>6 DEF vars
<1> QED
  BY <1>1, <1>2, <1>3, <1>4, <1>5, <1>6 DEF Next, Reconcile, Environment

\* Every step keeps a deleting reconcile's machine marked and its finalizer
\* in place.
LEMMA LeavingStep ==
    ASSUME EditSpecs = {}
    PROVE  TypeInv /\ CopiesInv /\ LeavingInv /\ [Next]_vars => LeavingInv'
<1> SUFFICES ASSUME TypeInv, CopiesInv, LeavingInv, [Next]_vars PROVE LeavingInv'
  OBVIOUS
<1>a. api.phase = "Deleting" => api'.phase = "Deleting"
  BY DeletingStays
<1>b. api \in Machine /\ cached \in Machine
  BY DEF TypeInv, TypeOK
<1>1. cached'.phase = "Deleting" => api'.phase = "Deleting"
  <2>1. cached' \in {cached, api}
    BY ControlSteps
  <2> QED
    BY <2>1, <1>a DEF LeavingInv
<1>2. ASSUME pc' \in DeletionSteps PROVE api'.phase = "Deleting" /\ api'.finalizer
  <2>1. CASE MarkDeleting
    <3>1. /\ api' = updateStatus(api, cached, "Deleting", FALSE) /\ api'.finalizer
      BY <2>1, <1>2 DEF MarkDeleting, Write, MayBeTerminated, Done, DeletionSteps,
           Readable, ctlVars
    <3> QED
      BY <3>1, <1>b, MarkStores DEF LeavingInv
  <2>2. CASE ~MarkDeleting
    <3>1. pc \in DeletionSteps /\ ~AddFinalizer /\ ~RemoveFinalizer
      BY <2>2, <1>2, OnlyMarkBegins
         DEF AddFinalizer, RemoveFinalizer, Readable, Done, DeletionSteps
    <3> QED
      BY <3>1, <1>a, StoreSteps DEF LeavingInv
  <2> QED
    BY <2>1, <2>2
<1> QED
  BY <1>1, <1>2 DEF LeavingInv

----------------------------------------------------------------------------
(***************************************************************************)
(* One step of the details is a step of the contract or none               *)
(***************************************************************************)

ContractInv ==
    TypeInv /\ CopiesInv /\ ReadyInv /\ InstanceInv /\ NodeInv /\ LeavingInv

\* A step of the cloud or of a call to it: the contract sees it in the
\* instance or in the Node alone.
LEMMA CloudStepKeeps ==
    ASSUME EditSpecs = {}, ContractInv, [Next]_vars, api' = api
    PROVE  [Contract!Next]_(Contract!vars)
<1> USE DEF ContractInv
<1>a. Stage' = Stage /\ Ready' = Ready
  BY DEF Stage, Ready
<1>1. CASE node' = node
  <2>a. Attached' = Attached
    BY <1>1 DEF Attached
  <2>1. CASE ~Up /\ Up'
    <3>1. api.spec.place \in Places
      BY DEF TypeInv, TypeOK, Machine, Specs
    <3>2. Create
      BY <2>1, <3>1, OnlyCreateInserts DEF Up
    <3>3. Stage \in {"held", "asked"}
      BY <3>2 DEF Create, CopiesInv, ProvisioningSteps, Stage
    <3> QED
      BY <1>a, <2>a, <2>1, <3>3
         DEF Contract!Next, Contract!Provision, Ready, Up, Attached
  <2>2. CASE Up /\ ~Up'
    BY <1>a, <2>a, <2>2 DEF Contract!Next, Contract!Vanish, Ready, Up, Attached
  <2>3. CASE Up' = Up
    BY <1>a, <2>a, <2>3 DEF Contract!vars, Ready, Up, Attached
  <2> QED
    BY <2>1, <2>2, <2>3 DEF Up
<1>2. CASE NodeJoins
  <2>1. Up' = Up
    BY <1>2 DEF NodeJoins, Up
  <2>2. Stage # "gone"
    BY <1>2 DEF NodeJoins, InstanceInv, NoInstance, CopiesInv, Stage
  <2>3. node = FALSE /\ node' = TRUE
    BY <1>2 DEF NodeJoins, TypeInv, TypeOK
  <2>4. CASE api.nodeRef
    BY <1>a, <2>1, <2>2, <2>3, <2>4
       DEF Contract!Next, Contract!Attach, Ready, Up, Attached
  <2>5. CASE ~api.nodeRef
    BY <1>a, <2>1, <2>5 DEF Contract!vars, Ready, Up, Attached
  <2> QED
    BY <2>4, <2>5
<1>3. CASE DeleteNode /\ node' = FALSE
  <2>1. Up' = Up /\ ~Up
    BY <1>3 DEF DeleteNode, InstanceInv, NoInstance, Up, TypeInv, TypeOK, Machine, Specs
  <2>2. Stage = "leaving"
    BY <1>3 DEF DeleteNode, LeavingInv, DeletionSteps, CopiesInv, Stage
  <2>3. CASE Attached
    BY <1>3, <1>a, <2>1, <2>2, <2>3
       DEF Contract!Next, Contract!Detach, Ready, Up, Attached
  <2>4. CASE ~Attached
    BY SMTT(20), Zenon, <1>3, <1>a, <2>1, <2>4 DEF Contract!vars, Ready, Up, Attached
  <2> QED
    BY <2>3, <2>4
<1> QED
  BY <1>1, <1>2, <1>3, CloudSteps DEF DeleteNode

\* A step that writes the object leaves the instance and the Node alone.
LEMMA StoreStepKeeps ==
    ASSUME EditSpecs = {}, ContractInv, [Next]_vars, api' # api
    PROVE  [Contract!Next]_(Contract!vars)
<1> USE DEF ContractInv, storeVars
<1>a. /\ api \in Machine /\ cached \in Machine /\ m \in Machine /\ s \in Machine
      /\ "Deleting" \in Phases /\ api.spec.place \in Places
      /\ to \in Phases \cup {"none"} /\ (pc = "status" => to # "none")
  BY DEF TypeInv, TypeOK, ControlOK, Phases, Machine, Specs
<1>b. api'.spec = api.spec
  BY StoreSteps
<1>c. api.phase = "Deleting" => api.deleted
  BY DEF CopiesInv
<1>s. ASSUME inst' = inst, node' = node, Stage' = Stage, api'.nodeRef = api.nodeRef
      PROVE  [Contract!Next]_(Contract!vars) \/ Stage = "gone"
  <2>1. Up' = Up /\ Attached' = Attached
    BY <1>b, <1>s DEF Up, Attached
  <2>2. CASE Ready' = Ready
    BY <1>s, <2>1, <2>2 DEF Contract!vars, Ready, Up, Attached
  <2>3. CASE Ready' = ~Ready /\ Stage # "gone"
    BY <1>s, <2>1, <2>3 DEF Contract!Next, Contract!ReadyChanges, Ready, Up, Attached
  <2> QED
    BY <2>2, <2>3 DEF Ready
<1>1. CASE AddFinalizer
  <2>1. /\ api.present /\ api' = [api EXCEPT !.finalizer = TRUE]
        /\ inst' = inst /\ node' = node
    BY <1>1 DEF AddFinalizer, Write, cloudVars
  <2>2. Stage' = Stage /\ Stage # "gone" /\ api'.nodeRef = api.nodeRef
    BY <1>a, <2>1 DEF Stage, Machine
  <2> QED
    BY <1>s, <2>1, <2>2
<1>2. CASE PersistSpec \/ PersistStatus
  <2>1. /\ api.present /\ inst' = inst /\ node' = node
        /\ api' \in {patchMachine(api, m, s), patchMachineStatus(api, m, s)}
    BY <1>2 DEF PersistSpec, PersistStatus, Write, cloudVars
  <2>2. Stage' = Stage /\ Stage # "gone" /\ api'.nodeRef = api.nodeRef
    BY <1>a, <2>1, PatchFields DEF Stage
  <2> QED
    BY <1>s, <2>1, <2>2
<1>3. CASE PatchStatus
  <2>1. api.present /\ inst' = inst /\ node' = node /\ pc = "status"
    BY <1>3 DEF PatchStatus, Write, cloudVars
  <2>2. api.phase # "Deleting" /\ to # "Deleting"
    BY <2>1 DEF CopiesInv, ProvisioningSteps
  <2>3. Stage' = Stage /\ Stage # "gone" /\ api'.nodeRef = api.nodeRef
    BY <1>3, <2>1, <2>2, StatusWrites DEF Stage
  <2> QED
    BY <1>s, <2>1, <2>3
<1>4. CASE MarkDeleting
  <2>1. /\ api.present /\ inst' = inst /\ node' = node /\ cached.deleted
        /\ api' = updateStatus(api, cached, "Deleting", FALSE)
    BY <1>4 DEF MarkDeleting, Write, cloudVars, Readable
  <2>2. /\ api'.phase = "Deleting" /\ api'.present /\ api.deleted
        /\ api'.nodeRef = api.nodeRef
    BY <1>a, <2>1, MarkStores, MarkingFields DEF LeavingInv, CopiesInv
  <2>3. Stage' = "leaving" /\ Stage \in {"asked", "leaving"}
    BY <2>1, <2>2 DEF Stage
  <2>4. CASE Stage = "asked"
    <3>1. Up' = Up /\ Attached' = Attached /\ Ready' \in BOOLEAN
      BY <1>b, <2>1, <2>2 DEF Up, Attached, Ready
    <3> QED
      BY <2>3, <2>4, <3>1 DEF Contract!Next, Contract!Leave, Ready, Up, Attached
  <2>5. CASE Stage = "leaving"
    BY <1>s, <2>1, <2>2, <2>3, <2>5
  <2> QED
    BY <2>3, <2>4, <2>5
<1>5. CASE RemoveFinalizer
  <2>1. /\ api.present /\ "m" \in fresh /\ inst' = inst /\ node' = node
        /\ pc = "removeFinalizer"
        /\ api' = [api EXCEPT !.finalizer = FALSE, !.present = FALSE]
    BY <1>5 DEF RemoveFinalizer, Write, cloudVars
  <2>2. m = api /\ api.phase = "Deleting" /\ Ready
    BY <2>1 DEF CopiesInv, LeavingInv, ReadyInv, DeletionSteps, Ready
  <2>3. ~Up /\ ~Attached
    BY <1>a, <2>1, <2>2 DEF InstanceInv, NoInstance, NodeInv, Up, Attached
  <2>4. Stage = "leaving" /\ Stage' = "gone"
    BY <1>a, <2>1, <2>2 DEF Stage, Machine
  <2>5. Ready' = Ready /\ Up' = Up /\ Attached' = Attached
    BY <1>a, <2>1 DEF Ready, Up, Attached, Machine
  <2> QED
    BY <2>2, <2>3, <2>4, <2>5 DEF Contract!Next, Contract!Release, Ready, Up, Attached
<1>6. CASE DrainFinish \/ HookRemoved
  <2>1. /\ api.present /\ inst' = inst /\ node' = node
        /\ api' \in {[api EXCEPT !.drained = TRUE, !.terminable = drain],
                     [api EXCEPT !.hook = FALSE]}
    BY <1>6 DEF DrainFinish, HookRemoved, Write, cloudVars
  <2>2. Stage' = Stage /\ Stage # "gone" /\ api'.nodeRef = api.nodeRef
    BY ZenonT(40), <1>a, <2>1 DEF Stage, Machine
  <2> QED
    BY <1>s, <2>1, <2>2
<1>7. CASE OwnerDeletes
  <2>1. /\ api.present /\ ~api.deleted /\ inst' = inst /\ node' = node
        /\ api' = [api EXCEPT !.deleted = TRUE, !.present = api.finalizer]
    BY <1>7 DEF OwnerDeletes, Write, cloudVars
  <2>2. Ready' = Ready /\ Up' = Up /\ Attached' = Attached
    BY <1>a, <2>1 DEF Ready, Up, Attached, Machine
  <2>3. CASE api.finalizer
    <3>1. Stage = "held" /\ Stage' = "asked"
      BY <1>a, <1>c, <2>1, <2>3 DEF Stage, Machine
    <3> QED
      BY <2>2, <3>1 DEF Contract!Next, Contract!Ask, Ready, Up, Attached
  <2>4. CASE ~api.finalizer
    <3>1. Stage = "held" /\ Stage' = "gone"
      BY <1>a, <1>c, <2>1, <2>4 DEF Stage, Machine
    <3>2. ~Up /\ ~Attached
      BY <1>a, <2>1, <2>4 DEF InstanceInv, NoInstance, NodeInv, Up, Attached
    <3> QED
      BY <2>2, <3>1, <3>2 DEF Contract!Next, Contract!Abandon, Ready, Up, Attached
  <2> QED
    BY <2>3, <2>4
<1>8. CASE NodeLinked
  <2>1. /\ api.present /\ node /\ ~api.nodeRef /\ inst' = inst /\ node' = node
        /\ api' = [api EXCEPT !.nodeRef = TRUE]
    BY <1>8 DEF NodeLinked, Write, cloudVars
  <2>2. /\ Stage' = Stage /\ Stage # "gone" /\ Ready' = Ready /\ Up' = Up
        /\ ~Attached /\ Attached' = TRUE
    BY <1>a, <2>1 DEF Stage, Ready, Up, Attached, Machine
  <2> QED
    BY <2>2 DEF Contract!Next, Contract!Attach, Ready, Up, Attached
<1>9. CASE UNCHANGED api
  BY <1>9
<1> QED
  BY <1>1, <1>2, <1>3, <1>4, <1>5, <1>6, <1>7, <1>8, <1>9, ProvisioningMoves,
     DeletionMoves
     DEF Next, Reconcile, Environment, CheckExists, OwnerEdits, DrainStart,
         WatchDelivers, NodeJoins, InstanceStarts, InstanceVanishes, Interference,
         Crash, vars

\* A machine nobody moves to another place keeps the contract: nothing is
\* provisioned once Deleting is stored, and the object goes only when it is
\* drained, unhooked, without instance and without a linked Node, however
\* calls fail, caches lag, controllers overlap and managers crash.
THEOREM ContractKept ==
    ASSUME EditSpecs = {}
    PROVE  Spec => KeepsContract
<1>1. Init => Contract!Init
  <2> SUFFICES ASSUME Init PROVE Contract!Init
    OBVIOUS
  <2>1. PICK spec \in StartSpecs, hook \in StartHooks : api = NewMachine(spec, hook)
    BY DEF Init
  <2>2. /\ api.present /\ api.phase = "nil" /\ api.deleted = FALSE
        /\ api.drained = FALSE /\ api.nodeRef = FALSE /\ api.spec.place \in Places
    BY <2>1, LifecycleAssumption DEF NewMachine, Specs
  <2>3. Stage = "held" /\ Ready = FALSE /\ Up = FALSE /\ Attached = FALSE
    BY <2>2 DEF Init, Stage, Ready, Up, Attached
  <2> QED
    BY <2>3 DEF Contract!Init, Ready, Up, Attached
<1>2. Init => LeavingInv
  <2> SUFFICES ASSUME Init PROVE LeavingInv
    OBVIOUS
  <2>1. pc = "idle" /\ cached = api
    BY DEF Init
  <2> QED
    BY <2>1 DEF LeavingInv, DeletionSteps
<1>3. ContractInv /\ [Next]_vars => [Contract!Next]_(Contract!vars)
  BY CloudStepKeeps, StoreStepKeeps
<1>4. TypeInv /\ CopiesInv /\ LeavingInv /\ [Next]_vars => LeavingInv'
  BY LeavingStep
<1>5. Spec => [](TypeInv /\ CopiesInv /\ ReadyInv)
  BY InvInvariant, PTL
<1>6. Spec => [](InstanceInv /\ NodeInv)
  BY OrphanInvariant, PTL
<1>7. Spec => []LeavingInv
  BY <1>2, <1>4, <1>5, PTL DEF Spec
<1>8. Spec => []ContractInv
  BY <1>5, <1>6, <1>7, PTL DEF ContractInv
<1> QED
  BY <1>1, <1>3, <1>8, PTL DEF Spec, KeepsContract, Contract!Spec
=============================================================================
