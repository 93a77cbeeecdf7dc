----------------------- MODULE DrainControllerProofs -----------------------
(***************************************************************************)
(* What DrainController guarantees for any number of control plane         *)
(* machines and of failures.                                               *)
(***************************************************************************)
EXTENDS DrainController, FiniteSetTheorems, TLAPS

USE DrainAssumption

\* The properties are not inductive: what Reconcile read of the machine must
\* still hold when the pods are evicted, the cordon relies on the list, and
\* the condition on the eviction.
DrainInv ==
    /\ pc # "idle" => cur \in deleted
    /\ pc \in {"get", "list", "cordon", "evict"} => cur \notin hooks \cup Excluded
    /\ pc = "patch" /\ cur \in Linked \ Excluded => cur \in emptied \/ cur \notin nodes
    /\ pc = "cordon" /\ ~lag => ours = {}

\* Whatever fails leaves the bound on disturbances.
LEMMA FaultsType ==
    ASSUME TypeOK, Disturbance \/ UNCHANGED faults
    PROVE  faults' \in 0..MaxFaults
<1>1. faults \in 0..MaxFaults /\ MaxFaults \in Nat
  BY DEF TypeOK
<1> QED
  BY <1>1 DEF Disturbance

\* Every step keeps the types, given that the worker has a deleted machine.
LEMMA TypeStep == TypeOK /\ DrainInv /\ [Next]_vars => TypeOK'
<1> SUFFICES ASSUME TypeOK, DrainInv, [Next]_vars PROVE TypeOK'
  OBVIOUS
<1> USE DEF TypeOK, Steps, Goto, Return, machineVars, nodeVars, cacheVars, workerVars
<1>1. CASE UNCHANGED vars
  BY <1>1 DEF vars
<1>2. ASSUME NEW m \in Machines, Reconcile(m) PROVE TypeOK'
  BY <1>2 DEF Reconcile
<1>3. CASE GetNode \/ ListNodes
  BY <1>3, FaultsType DEF GetNode, ListNodes
<1>4. CASE Cordon
  BY <1>4, FaultsType DEF Cordon
<1>5. CASE Evict
  BY <1>5, FaultsType DEF Evict, evictionFailed
<1>6. CASE PatchDrained
  BY <1>6, FaultsType DEF PatchDrained, DrainInv
<1>7. ASSUME NEW m \in Machines, MachineDeleted(m) \/ HookRemoved(m) \/ ConditionTakenBack(m)
      PROVE  TypeOK'
  BY <1>7, FaultsType DEF MachineDeleted, HookRemoved, ConditionTakenBack
<1>8. ASSUME NEW m \in Machines, NodeRemoved(m) \/ NodeLost(m) PROVE TypeOK'
  BY <1>8, FaultsType DEF NodeRemoved, NodeLost, Remove
<1>9. ASSUME NEW m \in Machines, AdminCordons(m) \/ AdminUncordons(m) PROVE TypeOK'
  BY <1>9, FaultsType DEF AdminCordons, AdminUncordons
<1>10. CASE WatchDelivers \/ Crash
  BY <1>10, FaultsType DEF WatchDelivers, Crash
<1> QED
  BY <1>1, <1>2, <1>3, <1>4, <1>5, <1>6, <1>7, <1>8, <1>9, <1>10 DEF Next, Drain, Others

\* Every step keeps what the worker relies on: machines stay deleted, hooks do
\* not come back, Nodes that are gone stay away, and only the worker itself
\* adds to what the controller has cordoned.
LEMMA DrainStep == TypeOK /\ DrainInv /\ [Next]_vars => DrainInv'
<1> SUFFICES ASSUME TypeOK, DrainInv, [Next]_vars PROVE DrainInv'
  OBVIOUS
<1> USE DEF TypeOK, DrainInv, Goto, Return, machineVars, nodeVars, workerVars
<1>1. CASE UNCHANGED vars
  BY <1>1 DEF vars
<1>2. ASSUME NEW m \in Machines, Reconcile(m) PROVE DrainInv'
  BY <1>2 DEF Reconcile, blockedByHook
<1>3. CASE GetNode
  BY <1>3 DEF GetNode
<1>4. CASE ListNodes
  BY <1>4 DEF ListNodes, isDrainAllowed
<1>5. CASE Cordon \/ Evict \/ PatchDrained
  BY <1>5 DEF Cordon, Evict, evictionFailed, PatchDrained
<1>6. ASSUME NEW m \in Machines, MachineDeleted(m) \/ HookRemoved(m) \/ ConditionTakenBack(m)
      PROVE  DrainInv'
  BY <1>6 DEF MachineDeleted, HookRemoved, ConditionTakenBack
<1>7. ASSUME NEW m \in Machines, NodeRemoved(m) \/ NodeLost(m) PROVE DrainInv'
  BY <1>7 DEF NodeRemoved, NodeLost, Remove
<1>8. ASSUME NEW m \in Machines, AdminCordons(m) \/ AdminUncordons(m) PROVE DrainInv'
  BY <1>8 DEF AdminCordons, AdminUncordons
<1>9. CASE WatchDelivers \/ Crash
  BY <1>9 DEF WatchDelivers, Crash
<1> QED
  BY <1>1, <1>2, <1>3, <1>4, <1>5, <1>6, <1>7, <1>8, <1>9 DEF Next, Drain, Others

\* What a step may do to machines and Nodes, and who does it.
LEMMA Moves ==
    ASSUME [Next]_vars
    PROVE  /\ lag' = lag /\ deleted \subseteq deleted' /\ hooks' \subseteq hooks
           /\ nodes' \subseteq nodes
           /\ ours' \subseteq ours \/ (pc = "cordon" /\ ours' = ours \cup {cur})
           /\ emptied' = emptied \/ (pc = "evict" /\ emptied' = emptied \cup {cur})
           /\ drained' \subseteq drained \/ (pc = "patch" /\ drained' = drained \cup {cur})
<1> USE DEF machineVars, nodeVars
<1>1. CASE Drain \/ UNCHANGED vars
  BY <1>1 DEF Drain, GetNode, ListNodes, Cordon, Evict, PatchDrained, vars
<1>2. CASE WatchDelivers \/ Crash
  BY <1>2 DEF WatchDelivers, Crash
<1>3. CASE \E m \in Machines : Reconcile(m) \/ Others(m)
  BY <1>3 DEF Reconcile, Others, MachineDeleted, HookRemoved, ConditionTakenBack,
     NodeRemoved, NodeLost, Remove, AdminCordons, AdminUncordons
<1> QED
  BY <1>1, <1>2, <1>3 DEF Next

\* The three properties as one formula.
DrainSafe == OneAtATime /\ EvictedOnlyWhenDue /\ DrainedIsEmpty

\* Every step keeps the three properties.
LEMMA SafeStep == TypeOK /\ DrainInv /\ DrainSafe /\ [Next]_vars => DrainSafe'
<1> SUFFICES ASSUME TypeOK, DrainInv, DrainSafe, [Next]_vars PROVE DrainSafe'
  OBVIOUS
<1>1. OneAtATime'
  <2>1. CASE ours' \subseteq ours /\ lag' = lag
    <3>1. IsFiniteSet(ours)
      BY FS_Subset DEF TypeOK
    <3>2. /\ Cardinality(ours') <= Cardinality(ours)
          /\ Cardinality(ours) \in Nat /\ Cardinality(ours') \in Nat
      BY <2>1, <3>1, FS_Subset, FS_CardinalityType
    <3> QED
      BY <2>1, <3>2 DEF DrainSafe, OneAtATime
  <2>2. CASE /\ lag' = lag /\ pc = "cordon" /\ ours' = ours \cup {cur}
    <3>1. ~lag => ours' = {cur}
      BY <2>2 DEF DrainInv
    <3>2. Cardinality({cur}) = 1
      BY FS_Singleton
    <3> QED
      BY <2>2, <3>1, <3>2 DEF OneAtATime
  <2>3. /\ lag' = lag
        /\ ours' \subseteq ours \/ (pc = "cordon" /\ ours' = ours \cup {cur})
    BY Moves
  <2> QED
    BY <2>1, <2>2, <2>3
<1>2. EvictedOnlyWhenDue'
  <2>1. deleted \subseteq deleted' /\ hooks' \subseteq hooks
    BY Moves
  <2>2. /\ ours' \subseteq ours \/ (pc = "cordon" /\ ours' = ours \cup {cur})
        /\ emptied' = emptied \/ (pc = "evict" /\ emptied' = emptied \cup {cur})
    BY Moves
  <2> QED
    BY <2>1, <2>2 DEF DrainSafe, EvictedOnlyWhenDue, DrainInv
<1>3. DrainedIsEmpty'
  <2>1. emptied \subseteq emptied' /\ nodes' \subseteq nodes
    BY Moves
  <2>2. drained' \subseteq drained \/ (pc = "patch" /\ drained' = drained \cup {cur})
    BY Moves
  <2> QED
    BY <2>1, <2>2 DEF DrainSafe, DrainedIsEmpty, DrainInv
<1> QED
  BY <1>1, <1>2, <1>3 DEF DrainSafe

\* The invariants hold together.
LEMMA DrainInvariant == Spec => [](TypeOK /\ DrainInv /\ DrainSafe)
<1>1. Init => TypeOK /\ DrainInv /\ DrainSafe
  <2> SUFFICES ASSUME Init PROVE TypeOK /\ DrainInv /\ DrainSafe
    OBVIOUS
  <2>1. TypeOK
    BY DEF Init, TypeOK, Steps
  <2>2. DrainInv /\ EvictedOnlyWhenDue /\ DrainedIsEmpty
    BY DEF Init, DrainInv, EvictedOnlyWhenDue, DrainedIsEmpty
  <2>3. OneAtATime
    BY FS_EmptySet DEF Init, OneAtATime
  <2> QED
    BY <2>1, <2>2, <2>3 DEF DrainSafe
<1>2. TypeOK /\ DrainInv /\ DrainSafe /\ [Next]_vars => (TypeOK /\ DrainInv /\ DrainSafe)'
  BY TypeStep, DrainStep, SafeStep
<1> QED
  BY <1>1, <1>2, PTL DEF Spec

\* With a cache that does not lag the controller has at most one control plane
\* Node cordoned (isDrainAllowed).
THEOREM OneNodeAtATime == Spec => []OneAtATime
<1>1. DrainSafe => OneAtATime
  BY DEF DrainSafe
<1> QED
  BY <1>1, DrainInvariant, PTL

\* Nodes are cordoned and emptied only when it is due, whether or not the cache
\* lags (Reconcile).
THEOREM DrainsAreDue == Spec => []EvictedOnlyWhenDue
<1>1. DrainSafe => EvictedOnlyWhenDue
  BY DEF DrainSafe
<1> QED
  BY <1>1, DrainInvariant, PTL

\* Drained is claimed only of what has been emptied or is gone, whether or not
\* the cache lags (drainNode).
THEOREM DrainedTruthfully == Spec => []DrainedIsEmpty
<1>1. DrainSafe => DrainedIsEmpty
  BY DEF DrainSafe
<1> QED
  BY <1>1, DrainInvariant, PTL

\* The types, and that the worker has a machine exactly while it reconciles.
THEOREM TypeCorrect == Spec => []TypeOK
  BY DrainInvariant, PTL
=============================================================================
