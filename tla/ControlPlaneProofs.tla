------------------------ MODULE ControlPlaneProofs ------------------------
(***************************************************************************)
(* What ControlPlane guarantees for any number of control plane machines,  *)
(* zones, concurrent reconciles and failures.                              *)
(***************************************************************************)
EXTENDS ControlPlane, FiniteSetTheorems, TLAPS

USE ControlPlaneAssumption

----------------------------------------------------------------------------
(***************************************************************************)
(* Lists of backends                                                       *)
(***************************************************************************)

\* The places of a zone's group in a list.
At(list, z) == {i \in DOMAIN list : list[i] = z}

\* Appending a backend keeps the others and adds one place.
LEMMA AppendBackend ==
    ASSUME NEW list \in Seq(Zones), NEW z \in Zones
    PROVE  /\ Append(list, z) \in Seq(Zones)
           /\ Registered(Append(list, z)) = Registered(list) \cup {z}
           /\ \A y : At(Append(list, z), y)
                       = IF y = z THEN At(list, y) \cup {Len(list) + 1} ELSE At(list, y)
<1>1. /\ Append(list, z) \in Seq(Zones) /\ Len(Append(list, z)) = Len(list) + 1
      /\ \A i \in 1..Len(list) : Append(list, z)[i] = list[i]
      /\ Append(list, z)[Len(list) + 1] = z
  OBVIOUS
<1>2. /\ DOMAIN list = 1..Len(list) /\ Len(list) \in Nat
      /\ DOMAIN Append(list, z) = (1..Len(list)) \cup {Len(list) + 1}
  BY <1>1
<1> QED
  BY <1>1, <1>2 DEF Registered, At

\* The places of a group are finite in number.
LEMMA AtFinite ==
    ASSUME NEW list \in Seq(Zones), NEW z
    PROVE  IsFiniteSet(At(list, z)) /\ Cardinality(At(list, z)) \in Nat
<1>1. IsFiniteSet(1..Len(list)) /\ At(list, z) \subseteq 1..Len(list)
  BY FS_Interval DEF At
<1> QED
  BY <1>1, FS_Subset, FS_CardinalityType

----------------------------------------------------------------------------
(***************************************************************************)
(* How a step moves a reconcile                                            *)
(***************************************************************************)

\* The calls at which a reconcile is about to register the group of its zone,
\* and the ones at which it relies on nothing it read before.
Registering == {"readBackends", "writeBackends"}
Plain == Steps \ {"checkBackend", "readBackends", "writeBackends"}

sharedVars == <<zone, groups, backends, fresh>>

\* Reconcile k goes on to a call of which nothing depends on the list, or no
\* reconcile moves; either way the groups and the list are left alone.
PlainMove ==
    /\ UNCHANGED sharedVars
    /\ \/ UNCHANGED <<pc, copy>>
       \/ \E k \in Masters, step \in Plain :
             /\ pc' = [pc EXCEPT ![k] = step]
             /\ copy' \in {copy, [copy EXCEPT ![k] = <<>>]}
             /\ pc[k] # "idle" \/ Cardinality(Busy) < Workers

\* The calls that do not register a group are plain moves.
LEMMA PlainMoves ==
    ASSUME TypeOK, NEW k \in Masters,
           \/ StartUpdate(k) \/ ListBeforeAdd(k) \/ AddInstance(k) \/ ReadInstance(k)
           \/ StartDelete(k) \/ ListBeforeRemove(k) \/ RemoveInstance(k)
           \/ DeleteInstance(k) \/ Release(k) \/ Environment(k)
    PROVE  PlainMove
<1> USE DEF PlainMove, Plain, Steps, sharedVars, cloudVars, reconcileVars, Goto, Return
<1>1. CASE StartUpdate(k) \/ StartDelete(k)
  BY <1>1 DEF StartUpdate, StartDelete, Begin
<1>2. CASE ListBeforeAdd(k) \/ ListBeforeRemove(k)
  BY <1>2 DEF ListBeforeAdd, ListBeforeRemove
<1>3. CASE AddInstance(k) \/ RemoveInstance(k)
  BY <1>3 DEF AddInstance, RemoveInstance
<1>4. CASE ReadInstance(k) \/ DeleteInstance(k)
  BY <1>4 DEF ReadInstance, DeleteInstance
<1>5. CASE Release(k) \/ OwnerDeletes(k) \/ InstanceStarts(k) \/ InstanceVanishes(k)
  BY <1>5 DEF Release, OwnerDeletes, InstanceStarts, InstanceVanishes
<1>6. CASE DeleteOperationFails(k) \/ RequestForgotten(k) \/ Interference(k)
  BY <1>6 DEF DeleteOperationFails, RequestForgotten, Interference
<1> QED
  BY <1>1, <1>2, <1>3, <1>4, <1>5, <1>6 DEF Environment

----------------------------------------------------------------------------
(***************************************************************************)
(* Types                                                                   *)
(***************************************************************************)

\* The next call, or the end, of a reconcile keeps its variables typed.
LEMMA MoveType ==
    ASSUME TypeOK, NEW k \in Masters, NEW step \in Steps, Goto(k, step) \/ Return(k)
    PROVE  pc' \in [Masters -> Steps] /\ copy' \in [Masters -> Seq(Zones)]
<1>1. <<>> \in Seq(Zones) /\ "idle" \in Steps
  BY DEF Steps
<1>2. CASE Goto(k, step)
  BY <1>2 DEF TypeOK, Goto
<1>3. CASE Return(k)
  <2>1. pc' \in [Masters -> Steps]
    BY <1>1, <1>3 DEF TypeOK, Return
  <2>2. copy' \in [Masters -> Seq(Zones)]
    <3> DEFINE empty == <<>>
    <3>1. empty \in Seq(Zones) /\ copy' = [copy EXCEPT ![k] = empty]
      BY <1>3 DEF Return
    <3> HIDE DEF empty
    <3> QED
      BY <3>1 DEF TypeOK
  <2> QED
    BY <2>1, <2>2
<1> QED
  BY <1>2, <1>3

\* A disturbance leaves fewer of them.
LEMMA DisturbanceType == TypeOK /\ (Disturbance \/ UNCHANGED faults) => faults' \in 0..MaxFaults
  BY DEF TypeOK, Disturbance

\* Every step keeps the variables typed.
LEMMA TypeStep == TypeOK /\ [Next]_vars => TypeOK'
<1> SUFFICES ASSUME TypeOK, [Next]_vars PROVE TypeOK'
  OBVIOUS
<1>f. Disturbance \/ UNCHANGED faults => faults' \in 0..MaxFaults
  BY DisturbanceType
<1>s. /\ "group" \in Steps /\ "insertGroup" \in Steps /\ "checkBackend" \in Steps
      /\ "readBackends" \in Steps /\ "writeBackends" \in Steps /\ "list" \in Steps
      /\ "add" \in Steps /\ "get" \in Steps /\ "unlist" \in Steps
      /\ "remove" \in Steps /\ "delete" \in Steps /\ "idle" \in Steps
  BY DEF Steps
<1>1. ASSUME NEW k \in Masters, Reconcile(k) PROVE TypeOK'
  <2> USE DEF cloudVars, reconcileVars
  <2>m. ASSUME NEW step \in Steps, Goto(k, step) \/ Return(k)
        PROVE  pc' \in [Masters -> Steps] /\ copy' \in [Masters -> Seq(Zones)]
    BY <2>m, MoveType
  <2>1. CASE StartUpdate(k) \/ StartDelete(k)
    BY <2>1, <2>m, <1>s DEF StartUpdate, StartDelete, Begin, TypeOK
  <2>2. CASE ensureInstanceGroup(k) \/ checkRegistrationOfBackend(k)
    BY <2>2, <2>m, <1>s, <1>f DEF ensureInstanceGroup, checkRegistrationOfBackend, TypeOK
  <2>3. CASE registerNewInstanceGroup(k)
    BY <2>3, <2>m, <1>s, <1>f DEF registerNewInstanceGroup, TypeOK
  <2>4. CASE ReadBackends(k)
    <3>1. pc' \in [Masters -> Steps] /\ copy' \in [Masters -> Seq(Zones)]
      <4>1. CASE Return(k)
        BY <4>1, <2>m, <1>s
      <4>2. CASE /\ pc' = [pc EXCEPT ![k] = "writeBackends"]
                 /\ copy' = [copy EXCEPT ![k] = backends]
        BY <4>2, <1>s DEF TypeOK
      <4> QED
        BY <2>4, <4>1, <4>2 DEF ReadBackends
    <3> QED
      BY <2>4, <3>1, <1>f DEF ReadBackends, TypeOK
  <2>5. CASE updateBackendServiceWithInstanceGroup(k)
    <3>1. backends' \in {backends, Append(copy[k], zone[k])} /\ fresh' \in {fresh, {}}
      BY <2>5 DEF updateBackendServiceWithInstanceGroup, Overwrite, extendedBackends
    <3>2. backends' \in Seq(Zones) /\ fresh' \subseteq Masters
      <4>1. copy[k] \in Seq(Zones) /\ zone[k] \in Zones
        BY DEF TypeOK
      <4>2. Append(copy[k], zone[k]) \in Seq(Zones)
        BY <4>1, AppendBackend
      <4> QED
        BY <3>1, <4>2 DEF TypeOK
    <3> QED
      BY <2>5, <3>2, <2>m, <1>s, <1>f DEF updateBackendServiceWithInstanceGroup, TypeOK
  <2>6. CASE ListBeforeAdd(k) \/ ListBeforeRemove(k)
    BY <2>6, <2>m, <1>s, <1>f DEF ListBeforeAdd, ListBeforeRemove, TypeOK
  <2>7. CASE AddInstance(k) \/ RemoveInstance(k)
    BY <2>7, <2>m, <1>s, <1>f DEF AddInstance, RemoveInstance, TypeOK
  <2>8. CASE ReadInstance(k)
    BY <2>8, <2>m, <1>s, <1>f DEF ReadInstance, StoredState, TypeOK
  <2>9. CASE DeleteInstance(k)
    BY <2>9, <2>m, <1>s, <1>f DEF DeleteInstance, deleteWithRequestID, TypeOK
  <2>10. CASE Release(k)
    BY <2>10 DEF Release, TypeOK
  <2> QED
    BY <1>1, <2>1, <2>2, <2>3, <2>4, <2>5, <2>6, <2>7, <2>8, <2>9, <2>10 DEF Reconcile
<1>2. ASSUME NEW k \in Masters, Environment(k) PROVE TypeOK'
  <2> USE DEF cloudVars, reconcileVars
  <2>1. CASE OwnerDeletes(k) \/ RequestForgotten(k)
    BY <2>1 DEF OwnerDeletes, RequestForgotten, TypeOK
  <2>2. CASE InstanceStarts(k) \/ InstanceVanishes(k)
    BY <2>2 DEF InstanceStarts, InstanceVanishes, TypeOK
  <2>3. CASE DeleteOperationFails(k) \/ Interference(k)
    BY <2>3, <1>f DEF DeleteOperationFails, Interference, TypeOK
  <2> QED
    BY <1>2, <2>1, <2>2, <2>3 DEF Environment
<1>3. CASE ServiceEdited
  BY <1>3, <1>f DEF ServiceEdited, TypeOK, reconcileVars
<1>4. CASE Crash
  <2>1. <<>> \in Seq(Zones)
    OBVIOUS
  <2> QED
    BY <1>4, <1>f, <1>s, <2>1 DEF Crash, TypeOK, cloudVars
<1>5. CASE UNCHANGED vars
  BY <1>5 DEF vars, TypeOK
<1> QED
  BY <1>1, <1>2, <1>3, <1>4, <1>5 DEF Next

\* The variables are typed at the start.
LEMMA TypeInit == Init => TypeOK
<1> SUFFICES ASSUME Init PROVE TypeOK
  OBVIOUS
<1>1. <<>> \in Seq(Zones) /\ Registered(StartBackends) \subseteq Zones
  BY DEF Registered
<1> QED
  BY <1>1 DEF Init, TypeOK, Steps

\* Types are kept by every interleaving of the machines' reconciles.
THEOREM TypeCorrect == Spec => []TypeOK
  BY TypeInit, TypeStep, PTL DEF Spec

----------------------------------------------------------------------------
(***************************************************************************)
(* The list of backends                                                    *)
(***************************************************************************)

\* Only groups that exist are listed or about to be.
GroupsInv ==
    /\ BackendsExist
    /\ \A k \in Masters : pc[k] \notin Plain => zone[k] \in groups

\* A copy whose fingerprint is the current one is the current list.
CopyInv ==
    \A k \in Masters : k \in fresh /\ pc[k] = "writeBackends" => copy[k] = backends

\* The reconciles that are about to list the group of a zone.
Pending(z) == {k \in Masters : zone[k] = z /\ pc[k] \in Registering}

\* BackendsBounded is not inductive: the reconciles that have found a group
\* missing will list it, so they count as if they had.
BoundInv ==
    /\ Cardinality(Busy) <= Workers
    /\ \A z \in Zones : Cardinality(At(backends, z)) + Cardinality(Pending(z)) <= Workers

\* A step is a plain move, a crash, or one of the calls that register.
LEMMA Moves ==
    ASSUME TypeOK, [Next]_vars
    PROVE  \/ PlainMove \/ ServiceEdited \/ Crash
           \/ \E k \in Masters :
                 \/ ensureInstanceGroup(k) \/ registerNewInstanceGroup(k)
                 \/ checkRegistrationOfBackend(k) \/ ReadBackends(k)
                 \/ updateBackendServiceWithInstanceGroup(k)
<1>1. CASE UNCHANGED vars
  BY SMTT(30), <1>1 DEF vars, PlainMove, sharedVars
<1> QED
  BY <1>1, PlainMoves DEF Next, Reconcile

\* One registering call at a time: where its reconcile goes, and what it
\* leaves alone.
LEMMA RegisterMoves ==
    ASSUME TypeOK, NEW k \in Masters,
           \/ ensureInstanceGroup(k) \/ registerNewInstanceGroup(k)
           \/ checkRegistrationOfBackend(k) \/ ReadBackends(k)
           \/ updateBackendServiceWithInstanceGroup(k)
    PROVE  /\ zone' = zone /\ groups \subseteq groups' /\ pc[k] # "idle"
           /\ \A j \in Masters \ {k} : pc'[j] = pc[j] /\ copy'[j] = copy[j]
           /\ \/ pc'[k] \in Plain
              \/ pc'[k] = "checkBackend" /\ zone[k] \in groups'
              \/ /\ pc[k] = "checkBackend" /\ pc'[k] = "readBackends"
                 /\ zone[k] \notin Registered(backends)
              \/ /\ pc[k] = "readBackends" /\ pc'[k] = "writeBackends"
                 /\ copy'[k] = backends
           /\ \/ backends' = backends /\ fresh' \subseteq fresh \cup {k}
              \/ /\ pc[k] = "writeBackends" /\ k \in fresh /\ pc'[k] \in Plain
                 /\ backends' = Append(copy[k], zone[k]) /\ fresh' = {}
           /\ fresh' \ fresh # {} => pc'[k] = "writeBackends"
<1> USE DEF TypeOK, Goto, Return, Plain, Steps, cloudVars
<1>1. CASE ensureInstanceGroup(k)
  BY <1>1 DEF ensureInstanceGroup
<1>2. CASE registerNewInstanceGroup(k)
  BY <1>2 DEF registerNewInstanceGroup
<1>3. CASE checkRegistrationOfBackend(k)
  BY <1>3 DEF checkRegistrationOfBackend
<1>4. CASE ReadBackends(k)
  BY <1>4 DEF ReadBackends
<1>5. CASE updateBackendServiceWithInstanceGroup(k)
  BY <1>5 DEF updateBackendServiceWithInstanceGroup, Overwrite, extendedBackends
<1> QED
  BY <1>1, <1>2, <1>3, <1>4, <1>5

\* Every step keeps the copies with a current fingerprint current.
LEMMA CopyStep == TypeOK /\ CopyInv /\ [Next]_vars => CopyInv'
<1> SUFFICES ASSUME TypeOK, CopyInv, [Next]_vars PROVE CopyInv'
  OBVIOUS
<1>1. CASE PlainMove
  <2>1. CASE UNCHANGED <<pc, copy>>
    BY <1>1, <2>1 DEF PlainMove, sharedVars, CopyInv
  <2>2. ASSUME NEW k \in Masters, NEW step \in Plain, pc' = [pc EXCEPT ![k] = step],
               copy' \in {copy, [copy EXCEPT ![k] = <<>>]}
        PROVE  CopyInv'
    <3>1. pc'[k] # "writeBackends"
      BY <2>2 DEF TypeOK, Plain
    <3>2. \A j \in Masters \ {k} : pc'[j] = pc[j] /\ copy'[j] = copy[j]
      BY <2>2 DEF TypeOK
    <3> QED
      BY <1>1, <3>1, <3>2 DEF PlainMove, sharedVars, CopyInv
  <2> QED
    BY <1>1, <2>1, <2>2 DEF PlainMove
<1>2. CASE ServiceEdited
  BY <1>2 DEF ServiceEdited, CopyInv
<1>3. CASE Crash
  BY <1>3 DEF Crash, CopyInv
<1>4. ASSUME NEW k \in Masters,
             \/ ensureInstanceGroup(k) \/ registerNewInstanceGroup(k)
             \/ checkRegistrationOfBackend(k) \/ ReadBackends(k)
             \/ updateBackendServiceWithInstanceGroup(k)
      PROVE  CopyInv'
  <2>1. CASE fresh' = {}
    BY <2>1 DEF CopyInv
  <2>2. CASE backends' = backends /\ fresh' \subseteq fresh \cup {k}
    <3>1. pc'[k] = "writeBackends" => copy'[k] = backends
      BY <1>4, RegisterMoves DEF Plain
    <3> QED
      <4>1. \A j \in Masters \ {k} : pc'[j] = pc[j] /\ copy'[j] = copy[j]
        BY <1>4, RegisterMoves
      <4> QED
        BY <2>2, <3>1, <4>1 DEF CopyInv
  <2> QED
    BY <1>4, <2>1, <2>2, RegisterMoves
<1> QED
  BY <1>1, <1>2, <1>3, <1>4, Moves

\* Every step keeps the groups that are listed or about to be in existence.
LEMMA GroupsStep == TypeOK /\ CopyInv /\ GroupsInv /\ [Next]_vars => GroupsInv'
<1> SUFFICES ASSUME TypeOK, CopyInv, GroupsInv, [Next]_vars PROVE GroupsInv'
  OBVIOUS
<1>1. CASE PlainMove
  <2>1. \A j \in Masters : pc'[j] \in Plain \/ pc'[j] = pc[j]
    BY <1>1 DEF PlainMove, TypeOK
  <2> QED
    BY <1>1, <2>1 DEF PlainMove, sharedVars, GroupsInv, BackendsExist
<1>2. CASE ServiceEdited
  BY <1>2 DEF ServiceEdited, GroupsInv, BackendsExist, reconcileVars
<1>3. CASE Crash
  BY <1>3 DEF Crash, GroupsInv, BackendsExist, Plain, Steps, cloudVars
<1>4. ASSUME NEW k \in Masters,
             \/ ensureInstanceGroup(k) \/ registerNewInstanceGroup(k)
             \/ checkRegistrationOfBackend(k) \/ ReadBackends(k)
             \/ updateBackendServiceWithInstanceGroup(k)
      PROVE  GroupsInv'
  <2>1. \A j \in Masters : pc'[j] \notin Plain => zone'[j] \in groups'
    BY <1>4, RegisterMoves DEF GroupsInv, Plain
  <2>2. Registered(backends') \subseteq groups'
    <3>1. CASE backends' = backends
      BY <1>4, <3>1, RegisterMoves DEF GroupsInv, BackendsExist
    <3>2. CASE /\ pc[k] = "writeBackends" /\ k \in fresh
               /\ backends' = Append(copy[k], zone[k])
      <4>1. /\ copy[k] = backends /\ zone[k] \in groups
            /\ backends \in Seq(Zones) /\ zone[k] \in Zones
        BY <3>2 DEF CopyInv, GroupsInv, TypeOK, Plain
      <4> QED
        <5>1. groups \subseteq groups'
          BY <1>4, RegisterMoves
        <5>2. Registered(backends') = Registered(backends) \cup {zone[k]}
          BY <3>2, <4>1, AppendBackend
        <5>3. Registered(backends) \subseteq groups
          BY DEF GroupsInv, BackendsExist
        <5> QED
          BY <4>1, <5>1, <5>2, <5>3
    <3> QED
      BY <1>4, <3>1, <3>2, RegisterMoves
  <2> QED
    BY <2>1, <2>2 DEF GroupsInv, BackendsExist
<1> QED
  BY <1>1, <1>2, <1>3, <1>4, Moves

\* Sets of machines are finite, and a subset is no larger.
LEMMA Count ==
    ASSUME NEW S, NEW T \in SUBSET Masters, S \subseteq T
    PROVE  /\ IsFiniteSet(S) /\ IsFiniteSet(T)
           /\ Cardinality(S) \in Nat /\ Cardinality(T) \in Nat
           /\ Cardinality(S) <= Cardinality(T)
  BY FS_Subset, FS_CardinalityType

\* No step has more reconciles in flight than there are workers.
LEMMA BusyStep ==
    TypeOK /\ Cardinality(Busy) <= Workers /\ [Next]_vars => Cardinality(Busy') <= Workers
<1> SUFFICES ASSUME TypeOK, Cardinality(Busy) <= Workers, [Next]_vars
             PROVE  Cardinality(Busy') <= Workers
  OBVIOUS
<1>a. Busy \in SUBSET Masters /\ Busy' \in SUBSET Masters
  BY DEF Busy
<1>s. Busy' \subseteq Busy => Cardinality(Busy') <= Workers
  BY <1>a, Count
<1>1. CASE PlainMove
  <2>1. CASE pc' = pc
    BY <1>s, <2>1 DEF Busy
  <2>2. ASSUME NEW k \in Masters, NEW step \in Plain, pc' = [pc EXCEPT ![k] = step],
               pc[k] # "idle" \/ Cardinality(Busy) < Workers
        PROVE  Cardinality(Busy') <= Workers
    <3>1. CASE pc[k] # "idle"
      BY <1>s, <2>2, <3>1 DEF Busy, TypeOK
    <3>2. CASE pc[k] = "idle"
      <4>1. Busy' \subseteq Busy \cup {k} /\ k \notin Busy
        BY <2>2, <3>2 DEF Busy, TypeOK
      <4>2. Cardinality(Busy \cup {k}) = Cardinality(Busy) + 1
        BY <1>a, <4>1, Count, FS_AddElement
      <4>3. Cardinality(Busy') <= Cardinality(Busy \cup {k})
        BY <1>a, <4>1, Count
      <4> QED
        BY <1>a, <2>2, <3>2, <4>2, <4>3, Count
    <3> QED
      BY <3>1, <3>2
  <2> QED
    BY <1>1, <2>1, <2>2 DEF PlainMove
<1>2. CASE ServiceEdited \/ Crash
  BY <1>2, <1>s DEF ServiceEdited, Crash, Busy, reconcileVars
<1>3. ASSUME NEW k \in Masters,
             \/ ensureInstanceGroup(k) \/ registerNewInstanceGroup(k)
             \/ checkRegistrationOfBackend(k) \/ ReadBackends(k)
             \/ updateBackendServiceWithInstanceGroup(k)
      PROVE  Cardinality(Busy') <= Workers
  <2>1. Busy' \subseteq Busy
    BY <1>3, RegisterMoves DEF Busy
  <2> QED
    BY <1>s, <2>1
<1> QED
  BY <1>1, <1>2, <1>3, Moves

\* A zone that is not registered has no place in the list.
LEMMA NowhereListed ==
    ASSUME NEW list, NEW z, z \notin Registered(list)
    PROVE  At(list, z) = {}
  BY DEF Registered, At

\* If the list is left alone and no reconcile of the zone begins to register,
\* the bound on its places stays.
LEMMA FewerPending ==
    ASSUME TypeOK, NEW z \in Zones, backends' = backends, Pending(z)' \subseteq Pending(z),
           Cardinality(At(backends, z)) + Cardinality(Pending(z)) <= Workers
    PROVE  Cardinality(At(backends, z)') + Cardinality(Pending(z)') <= Workers
<1>1. Pending(z) \in SUBSET Masters
  BY DEF Pending
<1>2. /\ Cardinality(Pending(z)') \in Nat /\ Cardinality(Pending(z)) \in Nat
      /\ Cardinality(Pending(z)') <= Cardinality(Pending(z))
  BY <1>1, Count
<1>3. At(backends, z)' = At(backends, z) /\ Cardinality(At(backends, z)) \in Nat
  BY AtFinite DEF TypeOK, At
<1> QED
  BY <1>2, <1>3

\* Listing a group takes one reconcile off the ones that are about to.
LEMMA PendingListed ==
    ASSUME TypeOK, NEW k \in Masters, NEW z \in Zones,
           pc[k] = "writeBackends", pc'[k] \in Plain, zone' = zone,
           \A j \in Masters \ {k} : pc'[j] = pc[j],
           backends' = Append(backends, zone[k]),
           Cardinality(At(backends, z)) + Cardinality(Pending(z)) <= Workers
    PROVE  Cardinality(At(backends, z)') + Cardinality(Pending(z)') <= Workers
<1>1. Pending(z)' = Pending(z) \ {k} /\ Pending(z) \in SUBSET Masters
  BY DEF Pending, Plain, Registering
<1>2. backends \in Seq(Zones) /\ zone[k] \in Zones
  BY DEF TypeOK
<1>3. /\ IsFiniteSet(Pending(z)) /\ Cardinality(Pending(z)) \in Nat
      /\ Cardinality(Pending(z)') \in Nat
  BY <1>1, Count
<1>4. IsFiniteSet(At(backends, z)) /\ Cardinality(At(backends, z)) \in Nat
  BY <1>2, AtFinite
<1>5. At(backends, z)' = At(backends', z)
  BY DEF At
<1>6. CASE zone[k] = z
  <2>1. k \in Pending(z)
    BY <1>6 DEF Pending, Registering
  <2>2. Cardinality(Pending(z)') = Cardinality(Pending(z)) - 1
    BY <1>1, <1>3, <2>1, FS_RemoveElement
  <2>3. At(backends, z)' = At(backends, z) \cup {Len(backends) + 1}
    BY <1>2, <1>5, <1>6, AppendBackend
  <2>a. Cardinality(At(backends, z)') \in {Cardinality(At(backends, z)), Cardinality(At(backends, z)) + 1}
    <3> DEFINE S == At(backends, z)
               x == Len(backends) + 1
    <3> HIDE DEF x
    <3>1. Cardinality(S \cup {x}) = IF x \in S THEN Cardinality(S) ELSE Cardinality(S) + 1
      BY <1>4, FS_AddElement
    <3>2. Cardinality(S \cup {x}) \in {Cardinality(S), Cardinality(S) + 1}
      BY <3>1
    <3> QED
      BY <2>3, <3>2 DEF x
  <2>4. Cardinality(At(backends, z)') <= Cardinality(At(backends, z)) + 1
    BY <1>4, <2>a
  <2>5. Cardinality(At(backends, z)') \in Nat
    BY SMTT(30), <1>4, <2>3, FS_AddElement, FS_CardinalityType
  <2> DEFINE a == Cardinality(At(backends, z))
             p == Cardinality(Pending(z))
             b == Cardinality(At(backends, z)')
             q == Cardinality(Pending(z)')
  <2>6. /\ a \in Nat /\ p \in Nat /\ b \in Nat /\ q \in Nat
        /\ q = p - 1 /\ b <= a + 1 /\ a + p <= Workers
    BY <1>3, <1>4, <2>2, <2>4, <2>5
  <2> HIDE DEF a, p, b, q
  <2>7. b + q <= Workers
    BY <2>6, ControlPlaneAssumption
  <2> QED
    BY <2>7 DEF b, q
<1>7. CASE zone[k] # z
  <2>1. At(backends, z)' = At(backends, z)
    BY <1>2, <1>5, <1>7, AppendBackend
  <2>2. Cardinality(Pending(z)') <= Cardinality(Pending(z))
    BY <1>1, Count
  <2> DEFINE a == Cardinality(At(backends, z))
             p == Cardinality(Pending(z))
             q == Cardinality(Pending(z)')
  <2>3. a \in Nat /\ p \in Nat /\ q \in Nat /\ q <= p /\ a + p <= Workers
    BY <1>3, <1>4, <2>2
  <2> HIDE DEF a, p, q
  <2>4. a + q <= Workers
    BY <2>3, ControlPlaneAssumption
  <2> QED
    BY <2>1, <2>4 DEF a, q
<1> QED
  BY <1>6, <1>7

\* Every step keeps the bound on the places of a group.
LEMMA BoundStep == TypeOK /\ CopyInv /\ BoundInv /\ [Next]_vars => BoundInv'
<1> SUFFICES ASSUME TypeOK, CopyInv, BoundInv, [Next]_vars, NEW z \in Zones
             PROVE  Cardinality(At(backends, z)') + Cardinality(Pending(z)') <= Workers
  BY BusyStep DEF BoundInv
<1>b. /\ Cardinality(At(backends, z)) + Cardinality(Pending(z)) <= Workers
      /\ Cardinality(Busy') <= Workers
  BY BusyStep DEF BoundInv
<1>1. CASE PlainMove
  <2>1. \A j \in Masters : pc'[j] \in Plain \/ pc'[j] = pc[j]
    BY <1>1 DEF PlainMove, TypeOK
  <2>2. backends' = backends /\ zone' = zone
    BY <1>1 DEF PlainMove, sharedVars
  <2>3. Pending(z)' \subseteq Pending(z)
    BY <2>1, <2>2 DEF Pending, Plain, Registering
  <2> QED
    BY <1>b, <2>2, <2>3, FewerPending
<1>2. CASE ServiceEdited \/ Crash
  <2>1. backends' = backends /\ Pending(z)' \subseteq Pending(z)
    BY <1>2 DEF ServiceEdited, Crash, Pending, Registering, reconcileVars, cloudVars
  <2> QED
    BY <1>b, <2>1, FewerPending
<1>3. ASSUME NEW k \in Masters,
             \/ ensureInstanceGroup(k) \/ registerNewInstanceGroup(k)
             \/ checkRegistrationOfBackend(k) \/ ReadBackends(k)
             \/ updateBackendServiceWithInstanceGroup(k)
      PROVE  Cardinality(At(backends, z)') + Cardinality(Pending(z)') <= Workers
  <2>1. CASE backends' # backends
    <3>1. pc[k] = "writeBackends" /\ pc'[k] \in Plain /\ backends' = Append(copy[k], zone[k])
          /\ k \in fresh
      BY <1>3, <2>1, RegisterMoves
    <3>2. copy[k] = backends
      BY SMTT(30), <3>1 DEF CopyInv
    <3>3. zone' = zone /\ \A j \in Masters \ {k} : pc'[j] = pc[j]
      BY <1>3, RegisterMoves
    <3> QED
      BY SMTT(30), <1>b, <3>1, <3>2, <3>3, PendingListed
  <2>2. CASE /\ backends' = backends /\ zone[k] = z
             /\ pc[k] = "checkBackend" /\ pc'[k] = "readBackends"
    <3>1. At(backends, z)' = {}
      <4>1. z \notin Registered(backends)
        BY <1>3, <2>2, RegisterMoves DEF Plain
      <4>2. At(backends, z)' = At(backends, z)
        BY <2>2 DEF At
      <4> QED
        BY <4>1, <4>2, NowhereListed
    <3>2. Pending(z)' \subseteq Busy' /\ Busy' \in SUBSET Masters
      BY DEF Pending, Busy, Registering
    <3>3. /\ Cardinality(Pending(z)') \in Nat /\ Cardinality(Busy') \in Nat
          /\ Cardinality(Pending(z)') <= Cardinality(Busy')
      BY <3>2, Count
    <3> QED
      BY <1>b, <3>1, <3>3, FS_EmptySet
  <2>3. CASE /\ backends' = backends
             /\ zone[k] # z \/ pc[k] # "checkBackend" \/ pc'[k] # "readBackends"
    <3>1. Pending(z)' \subseteq Pending(z)
      BY <1>3, <2>3, RegisterMoves DEF Pending, Plain, Registering
    <3> QED
      BY SMTT(30), <1>b, <2>3, <3>1, FewerPending
  <2> QED
    BY <2>1, <2>2, <2>3
<1> QED
  BY <1>1, <1>2, <1>3, Moves

\* The strengthened invariants hold initially: no reconcile has begun, and the
\* installation listed no group twice.
LEMMA RegistrationInit == Init => GroupsInv /\ CopyInv /\ BoundInv
<1> SUFFICES ASSUME Init PROVE GroupsInv /\ CopyInv /\ BoundInv
  OBVIOUS
<1>1. GroupsInv /\ CopyInv
  BY DEF Init, GroupsInv, CopyInv, BackendsExist, Plain, Steps
<1>2. Busy = {} /\ \A z \in Zones : Pending(z) = {}
  BY DEF Init, Busy, Pending, Registering
<1>3. ASSUME NEW z \in Zones PROVE Cardinality(At(backends, z)) <= 1
  <2>1. CASE At(backends, z) = {}
    BY <2>1, FS_EmptySet
  <2>2. CASE At(backends, z) # {}
    <3>1. PICK i \in At(backends, z) : TRUE
      BY <2>2
    <3>2. At(backends, z) = {i}
      BY <3>1 DEF At, Init
    <3> QED
      BY <3>2, FS_Singleton
  <2> QED
    BY <2>1, <2>2
<1>4. ASSUME NEW z \in Zones PROVE Cardinality(At(backends, z)) \in Nat
  BY TypeInit, AtFinite DEF TypeOK
<1>5. Cardinality({}) = 0
  BY FS_EmptySet
<1>6. \A z \in Zones : Cardinality(At(backends, z)) + Cardinality(Pending(z)) <= Workers
  <2> SUFFICES ASSUME NEW z \in Zones
               PROVE  Cardinality(At(backends, z)) + Cardinality(Pending(z)) <= Workers
    OBVIOUS
  <2>1. Cardinality(Pending(z)) = 0
    BY <1>2, <1>5
  <2>2. Cardinality(At(backends, z)) <= 1 /\ Cardinality(At(backends, z)) \in Nat
    BY <1>3, <1>4
  <2> QED
    BY <2>1, <2>2
<1> QED
  BY <1>1, <1>2, <1>5, <1>6 DEF BoundInv

\* The three strengthened invariants hold together with the types.
LEMMA RegistrationInv == Spec => [](TypeOK /\ GroupsInv /\ CopyInv /\ BoundInv)
<1>1. Init => TypeOK /\ GroupsInv /\ CopyInv /\ BoundInv
  BY TypeInit, RegistrationInit
<1>2. TypeOK /\ GroupsInv /\ CopyInv /\ BoundInv /\ [Next]_vars
        => (TypeOK /\ GroupsInv /\ CopyInv /\ BoundInv)'
  BY TypeStep, GroupsStep, CopyStep, BoundStep
<1> QED
  BY <1>1, <1>2, PTL DEF Spec

----------------------------------------------------------------------------
(***************************************************************************)
(* The members of the groups                                               *)
(***************************************************************************)

\* The calls a reconcile makes once it knows its group to be listed.
Joining == {"list", "add"}

\* Only groups that are listed have members or are about to get one.
ServeInv ==
    /\ MembersServe
    /\ \A k \in Masters : pc[k] \in Joining => zone[k] \in Registered(backends)

\* The call that replaces the list adds the group of the zone to it, and no
\* other call changes what is listed.
LEMMA ListGrows ==
    ASSUME TypeOK, CopyInv, [Next]_vars
    PROVE  \/ backends' = backends
           \/ \E k \in Masters :
                 /\ updateBackendServiceWithInstanceGroup(k) /\ pc[k] = "writeBackends"
                 /\ Registered(backends') = Registered(backends) \cup {zone[k]}
<1>1. CASE PlainMove \/ ServiceEdited \/ Crash
  BY <1>1 DEF PlainMove, ServiceEdited, Crash, sharedVars, cloudVars
<1>2. ASSUME NEW k \in Masters, updateBackendServiceWithInstanceGroup(k), backends' # backends
      PROVE  /\ pc[k] = "writeBackends"
             /\ Registered(backends') = Registered(backends) \cup {zone[k]}
  <2>1. k \in fresh /\ pc[k] = "writeBackends" /\ backends' = Append(copy[k], zone[k])
    BY <1>2 DEF updateBackendServiceWithInstanceGroup, Overwrite, extendedBackends
  <2>2. copy[k] = backends /\ backends \in Seq(Zones) /\ zone[k] \in Zones
    BY <2>1 DEF CopyInv, TypeOK
  <2>3. Registered(Append(backends, zone[k])) = Registered(backends) \cup {zone[k]}
    BY <2>2, AppendBackend
  <2> QED
    BY <2>1, <2>2, <2>3
<1>3. ASSUME NEW k \in Masters,
             \/ ensureInstanceGroup(k) \/ registerNewInstanceGroup(k)
             \/ checkRegistrationOfBackend(k) \/ ReadBackends(k)
      PROVE  backends' = backends
  BY <1>3 DEF ensureInstanceGroup, registerNewInstanceGroup, checkRegistrationOfBackend,
     ReadBackends, cloudVars
<1> QED
  BY <1>1, <1>2, <1>3, Moves

\* Who comes to have joined, or to be about to: a reconcile that was about to,
\* one that has found its group listed, or one that has just listed it.
LEMMA JoinMoves ==
    ASSUME TypeOK, [Next]_vars
    PROVE  /\ zone' = zone
           /\ members' \subseteq members \cup {k \in Masters : pc[k] \in Joining}
           /\ \A k \in Masters : pc'[k] \in Joining =>
                 \/ pc[k] \in Joining \/ zone[k] \in Registered(backends)
                 \/ /\ updateBackendServiceWithInstanceGroup(k)
                    /\ backends' = Append(copy[k], zone[k])
<1> USE DEF TypeOK, Goto, Return, Joining, cloudVars, reconcileVars
<1>1. ASSUME NEW k \in Masters,
             \/ StartUpdate(k) \/ ensureInstanceGroup(k) \/ registerNewInstanceGroup(k)
             \/ checkRegistrationOfBackend(k) \/ ReadBackends(k)
      PROVE  /\ zone' = zone /\ members' = members
             /\ \A j \in Masters : pc'[j] \in Joining =>
                   pc[j] \in Joining \/ zone[j] \in Registered(backends)
  BY <1>1 DEF StartUpdate, Begin, ensureInstanceGroup, registerNewInstanceGroup,
     checkRegistrationOfBackend, ReadBackends
<1>2. ASSUME NEW k \in Masters, updateBackendServiceWithInstanceGroup(k)
      PROVE  /\ zone' = zone /\ members' = members
             /\ pc'[k] \in Joining => backends' = Append(copy[k], zone[k])
             /\ \A j \in Masters \ {k} : pc'[j] = pc[j]
  BY <1>2 DEF updateBackendServiceWithInstanceGroup, Overwrite, extendedBackends
<1>3. ASSUME NEW k \in Masters,
             \/ ListBeforeAdd(k) \/ AddInstance(k) \/ ReadInstance(k) \/ StartDelete(k)
      PROVE  /\ zone' = zone /\ members' \subseteq members \cup {j \in Masters : pc[j] \in Joining}
             /\ \A j \in Masters : pc'[j] \in Joining => pc[j] \in Joining
  BY <1>3 DEF ListBeforeAdd, AddInstance, ReadInstance, StartDelete, Begin
<1>4. ASSUME NEW k \in Masters,
             \/ ListBeforeRemove(k) \/ RemoveInstance(k) \/ DeleteInstance(k) \/ Release(k)
      PROVE  /\ zone' = zone /\ members' \subseteq members
             /\ \A j \in Masters : pc'[j] \in Joining => pc[j] \in Joining
  BY <1>4 DEF ListBeforeRemove, RemoveInstance, DeleteInstance, Release
<1>5. ASSUME NEW k \in Masters, Environment(k)
      PROVE  zone' = zone /\ members' \subseteq members /\ pc' = pc
  BY <1>5 DEF Environment, OwnerDeletes, InstanceStarts, InstanceVanishes,
     DeleteOperationFails, RequestForgotten, Interference
<1>6. CASE ServiceEdited \/ Crash \/ UNCHANGED vars
  BY <1>6 DEF ServiceEdited, Crash, vars
<1> QED
  BY <1>1, <1>2, <1>3, <1>4, <1>5, <1>6 DEF Next, Reconcile

\* Every step keeps the members behind the service.
LEMMA ServeStep == TypeOK /\ CopyInv /\ ServeInv /\ [Next]_vars => ServeInv'
<1> SUFFICES ASSUME TypeOK, CopyInv, ServeInv, [Next]_vars PROVE ServeInv'
  OBVIOUS
<1>1. Registered(backends) \subseteq Registered(backends')
  BY ListGrows
<1>2. zone' = zone /\ members' \subseteq members \cup {k \in Masters : pc[k] \in Joining}
  BY JoinMoves
<1>3. ASSUME NEW k \in Masters, pc'[k] \in Joining PROVE zone[k] \in Registered(backends')
  <2>1. CASE pc[k] \in Joining \/ zone[k] \in Registered(backends)
    BY <1>1, <2>1 DEF ServeInv
  <2>2. CASE backends' = Append(copy[k], zone[k])
    <3>1. copy[k] \in Seq(Zones) /\ zone[k] \in Zones
      BY DEF TypeOK
    <3> QED
      BY <2>2, <3>1, AppendBackend
  <2> QED
    BY <1>3, <2>1, <2>2, JoinMoves
<1>4. ASSUME NEW k \in members' PROVE zone[k] \in Registered(backends')
  BY <1>1, <1>2 DEF ServeInv, MembersServe
<1> QED
  BY <1>2, <1>3, <1>4 DEF ServeInv, MembersServe

\* A registering call is a step of the contract or invisible to it.
LEMMA RegisterImplements ==
    ASSUME TypeOK, CopyInv, GroupsInv, [Next]_vars, NEW k \in Masters,
           \/ ensureInstanceGroup(k) \/ registerNewInstanceGroup(k)
           \/ checkRegistrationOfBackend(k) \/ ReadBackends(k)
           \/ updateBackendServiceWithInstanceGroup(k)
    PROVE  [Service!Next]_(Service!vars)
<1>z. zone' = zone
  BY RegisterMoves
<1>1. CASE ensureInstanceGroup(k) \/ checkRegistrationOfBackend(k) \/ ReadBackends(k)
  BY <1>1 DEF ensureInstanceGroup, checkRegistrationOfBackend, ReadBackends, cloudVars,
     Service!vars
<1>2. CASE registerNewInstanceGroup(k)
  <2>1. /\ UNCHANGED <<zone, backends, members>>
        /\ groups' = groups \/ (zone[k] \notin groups /\ groups' = groups \cup {zone[k]})
    BY <1>2 DEF registerNewInstanceGroup
  <2>2. CASE groups' = groups
    BY <2>1, <2>2 DEF Service!vars
  <2>3. CASE zone[k] \notin groups /\ groups' = groups \cup {zone[k]}
    <3>1. Service!CreateGroup(k)
      BY <2>1, <2>3 DEF Service!CreateGroup
    <3> QED
      BY <3>1 DEF Service!Next
  <2> QED
    BY <2>1, <2>2, <2>3
<1>3. CASE updateBackendServiceWithInstanceGroup(k)
  <2>1. UNCHANGED <<zone, groups, members>>
    BY <1>3 DEF updateBackendServiceWithInstanceGroup
  <2>2. CASE backends' = backends
    BY <2>1, <2>2 DEF Service!vars
  <2>3. CASE backends' # backends
    <3>1. PICK j \in Masters : /\ pc[j] = "writeBackends"
                               /\ Registered(backends') = Registered(backends) \cup {zone[j]}
      BY <2>3, ListGrows
    <3>2. zone[j] \in groups
      BY <3>1 DEF GroupsInv, Plain
    <3>3. Service!List(j)
      BY <2>1, <3>1, <3>2 DEF Service!List
    <3> QED
      BY <3>3 DEF Service!Next
  <2> QED
    BY <2>2, <2>3
<1> QED
  BY <1>1, <1>2, <1>3

\* The calls that change the members are steps of the contract, all others are
\* invisible to it.
LEMMA MembersImplement ==
    ASSUME TypeOK, ServeInv, NEW k \in Masters,
           \/ AddInstance(k) \/ RemoveInstance(k) \/ InstanceVanishes(k)
    PROVE  [Service!Next]_(Service!vars)
<1>1. UNCHANGED <<zone, groups, backends>>
  BY DEF AddInstance, RemoveInstance, InstanceVanishes
<1>2. CASE members' = members
  BY <1>1, <1>2 DEF Service!vars
<1>3. CASE pc[k] = "add" /\ members' = members \cup {k}
  <2>1. zone[k] \in Registered(backends)
    BY <1>3 DEF ServeInv, Joining
  <2>2. Service!Join(k)
    BY <1>1, <1>3, <2>1 DEF Service!Join
  <2> QED
    BY <2>2 DEF Service!Next
<1>4. CASE members' = members \ {k}
  <2>1. Service!Leave(k)
    BY <1>1, <1>4 DEF Service!Leave
  <2> QED
    BY <2>1 DEF Service!Next
<1>5. \/ members' \in {members, members \ {k}}
      \/ pc[k] = "add" /\ members' = members \cup {k}
  BY DEF AddInstance, RemoveInstance, InstanceVanishes
<1> QED
  BY <1>2, <1>3, <1>4, <1>5

\* Every step is one of the contract or invisible to it.
LEMMA ServiceStep ==
    TypeOK /\ CopyInv /\ GroupsInv /\ ServeInv /\ [Next]_vars => [Service!Next]_(Service!vars)
<1> SUFFICES ASSUME TypeOK, CopyInv, GroupsInv, ServeInv, [Next]_vars
             PROVE  [Service!Next]_(Service!vars)
  OBVIOUS
<1>1. ASSUME NEW k \in Masters, Reconcile(k) PROVE [Service!Next]_(Service!vars)
  <2>1. CASE \/ ensureInstanceGroup(k) \/ registerNewInstanceGroup(k)
             \/ checkRegistrationOfBackend(k) \/ ReadBackends(k)
             \/ updateBackendServiceWithInstanceGroup(k)
    BY <2>1, RegisterImplements
  <2>2. CASE AddInstance(k) \/ RemoveInstance(k)
    BY <2>2, MembersImplement
  <2>3. CASE \/ StartUpdate(k) \/ ListBeforeAdd(k) \/ ReadInstance(k) \/ StartDelete(k)
             \/ ListBeforeRemove(k) \/ DeleteInstance(k) \/ Release(k)
    BY <2>3 DEF StartUpdate, ListBeforeAdd, ReadInstance, StartDelete, ListBeforeRemove,
       DeleteInstance, Release, cloudVars, Service!vars
  <2> QED
    BY <1>1, <2>1, <2>2, <2>3 DEF Reconcile
<1>2. ASSUME NEW k \in Masters, Environment(k) PROVE [Service!Next]_(Service!vars)
  <2>1. CASE InstanceVanishes(k)
    BY <2>1, MembersImplement
  <2>2. CASE \/ OwnerDeletes(k) \/ InstanceStarts(k) \/ DeleteOperationFails(k)
             \/ RequestForgotten(k) \/ Interference(k)
    BY <2>2 DEF OwnerDeletes, InstanceStarts, DeleteOperationFails, RequestForgotten,
       Interference, cloudVars, Service!vars
  <2> QED
    BY <1>2, <2>1, <2>2 DEF Environment
<1>3. CASE ServiceEdited \/ Crash \/ UNCHANGED vars
  BY <1>3 DEF ServiceEdited, Crash, vars, cloudVars, Service!vars
<1> QED
  BY <1>1, <1>2, <1>3 DEF Next

----------------------------------------------------------------------------
(***************************************************************************)
(* The theorems                                                            *)
(***************************************************************************)

\* Every backend of the service is a group that exists
\* (registerNewInstanceGroup returns its error before the list is touched).
THEOREM OnlyExistingBackends == Spec => []BackendsExist
<1>1. GroupsInv => BackendsExist
  BY DEF GroupsInv
<1> QED
  BY <1>1, RegistrationInv, PTL

\* No group is listed more often than there are workers, whatever fails: the
\* reconciles that have found it missing are as many at most
\* (ensureInstanceGroup).
THEOREM FewDuplicates == Spec => []BackendsBounded
<1>1. TypeOK /\ BoundInv => BackendsBounded
  <2> SUFFICES ASSUME TypeOK, BoundInv, NEW z \in Zones
               PROVE  Cardinality(Occurrences(z)) <= Workers
    BY DEF BackendsBounded
  <2>1. Occurrences(z) = At(backends, z)
    BY DEF Occurrences, At
  <2>2. Cardinality(At(backends, z)) \in Nat
    BY AtFinite DEF TypeOK
  <2>3. Pending(z) \in SUBSET Masters
    BY DEF Pending
  <2>4. Cardinality(Pending(z)) \in Nat
    BY <2>3, Count
  <2> QED
    BY <2>1, <2>2, <2>4 DEF BoundInv
<1> QED
  BY <1>1, RegistrationInv, PTL

\* No registration loses a backend: the list is only replaced by a copy whose
\* fingerprint is current, extended by one group
\* (updateBackendServiceWithInstanceGroup).
THEOREM NoBackendLost == Spec => BackendsKept
<1>1. TypeOK /\ CopyInv /\ [Next]_vars => [Registered(backends) \subseteq Registered(backends')]_vars
  <2> SUFFICES ASSUME TypeOK, CopyInv, [Next]_vars
               PROVE  Registered(backends) \subseteq Registered(backends')
    OBVIOUS
  <2>1. CASE PlainMove \/ ServiceEdited \/ Crash
    BY <2>1 DEF PlainMove, ServiceEdited, Crash, sharedVars, cloudVars
  <2>2. ASSUME NEW k \in Masters, k \in fresh, pc[k] = "writeBackends",
               backends' = Append(copy[k], zone[k])
        PROVE  Registered(backends) \subseteq Registered(backends')
    <3>1. copy[k] = backends /\ backends \in Seq(Zones) /\ zone[k] \in Zones
      BY <2>2 DEF CopyInv, TypeOK
    <3> QED
      BY ZenonT(60), <2>2, <3>1, AppendBackend
  <2>3. CASE backends' = backends
    BY <2>3
  <2> QED
    BY <2>1, <2>2, <2>3, Moves, RegisterMoves
<1> QED
  BY <1>1, RegistrationInv, PTL DEF Spec, BackendsKept

\* The members invariant holds together with the others.
LEMMA ServingInv == Spec => [](TypeOK /\ GroupsInv /\ CopyInv /\ ServeInv)
<1>1. Init => ServeInv
  BY DEF Init, ServeInv, MembersServe, Joining
<1>2. TypeOK /\ CopyInv /\ ServeInv /\ [Next]_vars => ServeInv'
  BY ServeStep
<1> QED
  BY <1>1, <1>2, RegistrationInv, PTL DEF Spec

\* An instance is only in a group that is behind the service
\* (registerInstanceToControlPlaneInstanceGroup).
THEOREM MembersAreServed == Spec => []MembersServe
<1>1. ServeInv => MembersServe
  BY DEF ServeInv
<1> QED
  BY <1>1, ServingInv, PTL

\* The reconciles implement the contract with the load balancer: groups are
\* created, listed and joined in this order, and nothing is taken back but the
\* membership of an instance (registerInstanceToControlPlaneInstanceGroup).
THEOREM ServiceContractKept == Spec => KeepsServiceContract
<1>1. Init => Service!Init
  BY DEF Init, Service!Init
<1>2. TypeOK /\ GroupsInv /\ CopyInv /\ ServeInv /\ [Next]_vars => [Service!Next]_(Service!vars)
  BY ServiceStep
<1> QED
  BY <1>1, <1>2, ServingInv, PTL DEF Spec, KeepsServiceContract, Service!Spec
=============================================================================
