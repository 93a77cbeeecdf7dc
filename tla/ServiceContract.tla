-------------------------- MODULE ServiceContract --------------------------
(***************************************************************************)
(* What the reconciles of control plane machines promise to the load       *)
(* balancer of the API, without calls, copies, workers or failures: groups *)
(* are created, then put behind the service, then filled, and none of them *)
(* is ever taken away again.                                               *)
(***************************************************************************)
CONSTANT Masters  \* the control plane machines

VARIABLES
    zone,     \* the zone of each machine
    groups,   \* the zones whose instance group exists
    listed,   \* the zones whose instance group is behind the service
    members   \* the machines whose instance is in the group of its zone

vars == <<zone, groups, listed, members>>

Init == groups = listed /\ members = {}

CreateGroup(k) ==
    /\ zone[k] \notin groups /\ groups' = groups \cup {zone[k]}
    /\ UNCHANGED <<zone, listed, members>>

List(k) ==
    /\ zone[k] \in groups /\ listed' = listed \cup {zone[k]}
    /\ UNCHANGED <<zone, groups, members>>

Join(k) ==
    /\ zone[k] \in listed /\ members' = members \cup {k}
    /\ UNCHANGED <<zone, groups, listed>>

Leave(k) == members' = members \ {k} /\ UNCHANGED <<zone, groups, listed>>

Next == \E k \in Masters : CreateGroup(k) \/ List(k) \/ Join(k) \/ Leave(k)

Spec == Init /\ [][Next]_vars
=============================================================================
