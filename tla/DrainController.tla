-------------------------- MODULE DrainController --------------------------
(***************************************************************************)
(* The machine-drain-controller with several control plane machines: one   *)
(* worker that cordons and empties the Nodes of deleted machines, one      *)
(* control plane Node at a time, and reads machines and the other Nodes    *)
(* from caches that may lag.  One action is one call with the code up to the next one. *)
(*                                                                         *)
(* A machine is deleted here when its deletion timestamp and its Deleting  *)
(* phase are stored; what comes before and after the drain of one machine  *)
(* is the subject of MachineLifecycle.                                     *)
(***************************************************************************)
EXTENDS Naturals, FiniteSets

CONSTANTS
    Machines,    \* the control plane machines; each names its Node too
    NoMachine,   \* the worker has none
    Lags,        \* whether the caches may lag: a set of Booleans
    Hooked,      \* the machines with a pre-drain hook
    Excluded,    \* the machines with the exclude-node-draining annotation
    Linked,      \* the machines with a nodeRef
    MaxFaults    \* bound on failed calls, crashes and outside changes

ASSUME DrainAssumption ==
    /\ IsFiniteSet(Machines) /\ NoMachine \notin Machines
    /\ Lags \subseteq BOOLEAN
    /\ Hooked \subseteq Machines /\ Excluded \subseteq Machines /\ Linked \subseteq Machines
    /\ MaxFaults \in Nat

VARIABLES
    lag,       \* the caches of Machines and Nodes may lag
    deleted,   \* the machines that are being deleted
    hooks,     \* the machines whose pre-drain hook is still there
    drained,   \* the machines whose Drained condition is true
    nodes,     \* the Nodes that exist
    cordoned,  \* the Nodes that are unschedulable
    ours,      \* the ones of them that the controller made so
    emptied,   \* the Nodes whose pods have been evicted
    seen,      \* the unschedulable Nodes in the cache
    known,     \* the machines whose Drained condition is true in the cache
    pc,        \* the next call of the worker
    cur,       \* the machine it is reconciling
    faults     \* disturbances still to come

machineVars == <<deleted, hooks, drained>>
nodeVars == <<nodes, cordoned, ours, emptied>>
cacheVars == <<seen, known>>
workerVars == <<pc, cur>>
vars == <<lag, deleted, hooks, drained, nodes, cordoned, ours, emptied, seen, known,
          pc, cur, faults>>

Steps == {"idle", "get", "list", "cordon", "evict", "patch"}

TypeOK ==
    /\ lag \in BOOLEAN
    /\ deleted \subseteq Machines /\ hooks \subseteq Hooked /\ drained \subseteq deleted
    /\ nodes \subseteq Machines /\ cordoned \subseteq nodes /\ ours \subseteq cordoned
    /\ emptied \subseteq Machines /\ seen \subseteq Machines /\ known \subseteq Machines
    /\ pc \in Steps /\ cur \in Machines \cup {NoMachine}
    /\ (pc = "idle") <=> (cur = NoMachine)
    /\ faults \in 0..MaxFaults

Init ==
    /\ lag \in Lags
    /\ deleted = {} /\ hooks = Hooked /\ drained = {}
    /\ nodes = Linked /\ cordoned = {} /\ ours = {} /\ emptied = {}
    /\ seen = {} /\ known = {}
    /\ pc = "idle" /\ cur = NoMachine /\ faults = MaxFaults

----------------------------------------------------------------------------
Disturbance == faults > 0 /\ faults' = faults - 1

Goto(step) == pc' = step /\ UNCHANGED cur

\* Reconcile returns; the workqueue brings the machine back after an error.
Return == pc' = "idle" /\ cur' = NoMachine

\* Variant: the pre-drain hook is not looked at.
hookIgnored(m) == FALSE

\* A pre-drain hook keeps the drain from beginning.
blockedByHook(m) == m \in hooks

\* The cache says that the machine is drained.
alreadyDrained(m) == m \in IF lag THEN known ELSE drained

\* Reconcile reads the machine.  A drain that is excluded or has no Node to
\* be made on is skipped; a blocked machine is left alone.  That the cache has
\* not heard of the deletion or of a removed hook yet only keeps the drain
\* waiting.
Reconcile(m) ==
    /\ pc = "idle" /\ m \in deleted /\ ~alreadyDrained(m)
    /\ LET skipped == m \in Excluded \/ m \notin Linked
       IN /\ skipped \/ ~blockedByHook(m)
          /\ pc' = IF skipped THEN "patch" ELSE "get"
    /\ cur' = m
    /\ UNCHANGED <<lag, machineVars, nodeVars, cacheVars, faults>>

\* Variant: a Node that is cordoned already has to wait as any other.
cordonedMayContinue == FALSE

\* A Node that is cordoned already is drained on.
mayContinue == cur \in cordoned

\* drainNode gets the Node from the API server.
GetNode ==
    /\ pc = "get"
    /\ \/ cur \notin nodes /\ Goto("patch") /\ UNCHANGED faults
       \/ /\ cur \in nodes
          /\ Goto(IF mayContinue THEN "evict" ELSE "list") /\ UNCHANGED faults
       \/ Return /\ Disturbance
    /\ UNCHANGED <<lag, machineVars, nodeVars, cacheVars>>

\* Variant: other control plane Nodes do not matter.
alwaysAllowed == TRUE

\* The Nodes that the cache says are unschedulable, the own one included.
isDrainAllowed == (IF lag THEN seen ELSE cordoned) = {}

ListNodes ==
    /\ pc = "list"
    /\ \/ isDrainAllowed /\ Goto("cordon") /\ UNCHANGED faults
       \/ ~isDrainAllowed /\ Return /\ UNCHANGED faults
       \/ Return /\ Disturbance
    /\ UNCHANGED <<lag, machineVars, nodeVars, cacheVars>>

\* RunCordonOrUncordon patches the Node, which may be gone; with a lost
\* answer the Node is cordoned and the reconcile ends.
Cordon ==
    /\ pc = "cordon"
    /\ LET cordons == /\ cur \in nodes /\ cordoned' = cordoned \cup {cur}
                      /\ ours' = IF cur \in cordoned THEN ours ELSE ours \cup {cur}
       IN \/ cordons /\ Goto("evict") /\ UNCHANGED faults
          \/ cordons /\ Return /\ Disturbance
          \/ cur \notin nodes /\ Return /\ UNCHANGED <<cordoned, ours, faults>>
          \/ Return /\ Disturbance /\ UNCHANGED <<cordoned, ours>>
    /\ UNCHANGED <<lag, machineVars, nodes, emptied, cacheVars>>

\* Variant: pods that could not be evicted are passed over.
evictionFailedPatches == Goto("patch")

\* Pods are left after the timeout, or an eviction is refused.
evictionFailed == Return

\* RunNodeDrain.
Evict ==
    /\ pc = "evict"
    /\ \/ emptied' = emptied \cup {cur} /\ Goto("patch") /\ UNCHANGED faults
       \/ evictionFailed /\ Disturbance /\ UNCHANGED emptied
    /\ UNCHANGED <<lag, machineVars, nodes, cordoned, ours, cacheVars>>

\* The Drained condition is stored; its answer may be lost.
PatchDrained ==
    /\ pc = "patch"
    /\ \/ drained' = drained \cup {cur} /\ UNCHANGED faults
       \/ drained' \in {drained, drained \cup {cur}} /\ Disturbance
    /\ Return
    /\ UNCHANGED <<lag, deleted, hooks, nodeVars, cacheVars>>

Drain == GetNode \/ ListNodes \/ Cordon \/ Evict \/ PatchDrained

----------------------------------------------------------------------------
(***************************************************************************)
(* The others                                                              *)
(***************************************************************************)

\* The machine controller stores Deleting.
MachineDeleted(m) ==
    /\ m \notin deleted /\ deleted' = deleted \cup {m}
    /\ UNCHANGED <<lag, hooks, drained, nodeVars, cacheVars, workerVars, faults>>

HookRemoved(m) ==
    /\ m \in hooks /\ hooks' = hooks \ {m}
    /\ UNCHANGED <<lag, deleted, drained, nodeVars, cacheVars, workerVars, faults>>

\* updateStatus of the machine controller sends the conditions of a stale
\* copy and takes the Drained condition back.
ConditionTakenBack(m) ==
    /\ Disturbance /\ m \in drained /\ drained' = drained \ {m}
    /\ UNCHANGED <<lag, deleted, hooks, nodeVars, cacheVars, workerVars>>

Remove(m) ==
    /\ m \in nodes /\ nodes' = nodes \ {m}
    /\ cordoned' = cordoned \ {m} /\ ours' = ours \ {m}
    /\ UNCHANGED <<lag, machineVars, emptied, cacheVars, workerVars>>

\* The machine controller deletes the instance and then the Node of a drained
\* machine; somebody may delete a Node before.
NodeRemoved(m) == m \in drained /\ Remove(m) /\ UNCHANGED faults
NodeLost(m) == Disturbance /\ Remove(m)

\* An administrator cordons or uncordons a Node.
AdminCordons(m) ==
    /\ Disturbance /\ m \in nodes \ cordoned /\ cordoned' = cordoned \cup {m}
    /\ UNCHANGED <<lag, machineVars, nodes, ours, emptied, cacheVars, workerVars>>
AdminUncordons(m) ==
    /\ Disturbance /\ m \in cordoned
    /\ cordoned' = cordoned \ {m} /\ ours' = ours \ {m}
    /\ UNCHANGED <<lag, machineVars, nodes, emptied, cacheVars, workerVars>>

WatchDelivers ==
    /\ lag
    /\ \/ seen # cordoned /\ seen' = cordoned /\ UNCHANGED known
       \/ known # drained /\ known' = drained /\ UNCHANGED seen
    /\ UNCHANGED <<lag, machineVars, nodeVars, workerVars, faults>>

\* The manager dies; the next one fills its caches before it begins.
Crash ==
    /\ pc # "idle" /\ Disturbance /\ Return /\ seen' = cordoned /\ known' = drained
    /\ UNCHANGED <<lag, machineVars, nodeVars>>

Others(m) ==
    \/ MachineDeleted(m) \/ HookRemoved(m) \/ ConditionTakenBack(m)
    \/ NodeRemoved(m) \/ NodeLost(m) \/ AdminCordons(m) \/ AdminUncordons(m)

Next ==
    \/ \E m \in Machines : Reconcile(m) \/ Others(m)
    \/ Drain \/ WatchDelivers \/ Crash

Spec == Init /\ [][Next]_vars

\* A reconcile goes on, and the workqueue gives every machine its turn, the
\* ones that come back after an error included.  Hooks are removed, drained
\* machines lose their Node and the watch delivers.
FairSpec ==
    /\ Spec
    /\ WF_vars(Drain) /\ WF_vars(WatchDelivers)
    /\ \A m \in Machines :
          /\ SF_vars(Reconcile(m)) /\ WF_vars(HookRemoved(m))
          /\ WF_vars(NodeRemoved(m))

----------------------------------------------------------------------------
(***************************************************************************)
(* Properties                                                              *)
(***************************************************************************)

\* The controller has at most one control plane Node cordoned, although it
\* looks at the Nodes in one call and cordons in another, may lose the answer
\* or the process in between, and drains on what it finds cordoned
\* (isDrainAllowed).  With a cache that lags it may have several.
OneAtATime == ~lag => Cardinality(ours) <= 1

\* The controller cordons and empties only the Node of a machine that is
\* deleted, without hook and not excluded from draining (Reconcile), although
\* it looks at the machine once and acts on it calls later.
EvictedOnlyWhenDue == ours \cup emptied \subseteq deleted \ (hooks \cup Excluded)

\* Drained is claimed of a Node only when its pods have been evicted or it is
\* gone, unless the drain is to be skipped (drainNode); the machine controller
\* deletes the instance on the strength of it.
DrainedIsEmpty == \A m \in (drained \cap Linked) \ Excluded : m \in emptied \/ m \notin nodes

\* All deleted machines come to be drained, however many wait for one another
\* and whatever was left half done, unless a Node that nobody is about to
\* remove is cordoned (isDrainAllowed).
DrainsComplete ==
    <>[](\A m \in deleted : m \in drained \/ cordoned \ deleted # {})
=============================================================================
