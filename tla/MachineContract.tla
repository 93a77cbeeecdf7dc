-------------------------- MODULE MachineContract --------------------------
(***************************************************************************)
(* What the deletion of a Machine promises to its owner, without           *)
(* controllers, copies, calls or failures: once it is under way nothing    *)
(* new is provisioned, and the object goes when everything it stands for   *)
(* has gone.                                                               *)
(***************************************************************************)

VARIABLES
    stage,     \* "held", "asked" to go, "leaving", "gone"
    ready,     \* it is drained and no pre-terminate hook is left
    instance,  \* GCP has its instance
    attached   \* its Node exists and is linked

vars == <<stage, ready, instance, attached>>

Init == stage = "held" /\ ready = FALSE /\ instance = FALSE /\ attached = FALSE

Ask == stage = "held" /\ stage' = "asked" /\ UNCHANGED <<ready, instance, attached>>

\* Conditions are stored together with the phase.
Leave ==
    /\ stage = "asked" /\ stage' = "leaving" /\ ready' \in BOOLEAN
    /\ UNCHANGED <<instance, attached>>

ReadyChanges ==
    /\ stage # "gone" /\ ready' = ~ready
    /\ UNCHANGED <<stage, instance, attached>>

\* A create may be under way when the owner asks.
Provision ==
    /\ stage \in {"held", "asked"} /\ ~instance /\ instance' = TRUE
    /\ UNCHANGED <<stage, ready, attached>>

Vanish == instance /\ instance' = FALSE /\ UNCHANGED <<stage, ready, attached>>

Attach ==
    /\ stage # "gone" /\ ~attached /\ attached' = TRUE
    /\ UNCHANGED <<stage, ready, instance>>

Detach ==
    /\ stage = "leaving" /\ ~instance /\ attached /\ attached' = FALSE
    /\ UNCHANGED <<stage, ready, instance>>

Release ==
    /\ stage = "leaving" /\ ready /\ ~instance /\ ~attached /\ stage' = "gone"
    /\ UNCHANGED <<ready, instance, attached>>

\* An object no controller has taken up yet goes at once.
Abandon ==
    /\ stage = "held" /\ ~instance /\ ~attached /\ stage' = "gone"
    /\ UNCHANGED <<ready, instance, attached>>

Next ==
    \/ Ask \/ Leave \/ ReadyChanges \/ Provision \/ Vanish \/ Attach \/ Detach
    \/ Release \/ Abandon

Spec == Init /\ [][Next]_vars

\* Who asks is heard.
FairSpec == Spec /\ (stage = "asked" ~> stage = "gone")
=============================================================================
