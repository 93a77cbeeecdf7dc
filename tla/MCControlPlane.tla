-------------------------- MODULE MCControlPlane --------------------------
(***************************************************************************)
(* Two machines for small instances of ControlPlane.                       *)
(***************************************************************************)
EXTENDS ControlPlane

CONSTANTS a, b, installed, added

\* Both in the zone the installer set up, both in another, one in each.
AllPlacements ==
    {[k \in Masters |-> z] : z \in Zones} \cup {[k \in Masters |-> IF k = a THEN installed ELSE added]}

InstalledOnly == <<installed>>
=============================================================================
