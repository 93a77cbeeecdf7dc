------------------------ MODULE MCMachineLifecycle ------------------------
(***************************************************************************)
(* Small instances of MachineLifecycle: provider specs that name one of    *)
(* two zones, a zone GCP does not know or a project it does not know, and  *)
(* one that validateMachine refuses.                                       *)
(***************************************************************************)
EXTENDS MachineLifecycle

CONSTANTS zoneA, zoneB, badZone, badProject

GoodSpec == [place |-> zoneA, wellFormed |-> TRUE]
OtherZoneSpec == [place |-> zoneB, wellFormed |-> TRUE]
BadZoneSpec == [place |-> badZone, wellFormed |-> TRUE]
BadProjectSpec == [place |-> badProject, wellFormed |-> TRUE]
MalformedSpec == [place |-> zoneA, wellFormed |-> FALSE]

Good == {GoodSpec}
Malformed == {MalformedSpec}
BadProject == {BadProjectSpec}
BadZone == {BadZoneSpec}
GoodOrBadZone == {GoodSpec, BadZoneSpec}
GoodOrOtherZone == {GoodSpec, OtherZoneSpec}
GoodOrUnreachable == {GoodSpec, BadZoneSpec, BadProjectSpec, MalformedSpec}
=============================================================================
