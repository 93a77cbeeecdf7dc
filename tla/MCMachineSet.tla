---------------------------- MODULE MCMachineSet ----------------------------
(***************************************************************************)
(* Small instances of MachineSetController.                                *)
(***************************************************************************)
EXTENDS MachineSetController

CONSTANTS n1, t2a, nosuch
=============================================================================
