------------------------ MODULE MCDrainController ------------------------
(***************************************************************************)
(* Three machines for small instances of DrainController, which are alike  *)
(* but for the hook and for one that is excluded.                          *)
(***************************************************************************)
EXTENDS DrainController

CONSTANTS a, b, c
=============================================================================
