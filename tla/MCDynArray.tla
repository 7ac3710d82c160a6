----------------------------- MODULE MCDynArray -----------------------------
(* The values of DynArray's constants for TLC.                             *)
EXTENDS DynArray

MCKey == <<2, 1, 3, 2, 1>>
=============================================================================
