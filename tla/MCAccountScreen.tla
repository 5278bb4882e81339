--------------------------- MODULE MCAccountScreen ---------------------------
(***************************************************************************)
(* Bodies for TLC: every body that the screen can send.                    *)
(***************************************************************************)
EXTENDS AccountScreen

ScreenBodies == [name : Names, role : Roles, ads : SUBSET Accounts]
=============================================================================
