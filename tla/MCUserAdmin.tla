----------------------------- MODULE MCUserAdmin -----------------------------
(***************************************************************************)
(* Bodies for TLC: each field alone, and all of them together.             *)
(***************************************************************************)
EXTENDS UserAdmin

CONSTANTS n1, n2, a1

Body(name, role, ads) == [name |-> name, role |-> role, ads |-> ads]

FieldBodies ==
    {Body(n1, Keep, Keep), Body(n2, Keep, Keep),
     Body(Keep, "admin", Keep), Body(Keep, "member", Keep),
     Body(Keep, Keep, {}), Body(Keep, Keep, {a1}), Body(n2, "member", {a1})}
=============================================================================
