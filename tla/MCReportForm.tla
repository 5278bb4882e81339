----------------------------- MODULE MCReportForm -----------------------------
(***************************************************************************)
(* Bodies for TLC: all permissions given and taken. Accounts are alike.    *)
(***************************************************************************)
EXTENDS ReportForm, TLC

PermissionBodies == {[name |-> Keep, role |-> Keep, ads |-> ads] : ads \in {{}, Accounts}}

AccountSymmetry == Permutations(Accounts)
=============================================================================
