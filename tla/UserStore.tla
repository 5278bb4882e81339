------------------------------ MODULE UserStore ------------------------------
(***************************************************************************)
(* What internal-api promises of the requests that manage users, however   *)
(* many are under way together: each of them takes effect at one instant   *)
(* between its arrival and its answer, at most once and as a whole, or not *)
(* at all. In that instant it sees the rows as they are and changes        *)
(* nothing but what it says; rows of ad_accounts come and change beside    *)
(* the requests and never go away.                                         *)
(***************************************************************************)
CONSTANTS Users, Accounts, Requests, Keep, Patches

VARIABLES
    row, perms, account,   \* the tables, as in UserAdmin
    order                  \* what each request has still to do

storeVars == <<row, perms, account, order>>

Nothing == [op |-> "nothing"]

Orders ==
    [op : {"create"}, body : Patches] \cup [op : {"update"}, target : Users, body : Patches]
        \cup [op : {"delete"}, target : Users]

StoreInit == order = [p \in Requests |-> Nothing]

IsLive(u) == row[u].state = "live"

\* The accounts that a body gives to a user.
Given(b) == IF b.ads = Keep THEN {} ELSE b.ads

Known(b) == \A a \in Given(b) : account[a] # "absent"

\* An admin may send an order.
Arrive(p) ==
    /\ order[p] = Nothing
    /\ \E u \in Users : IsLive(u) /\ row[u].role = "admin"
    /\ \E o \in Orders : order' = [order EXCEPT ![p] = o]
    /\ UNCHANGED <<row, perms, account>>

Close(p) == order' = [order EXCEPT ![p] = Nothing]

\* A user that was not there before, with all that the body says.
Create(p) ==
    LET b == order[p].body
    IN  /\ order[p].op = "create"
        /\ Known(b)
        /\ \E u \in Users :
            /\ row[u].state = "absent"
            /\ row' = [row EXCEPT ![u] = [state |-> "live", name |-> b.name, role |-> b.role]]
            /\ perms' = [perms EXCEPT ![u] = b.ads]
        /\ Close(p)
        /\ UNCHANGED account

\* The fields of the body, and all others as they are at this instant.
Patched(r, b) ==
    [r EXCEPT !.name = IF b.name = Keep THEN @ ELSE b.name,
              !.role = IF b.role = Keep THEN @ ELSE b.role]

Update(p) ==
    LET b == order[p].body
        u == order[p].target
    IN  /\ order[p].op = "update"
        /\ IsLive(u)
        /\ Known(b)
        /\ row' = [row EXCEPT ![u] = Patched(@, b)]
        /\ perms' = [perms EXCEPT ![u] = IF b.ads = Keep THEN @ ELSE b.ads]
        /\ Close(p)
        /\ UNCHANGED account

Delete(p) ==
    LET u == order[p].target
    IN  /\ order[p].op = "delete"
        /\ IsLive(u)
        /\ row' = [row EXCEPT ![u].state = "deleted"]
        /\ Close(p)
        /\ UNCHANGED <<perms, account>>

\* Requests that are refused or fail, one or, with the process, all.
GiveUp ==
    /\ \E S \in SUBSET Requests :
           order' = [p \in Requests |-> IF p \in S THEN Nothing ELSE order[p]]
    /\ UNCHANGED <<row, perms, account>>

\* The batch writes to ad_accounts.
ChangeAccounts ==
    /\ account' \in [Accounts -> {"absent", "live", "deleted"}]
    /\ \A a \in Accounts : account[a] # "absent" => account'[a] # "absent"
    /\ UNCHANGED <<row, perms, order>>

StoreNext ==
    \/ \E p \in Requests : Arrive(p) \/ Create(p) \/ Update(p) \/ Delete(p)
    \/ GiveUp
    \/ ChangeAccounts

StoreSpec == StoreInit /\ [][StoreNext]_storeVars
=============================================================================
