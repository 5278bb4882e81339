------------------------------ MODULE UserAdmin ------------------------------
(***************************************************************************)
(* The handlers of internal-api that manage users (POST, PATCH and DELETE  *)
(* /user) as concurrent requests against the tables users,             *)
(* user_ad_account_permissions and ad_accounts, with the batch writing     *)
(* ad_accounts beside them. A request reads its user once, checks with one *)
(* query and writes with another, so that requests interleave between its  *)
(* steps; the transaction of UpdateUser holds the lock of its row from     *)
(* SELECT ... FOR UPDATE to the commit, and shows its writes to the others *)
(* only then. Any call to MySQL can fail, before or after its effect.      *)
(***************************************************************************)
EXTENDS FiniteSets

CONSTANTS
    Users,            \* the ids of users, those still to be created included
    InitialAdmins,    \* the users of 003_seed_users.sql with role admin
    InitialMembers,   \* and those with role member
    Accounts,         \* the ids of ad accounts
    Names,            \* the names a user can have: trimmed, not empty, 50 characters at most
    Requests,         \* the requests to manage users that can be in flight together
    NoRequest,        \* who holds the lock of a row when no request does
    Keep,             \* a field that the body of a PATCH leaves out
    Patches           \* the bodies that are sent: a name, a role and a set of accounts, or Keep

Roles == {"admin", "member"}

ASSUME UserAdminAssumption ==
    /\ InitialAdmins \subseteq Users
    /\ InitialMembers \subseteq Users \ InitialAdmins
    /\ NoRequest \notin Requests
    /\ Keep \notin Names \cup Roles
    /\ \A ads \in SUBSET Accounts : Keep # ads
    /\ Patches \subseteq [name : {Keep} \cup Names, role : {Keep} \cup Roles,
                          ads : {Keep} \cup SUBSET Accounts]

VARIABLES
    row,       \* the rows of users
    perms,     \* the rows of user_ad_account_permissions, by user
    account,   \* the rows of ad_accounts: absent, live, or is_deleted
    rowLock,   \* the request whose transaction locks the row of a user
    req        \* the requests: where each stands, with what it needs from there on

adminVars == <<row, perms, account, rowLock, req>>

Rows == [state : {"absent", "live", "deleted"}, name : Names, role : Roles]

Idle == [pc |-> "idle"]

\* The body of a POST has every field.
WholeBodies == {b \in Patches : b.name # Keep /\ b.role # Keep /\ b.ads # Keep}

Creating == [pc : {"checkCreate", "insert"}, body : WholeBodies]

Updating == [pc : {"checkUpdate", "read"}, target : Users, body : Patches]

Writing == [pc : {"write"}, target : Users, body : Patches, seen : Rows]

Deleting == [pc : {"delete"}, target : Users]

AdminTypeOK ==
    /\ row \in [Users -> Rows]
    /\ perms \in [Users -> SUBSET Accounts]
    /\ account \in [Accounts -> {"absent", "live", "deleted"}]
    /\ rowLock \in [Users -> Requests \cup {NoRequest}]
    /\ req \in [Requests -> {Idle} \cup Creating \cup Updating \cup Writing \cup Deleting]

Live(u) == row[u].state = "live"

Seeds == InitialAdmins \cup InitialMembers

\* The seeds have permissions before the batch has inserted any account: 003
\* switches the check of foreign keys off.
AdminInit ==
    /\ \E n \in Names :
        row = [u \in Users |->
                  [state |-> IF u \in Seeds THEN "live" ELSE "absent",
                   name |-> n,
                   role |-> IF u \in InitialAdmins THEN "admin" ELSE "member"]]
    /\ perms = [u \in Users |-> IF u \in Seeds THEN Accounts ELSE {}]
    /\ account = [a \in Accounts |-> "absent"]
    /\ rowLock = [u \in Users |-> NoRequest]
    /\ req = [p \in Requests |-> Idle]

-----------------------------------------------------------------------------

Become(p, r) == req' = [req EXCEPT ![p] = r]

\* The handler answers, whatever the answer.
Finish(p) == Become(p, Idle)

\* The end of a transaction: MySQL frees the row it locked.
Unlock(p) == rowLock' = [u \in Users |-> IF rowLock[u] = p THEN NoRequest ELSE rowLock[u]]

\* A call fails without effect: the handler answers 500, a transaction rolls back.
CallFails(p) ==
    /\ req[p] # Idle
    /\ Finish(p)
    /\ Unlock(p)
    /\ UNCHANGED <<row, perms, account>>

\* withUser and requireAdmin for the user that the header names. What they read of
\* that user is never read again.
MayManage(actor) == Live(actor) /\ row[actor].role = "admin"

\* Mutant: the body of a POST is taken as it is decoded.
BeginCreateUnvalidated(p, b) ==
    /\ b.ads # Keep
    /\ Become(p, [pc |-> "checkCreate", body |-> b])

BeginCreate(p, b) ==
    /\ b \in WholeBodies
    /\ Become(p, [pc |-> "checkCreate", body |-> b])

BeginUpdate(p, u, b) ==
    Become(p, [pc |-> IF b.ads = Keep THEN "read" ELSE "checkUpdate", target |-> u, body |-> b])

BeginDelete(p, u) == Become(p, [pc |-> "delete", target |-> u])

\* Anyone may send a request; one that may not manage users is answered at once.
Send(p) ==
    /\ req[p] = Idle
    /\ \E actor \in Users : MayManage(actor)
    /\ \/ \E b \in Patches : BeginCreate(p, b)
       \/ \E u \in Users, b \in Patches : BeginUpdate(p, u, b)
       \/ \E u \in Users : BeginDelete(p, u)
    /\ UNCHANGED <<row, perms, account, rowLock>>

MissingAdAccountIDs(ads) == {a \in ads : account[a] # "live"}

\* ensureAdAccountsExist: every account of the body has a row that is not deleted.
CheckAccounts(p) ==
    /\ req[p].pc \in {"checkCreate", "checkUpdate"}
    /\ IF MissingAdAccountIDs(req[p].body.ads) = {}
       THEN Become(p, [req[p] EXCEPT !.pc = IF @ = "checkCreate" THEN "insert" ELSE "read"])
       ELSE Finish(p)
    /\ UNCHANGED <<row, perms, account, rowLock>>

Write(p) ==
    [pc |-> "write", target |-> req[p].target, body |-> req[p].body, seen |-> row[req[p].target]]

\* Mutant: the SELECT of UpdateUser has no FOR UPDATE.
SelectUnlocked(p) ==
    /\ req[p].pc = "read"
    /\ IF Live(req[p].target)
       THEN Become(p, Write(p))
       ELSE Finish(p)
    /\ UNCHANGED <<row, perms, account, rowLock>>

\* The SELECT ... FOR UPDATE of UpdateUser, which waits for the row.
SelectForUpdate(p) ==
    /\ req[p].pc = "read"
    /\ rowLock[req[p].target] = NoRequest
    /\ IF Live(req[p].target)
       THEN Become(p, Write(p)) /\ rowLock' = [rowLock EXCEPT ![req[p].target] = p]
       ELSE Finish(p) /\ UNCHANGED rowLock
    /\ UNCHANGED <<row, perms, account>>

Field(given, old) == IF given = Keep THEN old ELSE given

Exists(a) == account[a] # "absent"

\* Every INSERT of replacePermissionsTx needs the account's row.
ForeignKeys(ads) == \A a \in (IF ads = Keep THEN {} ELSE ads) : Exists(a)

\* Mutant: the caller commits although replacePermissionsTx failed.
TryPermissions(u, ads) ==
    UNCHANGED perms \/ (ForeignKeys(ads) /\ perms' = [perms EXCEPT ![u] = ads])

\* replacePermissionsTx: DELETE and INSERT in the transaction of the caller.
ReplacePermissions(u, ads) ==
    /\ ForeignKeys(ads)
    /\ perms' = [perms EXCEPT ![u] = ads]

\* The rest of the transaction: name and role are both written, as read or as
\* given, and the permissions replaced when the body has them.
CommitUpdate(p) ==
    LET u == req[p].target
        b == req[p].body
    IN  /\ req[p].pc = "write"
        /\ row' = [row EXCEPT ![u].name = Field(b.name, req[p].seen.name),
                              ![u].role = Field(b.role, req[p].seen.role)]
        /\ IF b.ads = Keep THEN UNCHANGED perms ELSE ReplacePermissions(u, b.ads)
        /\ Unlock(p)
        /\ Finish(p)
        /\ UNCHANGED account

\* One transaction inserts the user and the permissions, under an id of its own.
CreateUser(p) ==
    LET b == req[p].body
    IN  /\ req[p].pc = "insert"
        /\ \E u \in Users :
            /\ row[u].state = "absent"
            /\ row' = [row EXCEPT ![u] = [state |-> "live", name |-> b.name, role |-> b.role]]
            /\ ReplacePermissions(u, b.ads)
        /\ Finish(p)
        /\ UNCHANGED <<account, rowLock>>

\* One UPDATE, which waits for the row as well.
SoftDeleteUser(p) ==
    LET u == req[p].target
    IN  /\ req[p].pc = "delete"
        /\ rowLock[u] = NoRequest
        /\ IF Live(u)
           THEN row' = [row EXCEPT ![u].state = "deleted"]
           ELSE UNCHANGED row
        /\ Finish(p)
        /\ UNCHANGED <<perms, account, rowLock>>

Serve(p) ==
    \/ CheckAccounts(p) \/ SelectForUpdate(p) \/ CommitUpdate(p) \/ CreateUser(p)
    \/ SoftDeleteUser(p) \/ CallFails(p)

-----------------------------------------------------------------------------
\* The batch and the process.

\* syncAccounts inserts an account, or brings it back.
UpsertAccount(a) ==
    /\ account' = [account EXCEPT ![a] = "live"]
    /\ UNCHANGED <<row, perms, rowLock, req>>

\* Mutant: the batch removes the row of an account that the medium dropped.
DeleteAccount(a) ==
    /\ account[a] = "live"
    /\ account' = [account EXCEPT ![a] = "absent"]
    /\ UNCHANGED <<row, perms, rowLock, req>>

\* and sets is_deleted of an account that the medium does not have any more.
SoftDeleteAccount(a) ==
    /\ account[a] = "live"
    /\ account' = [account EXCEPT ![a] = "deleted"]
    /\ UNCHANGED <<row, perms, rowLock, req>>

SyncAccounts == \E a \in Accounts : UpsertAccount(a) \/ SoftDeleteAccount(a)

\* internal-api restarts: every request dies, and its transaction with it.
Restart ==
    /\ req' = [p \in Requests |-> Idle]
    /\ rowLock' = [u \in Users |-> NoRequest]
    /\ UNCHANGED <<row, perms, account>>

AdminNext ==
    \/ \E p \in Requests : Send(p) \/ Serve(p)
    \/ SyncAccounts
    \/ Restart

AdminSpec == AdminInit /\ [][AdminNext]_adminVars

-----------------------------------------------------------------------------
\* Properties.

\* A PATCH changes no field that its body leaves out, although it writes name and
\* role as it read them, and other requests may change them in between.
KeepsOtherFields ==
    [][\A p \in Requests :
        req[p].pc = "write" /\ req'[p] # req[p] /\ row' # row =>
            LET u == req[p].target
                b == req[p].body
            IN  /\ b.name = Keep => row'[u].name = row[u].name
                /\ b.role = Keep => row'[u].role = row[u].role]_adminVars

\* A deleted user stays as it was deleted: no request that saw it alive writes to
\* it, and its permissions stay with it.
FrozenAfterDelete ==
    [][\A u \in Users :
        row[u].state = "deleted" => row'[u] = row[u] /\ perms'[u] = perms[u]]_adminVars

\* The foreign key to ad_accounts never refuses a permission that passed
\* ensureAdAccountsExist, whatever the batch does after that check.
ForeignKeyNeverRefuses ==
    \A p \in Requests : req[p].pc \in {"write", "insert"} => ForeignKeys(req[p].body.ads)

\* The order that a request has still to carry out, of what UserStore knows.
OrderOf(r) ==
    CASE r.pc \in {"checkCreate", "insert"} -> [op |-> "create", body |-> r.body]
      [] r.pc \in {"checkUpdate", "read", "write"} ->
             [op |-> "update", target |-> r.target, body |-> r.body]
      [] r.pc = "delete" -> [op |-> "delete", target |-> r.target]
      [] OTHER -> [op |-> "nothing"]

Store == INSTANCE UserStore WITH order <- [p \in Requests |-> OrderOf(req[p])]

\* Each request takes effect at one instant, as if it ran alone, or not at all: the
\* query that checks, the one that locks and those that write can be taken for one.
KeepsStore == Store!StoreSpec
=============================================================================
