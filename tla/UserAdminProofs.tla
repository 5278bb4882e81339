--------------------------- MODULE UserAdminProofs ---------------------------
(***************************************************************************)
(* What the handlers that manage users keep, for any number of users,      *)
(* accounts and concurrent requests. Two facts carry it: no row of         *)
(* ad_accounts ever goes away, so that a check of the accounts stays true  *)
(* as far as the foreign keys go; and a request that has read a row still  *)
(* holds its lock when it writes.                                          *)
(***************************************************************************)
EXTENDS UserAdmin, TLAPS

-----------------------------------------------------------------------------
\* Types.

RequestStates == {Idle} \cup Creating \cup Updating \cup Writing \cup Deleting

LEMMA BecomeType ==
    ASSUME AdminTypeOK, NEW p \in Requests, NEW r \in RequestStates, Become(p, r)
    PROVE  /\ req' \in [Requests -> RequestStates]
           /\ req'[p] = r
           /\ \A q \in Requests \ {p} : req'[q] = req[q]
  BY DEF AdminTypeOK, RequestStates, Become

LEMMA UnlockType ==
    ASSUME AdminTypeOK, NEW p \in Requests, Unlock(p)
    PROVE  /\ rowLock' \in [Users -> Requests \cup {NoRequest}]
           /\ \A u \in Users : rowLock[u] # p => rowLock'[u] = rowLock[u]
  BY DEF AdminTypeOK, Unlock

\* What the place of a request says of its other fields.
LEMMA RequestShape ==
    ASSUME NEW r \in RequestStates
    PROVE  /\ r.pc \in {"checkCreate", "insert"} => r \in Creating /\ r.body \in WholeBodies
           /\ r.pc \in {"checkUpdate", "read"} =>
                  r \in Updating /\ r.target \in Users /\ r.body \in Patches
           /\ r.pc = "write" =>
                  r \in Writing /\ r.target \in Users /\ r.body \in Patches /\ r.seen \in Rows
           /\ r.pc = "delete" => r \in Deleting /\ r.target \in Users
  BY DEF RequestStates, Idle, Creating, Updating, Writing, Deleting, WholeBodies

\* The fields of a body.
LEMMA BodyShape ==
    ASSUME NEW b \in Patches
    PROVE  /\ b.name \in {Keep} \cup Names
           /\ b.role \in {Keep} \cup Roles
           /\ b.ads \in {Keep} \cup SUBSET Accounts
  BY UserAdminAssumption

LEMMA AdminTypeInit == AdminInit => AdminTypeOK
  <1>. SUFFICES ASSUME AdminInit
                PROVE  AdminTypeOK
    OBVIOUS
  <1>1. row \in [Users -> Rows]
    BY DEF AdminInit, Rows, Roles
  <1>2. /\ perms \in [Users -> SUBSET Accounts]
        /\ account \in [Accounts -> {"absent", "live", "deleted"}]
        /\ rowLock \in [Users -> Requests \cup {NoRequest}]
        /\ req \in [Requests -> {Idle} \cup Creating \cup Updating \cup Writing \cup Deleting]
    BY DEF AdminInit
  <1>. QED  BY <1>1, <1>2 DEF AdminTypeOK

LEMMA AdminTypeStep ==
    ASSUME AdminTypeOK, [AdminNext]_adminVars
    PROVE  AdminTypeOK'
  <1>. /\ row \in [Users -> Rows]
       /\ perms \in [Users -> SUBSET Accounts]
       /\ account \in [Accounts -> {"absent", "live", "deleted"}]
       /\ rowLock \in [Users -> Requests \cup {NoRequest}]
       /\ req \in [Requests -> RequestStates]
    BY DEF AdminTypeOK, RequestStates
  <1>i. Idle \in RequestStates
    BY DEF RequestStates
  <1>t. (/\ row' \in [Users -> Rows]
         /\ perms' \in [Users -> SUBSET Accounts]
         /\ account' \in [Accounts -> {"absent", "live", "deleted"}]
         /\ rowLock' \in [Users -> Requests \cup {NoRequest}]
         /\ req' \in [Requests -> RequestStates]) => AdminTypeOK'
    BY DEF AdminTypeOK, RequestStates
  <1>1. ASSUME NEW p \in Requests, Send(p)
        PROVE  AdminTypeOK'
    <2>1. \E r \in RequestStates : Become(p, r)
      <3>1. ASSUME NEW b \in Patches, BeginCreate(p, b)
            PROVE  \E r \in RequestStates : Become(p, r)
        BY <3>1 DEF BeginCreate, RequestStates, Creating
      <3>2. ASSUME NEW u \in Users, NEW b \in Patches, BeginUpdate(p, u, b)
            PROVE  \E r \in RequestStates : Become(p, r)
        BY <3>2 DEF BeginUpdate, RequestStates, Updating
      <3>3. ASSUME NEW u \in Users, BeginDelete(p, u)
            PROVE  \E r \in RequestStates : Become(p, r)
        BY <3>3 DEF BeginDelete, RequestStates, Deleting
      <3>. QED  BY <1>1, <3>1, <3>2, <3>3 DEF Send
    <2>. QED  BY <1>1, <1>t, <2>1, BecomeType DEF Send
  <1>2. ASSUME NEW p \in Requests, CheckAccounts(p)
        PROVE  AdminTypeOK'
    <2>1. CASE Finish(p)
      BY <1>2, <1>i, <1>t, <2>1, BecomeType DEF CheckAccounts, Finish
    <2>2. CASE Become(p, [req[p] EXCEPT !.pc = IF @ = "checkCreate" THEN "insert" ELSE "read"])
      <3>1. [req[p] EXCEPT !.pc = IF @ = "checkCreate" THEN "insert" ELSE "read"] \in RequestStates
        <4>1. CASE req[p] \in Creating /\ req[p].pc = "checkCreate"
          BY <4>1 DEF RequestStates, Creating
        <4>2. CASE req[p] \in Updating /\ req[p].pc = "checkUpdate"
          BY <4>2 DEF RequestStates, Updating
        <4>. QED  BY <1>2, <4>1, <4>2, RequestShape DEF CheckAccounts
      <3>. QED  BY <1>2, <1>t, <2>2, <3>1, BecomeType DEF CheckAccounts
    <2>. QED  BY <1>2, <2>1, <2>2 DEF CheckAccounts
  <1>3. ASSUME NEW p \in Requests, SelectForUpdate(p)
        PROVE  AdminTypeOK'
    <2>1. CASE Finish(p) /\ UNCHANGED rowLock
      BY <1>3, <1>i, <1>t, <2>1, BecomeType DEF SelectForUpdate, Finish
    <2>2. CASE Become(p, Write(p)) /\ rowLock' = [rowLock EXCEPT ![req[p].target] = p]
      <3>1. req[p].target \in Users /\ req[p].body \in Patches
        BY <1>3, RequestShape DEF SelectForUpdate
      <3>2. Write(p) \in RequestStates
        BY <3>1 DEF Write, RequestStates, Writing
      <3>. QED  BY <1>3, <1>t, <2>2, <3>2, BecomeType DEF SelectForUpdate
    <2>. QED  BY <1>3, <2>1, <2>2 DEF SelectForUpdate
  <1>4. ASSUME NEW p \in Requests, CommitUpdate(p)
        PROVE  AdminTypeOK'
    <2>1. /\ req[p].target \in Users /\ req[p].body \in Patches /\ req[p].seen \in Rows
      BY <1>4, RequestShape DEF CommitUpdate
    <2>2. /\ Field(req[p].body.name, req[p].seen.name) \in Names
          /\ Field(req[p].body.role, req[p].seen.role) \in Roles
      BY <2>1, BodyShape DEF Field, Rows
    <2>3. row' \in [Users -> Rows]
      BY <1>4, <2>1, <2>2 DEF CommitUpdate, Rows
    <2>4. perms' \in [Users -> SUBSET Accounts]
      BY <1>4, <2>1, BodyShape DEF CommitUpdate, ReplacePermissions
    <2>. QED  BY <1>4, <1>i, <1>t, <2>3, <2>4, BecomeType, UnlockType DEF CommitUpdate, Finish
  <1>5. ASSUME NEW p \in Requests, CreateUser(p)
        PROVE  AdminTypeOK'
    <2>1. req[p].body \in WholeBodies
      BY <1>5, RequestShape DEF CreateUser
    <2>2. /\ req[p].body.name \in Names /\ req[p].body.role \in Roles
          /\ req[p].body.ads \in SUBSET Accounts
      BY <2>1, BodyShape DEF WholeBodies
    <2>3. row' \in [Users -> Rows] /\ perms' \in [Users -> SUBSET Accounts]
      BY <1>5, <2>2 DEF CreateUser, ReplacePermissions, Rows
    <2>. QED  BY <1>5, <1>i, <1>t, <2>3, BecomeType DEF CreateUser, Finish
  <1>6. ASSUME NEW p \in Requests, SoftDeleteUser(p)
        PROVE  AdminTypeOK'
    <2>1. row' \in [Users -> Rows]
      BY <1>6 DEF SoftDeleteUser, Rows
    <2>. QED  BY <1>6, <1>i, <1>t, <2>1, BecomeType DEF SoftDeleteUser, Finish
  <1>7. ASSUME NEW p \in Requests, CallFails(p)
        PROVE  AdminTypeOK'
    BY <1>7, <1>i, <1>t, BecomeType, UnlockType DEF CallFails, Finish
  <1>8. CASE SyncAccounts
    BY <1>8, <1>t DEF SyncAccounts, UpsertAccount, SoftDeleteAccount
  <1>9. CASE Restart
    BY <1>9, <1>i, <1>t DEF Restart
  <1>10. CASE UNCHANGED adminVars
    BY <1>10, <1>t DEF adminVars
  <1>. QED
    BY <1>1, <1>2, <1>3, <1>4, <1>5, <1>6, <1>7, <1>8, <1>9, <1>10 DEF AdminNext, Serve

-----------------------------------------------------------------------------
\* The lock of a row.

\* A request between SELECT ... FOR UPDATE and its commit holds the lock of its row,
\* which is alive and as the request saw it.
LockedInv ==
    \A p \in Requests :
        req[p].pc = "write" =>
            /\ rowLock[req[p].target] = p
            /\ row[req[p].target] = req[p].seen
            /\ Live(req[p].target)

\* A step of one request leaves the others where they are, and the rows they lock.
LEMMA ServeFrame ==
    ASSUME AdminTypeOK, LockedInv, NEW p \in Requests, Send(p) \/ Serve(p),
           NEW q \in Requests \ {p}
    PROVE  /\ req'[q] = req[q]
           /\ req[q].pc = "write" =>
                  /\ rowLock'[req[q].target] = q
                  /\ row'[req[q].target] = row[req[q].target]
  <1>. /\ req \in [Requests -> RequestStates]
       /\ row \in [Users -> Rows]
       /\ rowLock \in [Users -> Requests \cup {NoRequest}]
    BY DEF AdminTypeOK, RequestStates
  <1>1. req'[q] = req[q]
    BY DEF Send, BeginCreate, BeginUpdate, BeginDelete, Serve, CheckAccounts, SelectForUpdate,
           CommitUpdate, CreateUser, SoftDeleteUser, CallFails, Become, Finish
  <1>2. ASSUME req[q].pc = "write"
        PROVE  /\ rowLock'[req[q].target] = q
               /\ row'[req[q].target] = row[req[q].target]
    <2>1. /\ req[q].target \in Users /\ rowLock[req[q].target] = q
          /\ row[req[q].target].state = "live"
      BY <1>2, RequestShape DEF LockedInv, Live
    <2>2. CASE UNCHANGED <<row, rowLock>>
      BY <2>1, <2>2
    <2>3. CASE SelectForUpdate(p)
      BY <2>1, <2>3, UserAdminAssumption DEF SelectForUpdate
    <2>4. CASE CommitUpdate(p)
      <3>1. req[p].pc = "write"
        BY <2>4 DEF CommitUpdate
      <3>2. req[p].target \in Users /\ rowLock[req[p].target] = p
        BY <3>1, RequestShape DEF LockedInv
      <3>3. req[p].target # req[q].target
        BY <2>1, <3>2
      <3>. QED  BY <2>1, <2>4, <3>3, UnlockType DEF CommitUpdate
    <2>5. CASE CreateUser(p)
      BY <2>1, <2>5 DEF CreateUser
    <2>6. CASE SoftDeleteUser(p)
      BY <2>1, <2>6, UserAdminAssumption DEF SoftDeleteUser
    <2>7. CASE CallFails(p)
      BY <2>1, <2>7, UnlockType DEF CallFails
    <2>. QED
      BY <2>2, <2>3, <2>4, <2>5, <2>6, <2>7 DEF Send, Serve, CheckAccounts
  <1>. QED  BY <1>1, <1>2

\* The step that makes a request ready to write is the SELECT that takes the lock.
LEMMA LockedByRequest ==
    ASSUME AdminTypeOK, NEW p \in Requests, Send(p) \/ Serve(p), req'[p].pc = "write"
    PROVE  /\ rowLock'[req'[p].target] = p
           /\ row'[req'[p].target] = req'[p].seen
           /\ row'[req'[p].target].state = "live"
  <1>. /\ req \in [Requests -> RequestStates]
       /\ rowLock \in [Users -> Requests \cup {NoRequest}]
    BY DEF AdminTypeOK, RequestStates
  <1>1. CASE Send(p)
    BY <1>1 DEF Send, BeginCreate, BeginUpdate, BeginDelete, Become
  <1>2. CASE Finish(p)
    BY <1>2 DEF Finish, Become, Idle
  <1>3. CASE CheckAccounts(p)
    <2>1. CASE Become(p, [req[p] EXCEPT !.pc = IF @ = "checkCreate" THEN "insert" ELSE "read"])
      <3>1. req[p] \in Creating \cup Updating
        BY <1>3, RequestShape DEF CheckAccounts
      <3>2. [req[p] EXCEPT !.pc = IF @ = "checkCreate" THEN "insert" ELSE "read"].pc # "write"
        BY <3>1 DEF Creating, Updating
      <3>. QED  BY <2>1, <3>2 DEF Become
    <2>. QED  BY <1>2, <1>3, <2>1 DEF CheckAccounts
  <1>4. CASE SelectForUpdate(p)
    <2>1. CASE Live(req[p].target) /\ Become(p, Write(p)) /\ UNCHANGED row
                /\ rowLock' = [rowLock EXCEPT ![req[p].target] = p]
      <3>1. req[p].target \in Users
        BY <1>4, RequestShape DEF SelectForUpdate
      <3>2. req'[p] = Write(p)
        BY <2>1 DEF Become
      <3>. QED  BY <2>1, <3>1, <3>2 DEF Write, Live
    <2>. QED  BY <1>2, <1>4, <2>1 DEF SelectForUpdate
  <1>. QED
    BY <1>1, <1>2, <1>3, <1>4 DEF Serve, CommitUpdate, CreateUser, SoftDeleteUser, CallFails

LEMMA LockedStep ==
    ASSUME AdminTypeOK, LockedInv, [AdminNext]_adminVars
    PROVE  LockedInv'
  <1>1. ASSUME NEW p \in Requests, Send(p) \/ Serve(p)
        PROVE  LockedInv'
    BY <1>1, ServeFrame, LockedByRequest DEF LockedInv, Live
  <1>2. CASE SyncAccounts \/ UNCHANGED adminVars
    BY <1>2 DEF SyncAccounts, UpsertAccount, SoftDeleteAccount, adminVars, LockedInv, Live
  <1>3. CASE Restart
    BY <1>3 DEF Restart, LockedInv, Idle
  <1>. QED  BY <1>1, <1>2, <1>3 DEF AdminNext

-----------------------------------------------------------------------------
\* The foreign keys.

\* What CheckAccounts let through has the rows that the foreign keys ask for; a PATCH
\* that skips it has no accounts.
CheckedInv ==
    \A p \in Requests :
        req[p].pc \in {"read", "write", "insert"} => ForeignKeys(req[p].body.ads)

\* No row of ad_accounts goes away.
LEMMA AccountsStay ==
    ASSUME AdminTypeOK, [AdminNext]_adminVars,
           NEW ads \in {Keep} \cup SUBSET Accounts, ForeignKeys(ads)
    PROVE  ForeignKeys(ads)'
  <1>1. ASSUME NEW a \in Accounts, account[a] # "absent"
        PROVE  account'[a] # "absent"
    <2>1. CASE SyncAccounts
      BY <1>1, <2>1 DEF SyncAccounts, UpsertAccount, SoftDeleteAccount, AdminTypeOK
    <2>2. CASE UNCHANGED account
      BY <1>1, <2>2
    <2>. QED
      BY <2>1, <2>2 DEF AdminNext, Send, Serve, CheckAccounts, SelectForUpdate, CommitUpdate,
                        CreateUser, SoftDeleteUser, CallFails, Restart, adminVars
  <1>. QED  BY <1>1 DEF ForeignKeys, Exists

\* Where a request comes to be past its check: it was so before, CheckAccounts found
\* every account alive, or its body has none.
LEMMA CheckedByRequest ==
    ASSUME AdminTypeOK, CheckedInv, NEW p \in Requests, Send(p) \/ Serve(p),
           req'[p].pc \in {"read", "write", "insert"}
    PROVE  req'[p].body \in Patches /\ ForeignKeys(req'[p].body.ads)
  <1>. req \in [Requests -> RequestStates]
    BY DEF AdminTypeOK, RequestStates
  <1>1. CASE Send(p)
    <2>1. ASSUME NEW u \in Users, NEW b \in Patches, BeginUpdate(p, u, b)
          PROVE  req'[p].body \in Patches /\ ForeignKeys(req'[p].body.ads)
      <3>1. req'[p].body = b /\ b.ads = Keep
        BY <2>1 DEF BeginUpdate, Become
      <3>. QED  BY <3>1 DEF ForeignKeys
    <2>. QED  BY <1>1, <2>1 DEF Send, BeginCreate, BeginDelete, Become
  <1>2. CASE Finish(p)
    BY <1>2 DEF Finish, Become, Idle
  <1>3. CASE CheckAccounts(p)
    <2>1. CASE /\ MissingAdAccountIDs(req[p].body.ads) = {}
               /\ Become(p, [req[p] EXCEPT !.pc = IF @ = "checkCreate" THEN "insert" ELSE "read"])
      <3>1. req[p] \in Creating \cup Updating
        BY <1>3, RequestShape DEF CheckAccounts
      <3>2. [req[p] EXCEPT !.pc = IF @ = "checkCreate" THEN "insert" ELSE "read"].body = req[p].body
        BY <3>1 DEF Creating, Updating
      <3>3. req'[p].body = req[p].body /\ req[p].body \in Patches
        BY <2>1, <3>1, <3>2 DEF Become, Creating, Updating, WholeBodies
      <3>4. ForeignKeys(req[p].body.ads)
        BY <2>1, <3>3, BodyShape DEF MissingAdAccountIDs, ForeignKeys, Exists
      <3>. QED  BY <3>3, <3>4
    <2>. QED  BY <1>2, <1>3, <2>1 DEF CheckAccounts
  <1>4. CASE SelectForUpdate(p)
    <2>1. CASE Become(p, Write(p))
      <3>1. req'[p].body = req[p].body
        BY <2>1 DEF Become, Write
      <3>2. req[p].body \in Patches
        BY <1>4, RequestShape DEF SelectForUpdate
      <3>. QED  BY <1>4, <3>1, <3>2 DEF SelectForUpdate, CheckedInv
    <2>. QED  BY <1>2, <1>4, <2>1 DEF SelectForUpdate
  <1>. QED
    BY <1>1, <1>2, <1>3, <1>4 DEF Serve, CommitUpdate, CreateUser, SoftDeleteUser, CallFails

LEMMA CheckedStep ==
    ASSUME AdminTypeOK, LockedInv, CheckedInv, [AdminNext]_adminVars
    PROVE  CheckedInv'
  <1>. req \in [Requests -> RequestStates]
    BY DEF AdminTypeOK, RequestStates
  <1>1. \A b \in Patches : ForeignKeys(b.ads) => ForeignKeys(b.ads)'
    BY AccountsStay, BodyShape
  <1>2. ASSUME NEW q \in Requests, req'[q] = req[q], req[q].pc \in {"read", "write", "insert"}
        PROVE  ForeignKeys(req[q].body.ads)'
    <2>1. req'[q].body \in Patches
      BY <1>2, RequestShape DEF WholeBodies
    <2>2. ForeignKeys(req'[q].body.ads)
      BY <1>2 DEF CheckedInv
    <2>. QED  BY <1>1, <2>1, <2>2 DEF ForeignKeys, Exists
  <1>3. ASSUME NEW p \in Requests, Send(p) \/ Serve(p)
        PROVE  CheckedInv'
    <2>1. ASSUME req'[p].pc \in {"read", "write", "insert"}
          PROVE  ForeignKeys(req[p].body.ads)'
      <3>1. req'[p].body \in Patches /\ ForeignKeys(req'[p].body.ads)
        BY <1>3, <2>1, CheckedByRequest
      <3>. QED  BY <1>1, <3>1 DEF ForeignKeys, Exists
    <2>2. \A q \in Requests \ {p} : req'[q] = req[q]
      BY <1>3, ServeFrame
    <2>. QED  BY <1>2, <2>1, <2>2 DEF CheckedInv
  <1>4. CASE SyncAccounts \/ UNCHANGED adminVars
    <2>1. req' = req
      BY <1>4 DEF SyncAccounts, UpsertAccount, SoftDeleteAccount, adminVars
    <2>. QED  BY <1>2, <2>1 DEF CheckedInv
  <1>5. CASE Restart
    BY <1>5 DEF Restart, CheckedInv, Idle
  <1>. QED  BY <1>3, <1>4, <1>5 DEF AdminNext

-----------------------------------------------------------------------------
\* The theorems.

AdminInv == AdminTypeOK /\ LockedInv /\ CheckedInv

\* The types hold, a request that writes has the lock of its row, and one that is
\* past its check meets the foreign keys.
THEOREM AdminInvariant == AdminSpec => []AdminInv
  <1>1. AdminInit => AdminInv
    <2>. SUFFICES ASSUME AdminInit
                  PROVE  LockedInv /\ CheckedInv
      BY AdminTypeInit DEF AdminInv
    <2>. QED  BY DEF AdminInit, LockedInv, CheckedInv, Idle
  <1>2. AdminInv /\ [AdminNext]_adminVars => AdminInv'
    BY AdminTypeStep, LockedStep, CheckedStep DEF AdminInv
  <1>. QED  BY <1>1, <1>2, PTL DEF AdminSpec

\* The variables of the handlers keep their types.
THEOREM AdminTypeCorrect == AdminSpec => []AdminTypeOK
  BY AdminInvariant, PTL DEF AdminInv

\* ensureAdAccountsExist is enough for the foreign key of the permissions, although
\* the batch writes to ad_accounts after it.
THEOREM ForeignKeyNeverRefusesAlways == AdminSpec => []ForeignKeyNeverRefuses
  <1>1. AdminInv => ForeignKeyNeverRefuses
    BY DEF AdminInv, CheckedInv, ForeignKeyNeverRefuses
  <1>. QED  BY <1>1, AdminInvariant, PTL

\* UpdateUser writes back what it read, and undoes nothing by it.
THEOREM KeepsOtherFieldsAlways == AdminSpec => KeepsOtherFields
  <1>1. ASSUME AdminInv, [AdminNext]_adminVars, NEW p \in Requests,
               req[p].pc = "write", req'[p] # req[p], row' # row
        PROVE  /\ req[p].body.name = Keep => row'[req[p].target].name = row[req[p].target].name
               /\ req[p].body.role = Keep => row'[req[p].target].role = row[req[p].target].role
    <2>. /\ req \in [Requests -> RequestStates] /\ row \in [Users -> Rows]
      BY <1>1 DEF AdminInv, AdminTypeOK, RequestStates
    <2>1. Send(p) \/ Serve(p)
      <3>1. ASSUME NEW q \in Requests \ {p}, Send(q) \/ Serve(q)
            PROVE  req'[p] = req[p]
        BY <1>1, <3>1, ServeFrame DEF AdminInv
      <3>. QED
        BY <1>1, <3>1 DEF AdminNext, SyncAccounts, UpsertAccount, SoftDeleteAccount, Restart,
                          adminVars
    <2>2. CommitUpdate(p)
      BY <1>1, <2>1 DEF Send, Serve, CheckAccounts, SelectForUpdate, CreateUser,
                        SoftDeleteUser, CallFails, Idle
    <2>3. req[p].target \in Users /\ row[req[p].target] = req[p].seen
      BY <1>1, RequestShape DEF AdminInv, LockedInv
    <2>. QED  BY <2>2, <2>3 DEF CommitUpdate, Field, Rows
  <1>2. AdminInv /\ [AdminNext]_adminVars =>
          [\A p \in Requests :
            req[p].pc = "write" /\ req'[p] # req[p] /\ row' # row =>
                LET u == req[p].target
                    b == req[p].body
                IN  /\ b.name = Keep => row'[u].name = row[u].name
                    /\ b.role = Keep => row'[u].role = row[u].role]_adminVars
    BY <1>1
  <1>. QED  BY <1>2, AdminInvariant, PTL DEF AdminSpec, KeepsOtherFields

\* No request writes to a user who has been deleted since it was checked.
THEOREM FrozenAfterDeleteAlways == AdminSpec => FrozenAfterDelete
  <1>1. ASSUME AdminInv, [AdminNext]_adminVars, NEW u \in Users, row[u].state = "deleted"
        PROVE  row'[u] = row[u] /\ perms'[u] = perms[u]
    <2>. /\ row \in [Users -> Rows] /\ perms \in [Users -> SUBSET Accounts]
         /\ req \in [Requests -> RequestStates]
      BY <1>1 DEF AdminInv, AdminTypeOK, RequestStates
    <2>1. ASSUME NEW p \in Requests, CommitUpdate(p)
          PROVE  row'[u] = row[u] /\ perms'[u] = perms[u]
      <3>1. req[p].target \in Users /\ row[req[p].target].state = "live"
        BY <1>1, <2>1, RequestShape DEF AdminInv, LockedInv, Live, CommitUpdate
      <3>2. req[p].target # u
        BY <1>1, <3>1
      <3>. QED  BY <2>1, <3>1, <3>2 DEF CommitUpdate, ReplacePermissions
    <2>2. ASSUME NEW p \in Requests, CreateUser(p) \/ SoftDeleteUser(p)
          PROVE  row'[u] = row[u] /\ perms'[u] = perms[u]
      BY <1>1, <2>2 DEF CreateUser, SoftDeleteUser, ReplacePermissions, Live
    <2>. QED
      BY <1>1, <2>1, <2>2
         DEF AdminNext, Send, Serve, CheckAccounts, SelectForUpdate, CallFails,
             SyncAccounts, UpsertAccount, SoftDeleteAccount, Restart, adminVars
  <1>2. AdminInv /\ [AdminNext]_adminVars =>
          [\A u \in Users :
            row[u].state = "deleted" => row'[u] = row[u] /\ perms'[u] = perms[u]]_adminVars
    BY <1>1
  <1>. QED  BY <1>2, AdminInvariant, PTL DEF AdminSpec, FrozenAfterDelete

-----------------------------------------------------------------------------
\* The refinement of UserStore.

\* The orders of all requests, as the refinement maps them.
OpenOrders == [q \in Requests |-> OrderOf(req[q])]

\* What a step of a request makes of its order.
LEMMA OrderBecomes ==
    ASSUME AdminTypeOK, NEW p \in Requests, NEW r, Become(p, r)
    PROVE  OpenOrders' = [OpenOrders EXCEPT ![p] = OrderOf(r)]
  <1>. req \in [Requests -> RequestStates]
    BY DEF AdminTypeOK, RequestStates
  <1>1. \A q \in Requests : OrderOf(req'[q]) = IF q = p THEN OrderOf(r) ELSE OrderOf(req[q])
    BY DEF Become
  <1>. QED  BY <1>1 DEF OpenOrders

LEMMA OrderFinished == OrderOf(Idle) = Store!Nothing
  BY DEF OrderOf, Idle, Store!Nothing

\* An answered request that has done nothing has given up.
LEMMA FinishGivesUp ==
    ASSUME AdminTypeOK, NEW p \in Requests, Finish(p), UNCHANGED <<row, perms, account>>
    PROVE  Store!GiveUp
  <1>1. OpenOrders' = [OpenOrders EXCEPT ![p] = Store!Nothing]
    BY OrderBecomes, OrderFinished DEF Finish
  <1>2. OpenOrders' = [q \in Requests |-> IF q \in {p} THEN Store!Nothing ELSE OpenOrders[q]]
    BY <1>1 DEF OpenOrders
  <1>3. {p} \in SUBSET Requests
    OBVIOUS
  <1>. QED  BY <1>2, <1>3 DEF Store!GiveUp, OpenOrders

\* A step within a request that keeps its order is none of the store.
LEMMA SameOrder ==
    ASSUME AdminTypeOK, NEW p \in Requests, NEW r, Become(p, r), OrderOf(r) = OrderOf(req[p]),
           UNCHANGED <<row, perms, account>>
    PROVE  UNCHANGED Store!storeVars
  <1>1. OpenOrders' = OpenOrders
    BY OrderBecomes DEF OpenOrders
  <1>. QED  BY <1>1 DEF Store!storeVars, OpenOrders

\* The commit of an update is the instant at which its order takes effect: the row is
\* as the request has read it.
LEMMA CommitUpdates ==
    ASSUME AdminInv, NEW p \in Requests, CommitUpdate(p)
    PROVE  Store!Update(p)
  <1>. DEFINE u == req[p].target
              b == req[p].body
              r == [row[u] EXCEPT !.name = IF b.name = Keep THEN row[u].name ELSE b.name,
                                  !.role = IF b.role = Keep THEN row[u].role ELSE b.role]
  <1>. row \in [Users -> Rows] /\ perms \in [Users -> SUBSET Accounts]
       /\ req \in [Requests -> RequestStates]
    BY DEF AdminInv, AdminTypeOK, RequestStates
  <1>1. req[p].pc = "write" /\ u \in Users /\ b \in Patches
    BY RequestShape DEF CommitUpdate
  <1>2. req[p].seen = row[u] /\ Live(u) /\ ForeignKeys(b.ads)
    BY <1>1 DEF AdminInv, LockedInv, CheckedInv
  <1>3. OrderOf(req[p]) = [op |-> "update", target |-> u, body |-> b]
    BY <1>1 DEF OrderOf
  <1>4. OpenOrders' = [OpenOrders EXCEPT ![p] = Store!Nothing]
    BY OrderBecomes, OrderFinished DEF CommitUpdate, Finish, AdminInv
  <1>5. row' = [row EXCEPT ![u] = r]
    <2>1. row' = [row EXCEPT ![u].name = Field(b.name, row[u].name),
                             ![u].role = Field(b.role, row[u].role)]
      BY <1>2 DEF CommitUpdate
    <2>2. row' \in [Users -> Rows] /\ \A v \in Users \ {u} : row'[v] = row[v]
      BY <2>1, <1>1, BodyShape DEF Field, Rows
    <2>3. row'[u] = r
      BY <2>1, <1>1 DEF Field, Rows
    <2>. QED  BY <2>2, <2>3
  <1>6. perms' = [perms EXCEPT ![u] = IF b.ads = Keep THEN perms[u] ELSE b.ads]
    BY <1>1 DEF CommitUpdate, ReplacePermissions
  <1>7. UNCHANGED account
    BY DEF CommitUpdate
  <1>8. Store!Known(b)
    BY <1>2 DEF Store!Known, Store!Given, ForeignKeys, Exists
  <1>9. Store!Patched(row[u], b) = r
    BY DEF Store!Patched
  <1>. HIDE DEF u, b, r
  <1>10. OpenOrders[p].op = "update" /\ OpenOrders[p].target = u /\ OpenOrders[p].body = b
    BY <1>3 DEF OpenOrders
  <1>. QED
    BY <1>2, <1>4, <1>5, <1>6, <1>7, <1>8, <1>9, <1>10
       DEF Store!Update, Store!IsLive, Store!Close, Live, OpenOrders

LEMMA CreateCreates ==
    ASSUME AdminInv, NEW p \in Requests, CreateUser(p)
    PROVE  Store!Create(p)
  <1>. DEFINE b == req[p].body
  <1>. req \in [Requests -> RequestStates]
    BY DEF AdminInv, AdminTypeOK, RequestStates
  <1>1. req[p].pc = "insert" /\ ForeignKeys(b.ads)
    BY DEF CreateUser, AdminInv, CheckedInv
  <1>2. OrderOf(req[p]) = [op |-> "create", body |-> b]
    BY <1>1 DEF OrderOf
  <1>3. OpenOrders' = [OpenOrders EXCEPT ![p] = Store!Nothing]
    BY OrderBecomes, OrderFinished DEF CreateUser, Finish, AdminInv
  <1>4. Store!Known(b)
    BY <1>1 DEF Store!Known, Store!Given, ForeignKeys, Exists
  <1>5. /\ \E u \in Users :
            /\ row[u].state = "absent"
            /\ row' = [row EXCEPT ![u] = [state |-> "live", name |-> b.name, role |-> b.role]]
            /\ perms' = [perms EXCEPT ![u] = b.ads]
        /\ UNCHANGED account
    BY DEF CreateUser, ReplacePermissions
  <1>. HIDE DEF b
  <1>6. OpenOrders[p].op = "create" /\ OpenOrders[p].body = b
    BY <1>2 DEF OpenOrders
  <1>. QED  BY <1>3, <1>4, <1>5, <1>6 DEF Store!Create, Store!Close, OpenOrders

LEMMA DeleteDeletes ==
    ASSUME AdminInv, NEW p \in Requests, SoftDeleteUser(p), Live(req[p].target)
    PROVE  Store!Delete(p)
  <1>. DEFINE u == req[p].target
  <1>1. /\ req[p].pc = "delete"
        /\ row' = [row EXCEPT ![u].state = "deleted"]
        /\ UNCHANGED <<perms, account>>
    BY DEF SoftDeleteUser
  <1>2. OrderOf(req[p]) = [op |-> "delete", target |-> u]
    BY <1>1 DEF OrderOf
  <1>3. OpenOrders' = [OpenOrders EXCEPT ![p] = Store!Nothing]
    BY OrderBecomes, OrderFinished DEF SoftDeleteUser, Finish, AdminInv
  <1>. HIDE DEF u
  <1>4. OpenOrders[p].op = "delete" /\ OpenOrders[p].target = u
    BY <1>2 DEF OpenOrders
  <1>5. Live(u)
    BY DEF u
  <1>. QED
    BY <1>1, <1>3, <1>4, <1>5 DEF Store!Delete, Store!IsLive, Store!Close, Live, OpenOrders

LEMMA SendArrives ==
    ASSUME AdminInv, NEW p \in Requests, Send(p)
    PROVE  Store!Arrive(p)
  <1>1. PICK r : Become(p, r) /\ OrderOf(r) \in Store!Orders
    <2>1. ASSUME NEW b \in Patches, BeginCreate(p, b)
          PROVE  \E r : Become(p, r) /\ OrderOf(r) \in Store!Orders
      <3>1. OrderOf([pc |-> "checkCreate", body |-> b]) = [op |-> "create", body |-> b]
        BY DEF OrderOf
      <3>. QED  BY <2>1, <3>1 DEF BeginCreate, Store!Orders
    <2>2. ASSUME NEW v \in Users, NEW b \in Patches, BeginUpdate(p, v, b)
          PROVE  \E r : Become(p, r) /\ OrderOf(r) \in Store!Orders
      <3>. DEFINE r == [pc |-> IF b.ads = Keep THEN "read" ELSE "checkUpdate",
                        target |-> v, body |-> b]
      <3>1. OrderOf(r) = [op |-> "update", target |-> v, body |-> b]
        BY DEF OrderOf
      <3>2. Become(p, r)
        BY <2>2 DEF BeginUpdate
      <3>. HIDE DEF r
      <3>. QED  BY <3>1, <3>2 DEF Store!Orders
    <2>3. ASSUME NEW v \in Users, BeginDelete(p, v)
          PROVE  \E r : Become(p, r) /\ OrderOf(r) \in Store!Orders
      <3>1. OrderOf([pc |-> "delete", target |-> v]) = [op |-> "delete", target |-> v]
        BY DEF OrderOf
      <3>. QED  BY <2>3, <3>1 DEF BeginDelete, Store!Orders
    <2>. QED  BY <2>1, <2>2, <2>3 DEF Send
  <1>2. OpenOrders' = [OpenOrders EXCEPT ![p] = OrderOf(r)]
    BY <1>1, OrderBecomes DEF AdminInv
  <1>3. OpenOrders[p] = Store!Nothing
    BY OrderFinished DEF Send, OpenOrders
  <1>4. \E u \in Users : Store!IsLive(u) /\ row[u].role = "admin"
    BY DEF Send, MayManage, Live, Store!IsLive
  <1>5. UNCHANGED <<row, perms, account>>
    BY DEF Send
  <1>. QED  BY <1>1, <1>2, <1>3, <1>4, <1>5 DEF Store!Arrive, OpenOrders

\* Each step of UserAdmin is one of the store, or none.
LEMMA StoreStep ==
    ASSUME AdminInv, [AdminNext]_adminVars
    PROVE  [Store!StoreNext]_Store!storeVars
  <1>. req \in [Requests -> RequestStates] /\ AdminTypeOK
    BY DEF AdminInv, AdminTypeOK, RequestStates
  <1>1. ASSUME NEW p \in Requests, Send(p) \/ CommitUpdate(p) \/ CreateUser(p)
        PROVE  Store!StoreNext
    BY <1>1, SendArrives, CommitUpdates, CreateCreates DEF Store!StoreNext
  <1>2. ASSUME NEW p \in Requests, SoftDeleteUser(p)
        PROVE  Store!StoreNext
    <2>1. CASE Live(req[p].target)
      BY <1>2, <2>1, DeleteDeletes DEF Store!StoreNext
    <2>2. CASE ~Live(req[p].target)
      BY <1>2, <2>2, FinishGivesUp DEF SoftDeleteUser, Store!StoreNext
    <2>. QED  BY <2>1, <2>2
  <1>3. ASSUME NEW p \in Requests, CheckAccounts(p) \/ SelectForUpdate(p) \/ CallFails(p)
        PROVE  Store!StoreNext \/ UNCHANGED Store!storeVars
    <2>1. UNCHANGED <<row, perms, account>>
      BY <1>3 DEF CheckAccounts, SelectForUpdate, CallFails
    <2>2. CASE Finish(p)
      BY <2>1, <2>2, FinishGivesUp DEF Store!StoreNext
    <2>3. CASE CheckAccounts(p) /\ ~Finish(p)
      <3>1. /\ req[p].pc \in {"checkCreate", "checkUpdate"}
            /\ Become(p, [req[p] EXCEPT !.pc = IF @ = "checkCreate" THEN "insert" ELSE "read"])
        BY <2>3 DEF CheckAccounts
      <3>. DEFINE r == [req[p] EXCEPT !.pc = IF @ = "checkCreate" THEN "insert" ELSE "read"]
      <3>2. OrderOf(r) = OrderOf(req[p])
        <4>1. CASE req[p].pc = "checkCreate"
          <5>1. req[p] \in Creating
            BY <4>1, RequestShape
          <5>2. r.pc = "insert" /\ r.body = req[p].body
            BY <4>1, <5>1 DEF Creating
          <5>. QED  BY <4>1, <5>2 DEF OrderOf
        <4>2. CASE req[p].pc = "checkUpdate"
          <5>1. req[p] \in Updating
            BY <4>2, RequestShape
          <5>2. r.pc = "read" /\ r.body = req[p].body /\ r.target = req[p].target
            BY <4>2, <5>1 DEF Updating
          <5>. QED  BY <4>2, <5>2 DEF OrderOf
        <4>. QED  BY <3>1, <4>1, <4>2
      <3>. QED  BY <3>1, <3>2, <2>1, SameOrder
    <2>4. CASE SelectForUpdate(p) /\ ~Finish(p)
      <3>1. req[p].pc = "read" /\ Become(p, Write(p))
        BY <2>4 DEF SelectForUpdate
      <3>2. OrderOf(Write(p)) = OrderOf(req[p])
        BY <3>1 DEF OrderOf, Write
      <3>. QED  BY <3>1, <3>2, <2>1, SameOrder
    <2>. QED  BY <1>3, <2>2, <2>3, <2>4 DEF CallFails
  <1>4. CASE SyncAccounts
    <2>1. OpenOrders' = OpenOrders /\ UNCHANGED <<row, perms>>
      BY <1>4 DEF SyncAccounts, UpsertAccount, SoftDeleteAccount, OpenOrders
    <2>2. /\ account' \in [Accounts -> {"absent", "live", "deleted"}]
          /\ \A a \in Accounts : account[a] # "absent" => account'[a] # "absent"
      BY <1>4 DEF SyncAccounts, UpsertAccount, SoftDeleteAccount, AdminTypeOK
    <2>. QED  BY <2>1, <2>2 DEF Store!StoreNext, Store!ChangeAccounts, OpenOrders
  <1>5. CASE Restart
    <2>1. OpenOrders' = [p \in Requests |-> IF p \in Requests THEN Store!Nothing ELSE OpenOrders[p]]
      BY <1>5, OrderFinished DEF Restart, OpenOrders
    <2>2. UNCHANGED <<row, perms, account>>
      BY <1>5 DEF Restart
    <2>. QED  BY <2>1, <2>2 DEF Store!StoreNext, Store!GiveUp, OpenOrders
  <1>6. CASE UNCHANGED adminVars
    BY <1>6 DEF adminVars, Store!storeVars
  <1>. QED  BY <1>1, <1>2, <1>3, <1>4, <1>5, <1>6 DEF AdminNext, Serve

\* Requests that interleave between their queries take effect as if each ran alone.
THEOREM KeepsStoreAlways == AdminSpec => KeepsStore
  <1>1. AdminInit => Store!StoreInit
    BY OrderFinished DEF AdminInit, Store!StoreInit
  <1>2. AdminInv /\ [AdminNext]_adminVars => [Store!StoreNext]_Store!storeVars
    BY StoreStep
  <1>. QED  BY <1>1, <1>2, AdminInvariant, PTL DEF AdminSpec, KeepsStore, Store!StoreSpec
=============================================================================
