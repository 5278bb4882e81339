---------------------------- MODULE AccountScreen ----------------------------
(***************************************************************************)
(* AccountManageScreen over UserAdmin: it loads a user and GET             *)
(* /ad_accounts together, lets an admin edit the fields and tick the       *)
(* accounts that it lists, and sends the whole user back as a PATCH, or a  *)
(* DELETE, which are requests of UserAdmin. It shows what it loaded until  *)
(* it is opened again, and can be edited while its request is under way.   *)
(***************************************************************************)
EXTENDS UserAdmin

VARIABLE screen   \* the screen that sends its requests under the same name

screenVars == <<adminVars, screen>>

\* sent: the request that the screen waits for. Kept for the properties: fresh, that no
\* row of users, permissions or ad accounts has changed since the screen began to load;
\* known, the permissions as they were loaded or saved last; toggled, the boxes that are
\* not as they were then; changes, those of them when the request was sent.
Screens ==
    [pc : {"closed", "loadUser", "loadPerms", "ready"}, sent : {"nothing", "PATCH", "DELETE"},
     target : Users, user : Rows, selected : SUBSET Accounts, offered : SUBSET Accounts,
     listed : BOOLEAN, answer : {"none", "badAccounts", "done", "error"},
     fresh : BOOLEAN, known : SUBSET Accounts, toggled : SUBSET Accounts,
     changes : SUBSET Accounts]

\* The types; a screen that has sent something waits for a request that is under way.
ScreenTypeOK ==
    /\ AdminTypeOK
    /\ screen \in [Requests -> Screens]
    /\ \A p \in Requests : screen[p].sent # "nothing" => req[p] # Idle

LiveAccounts == {a \in Accounts : account[a] = "live"}

NewScreen(u, pc) ==
    [pc |-> pc, sent |-> "nothing", target |-> u, user |-> row[u], selected |-> {},
     offered |-> {}, listed |-> FALSE, answer |-> "none",
     fresh |-> pc = "loadUser", known |-> {}, toggled |-> {}, changes |-> {}]

ScreenInit ==
    /\ AdminInit
    /\ \E u \in Users : screen = [p \in Requests |-> NewScreen(u, "closed")]

-----------------------------------------------------------------------------
\* The GET of the user is two queries, and GET /ad_accounts
\* is under way at the same time.

Loading(p) == screen[p].pc \in {"loadUser", "loadPerms"} \/ ~screen[p].listed

Shown(p) == screen[p].pc = "ready" /\ screen[p].listed

\* The admin goes to a user, at any time; a request that the screen has sent goes on
\* without it.
OpenScreen(p, u) ==
    /\ screen' = [screen EXCEPT ![p] = NewScreen(u, "loadUser")]
    /\ UNCHANGED adminVars

\* Any GET may find that its user may not manage users, or nobody to show.
LoadFails(p) ==
    /\ screen[p].pc # "closed"
    /\ Loading(p)
    /\ screen' = [screen EXCEPT ![p] = NewScreen(screen[p].target, "closed")]
    /\ UNCHANGED adminVars

LoadUser(p) ==
    /\ screen[p].pc = "loadUser"
    /\ \E u \in Users : MayManage(u)
    /\ Live(screen[p].target)
    /\ screen' = [screen EXCEPT ![p].pc = "loadPerms", ![p].user = row[screen[p].target]]
    /\ UNCHANGED adminVars

\* Mutant: the screen forgets the permissions for which it has no box.
LoadShownPermissions(p) ==
    LET ids == perms[screen[p].target]
    IN  /\ screen[p].pc = "loadPerms"
        /\ screen' = [screen EXCEPT ![p].pc = "ready", ![p].selected = ids \cap LiveAccounts,
                                    ![p].known = ids]
        /\ UNCHANGED adminVars

\* listPermissionIDs does not look at ad_accounts.
LoadPermissions(p) ==
    LET ids == perms[screen[p].target]
    IN  /\ screen[p].pc = "loadPerms"
        /\ screen' = [screen EXCEPT ![p].pc = "ready", ![p].selected = ids, ![p].known = ids]
        /\ UNCHANGED adminVars

\* Mutant: GET /ad_accounts does not look at is_deleted.
ListAllAdAccountsWithDeleted(p) ==
    /\ screen[p].pc # "closed"
    /\ ~screen[p].listed
    /\ screen' = [screen EXCEPT ![p].listed = TRUE, ![p].offered = {a \in Accounts : Exists(a)}]
    /\ UNCHANGED adminVars

ListAllAdAccounts(p) ==
    /\ screen[p].pc # "closed"
    /\ ~screen[p].listed
    /\ \E u \in Users : MayManage(u)
    /\ screen' = [screen EXCEPT ![p].listed = TRUE, ![p].offered = LiveAccounts]
    /\ UNCHANGED adminVars

Flip(a, boxes) == (boxes \ {a}) \cup ({a} \ boxes)

\* Only an account the screen lists has a box to tick or to clear.
ToggleAccount(p, a) ==
    /\ Shown(p)
    /\ a \in screen[p].offered
    /\ screen' = [screen EXCEPT ![p].selected = Flip(a, @), ![p].toggled = Flip(a, @)]
    /\ UNCHANGED adminVars

\* The input of the name and the list of roles.
Edit(p) ==
    /\ Shown(p)
    /\ \E n \in Names, r \in Roles :
           screen' = [screen EXCEPT ![p].user = [@ EXCEPT !.name = n, !.role = r]]
    /\ UNCHANGED adminVars

\* Both buttons are disabled while a request is under way.
Submit(p, method) ==
    /\ Shown(p)
    /\ screen[p].sent = "nothing" /\ req[p] = Idle
    /\ \E u \in Users : MayManage(u)
    /\ screen' = [screen EXCEPT ![p].sent = method, ![p].answer = "none",
                                ![p].changes = screen[p].toggled]
    /\ UNCHANGED <<row, perms, account, rowLock>>

\* The PATCH of onSubmit sends every field.
Save(p) ==
    LET b == [name |-> screen[p].user.name, role |-> screen[p].user.role,
              ads |-> screen[p].selected]
    IN  /\ Submit(p, "PATCH")
        /\ b \in Patches
        /\ BeginUpdate(p, screen[p].target, b)

\* onDelete, after the admin has confirmed.
Delete(p) == Submit(p, "DELETE") /\ BeginDelete(p, screen[p].target)

\* After a PATCH the name is the one that was sent, whatever was typed since, and
\* nothing is loaded again.
Saved(s, b) ==
    [s EXCEPT !.sent = "nothing", !.answer = "done", !.user.name = b.name, !.known = b.ads,
              !.toggled = (b.ads \ s.selected) \cup (s.selected \ b.ads), !.changes = {}]

Failed(s, a) == [s EXCEPT !.sent = "nothing", !.answer = a, !.changes = {}]

\* Mutant: the screen goes on waiting when its request is refused.
AnsweredUnlessRefused(p, a) ==
    LET s == screen[p]
    IN  CASE a = "done" /\ s.sent = "PATCH" -> Saved(s, req[p].body)
          [] a = "done" /\ s.sent = "DELETE" -> NewScreen(s.target, "closed")
          [] a = "badAccounts" -> [s EXCEPT !.answer = a]
          [] OTHER -> Failed(s, a)

\* What becomes of the screen when its request is answered; after a DELETE it is left.
Answered(p, a) ==
    LET s == screen[p]
    IN  CASE a = "done" /\ s.sent = "PATCH" -> Saved(s, req[p].body)
          [] a = "done" /\ s.sent = "DELETE" -> NewScreen(s.target, "closed")
          [] OTHER -> Failed(s, a)

\* What the screens see of a step of UserAdmin: the answer to the request they wait
\* for, and (for fresh) whether a row has changed.
Observe(a) ==
    LET changed == <<row, perms, account>>' # <<row, perms, account>>
        next(p) == IF screen[p].sent # "nothing" /\ req'[p] = Idle THEN Answered(p, a)
                   ELSE screen[p]
    IN  screen' = [p \in Requests |-> [next(p) EXCEPT !.fresh = @ /\ ~changed]]

\* A commit may take effect and its reply be lost: the handler answers 500.
AdminStep ==
    \/ \E p \in Requests : CheckAccounts(p) /\ Observe("badAccounts")
    \/ \E p \in Requests : CommitUpdate(p) /\ (Observe("done") \/ Observe("error"))
    \/ \E p \in Requests : SoftDeleteUser(p) /\ Observe(IF row' # row THEN "done" ELSE "error")
    \/ \E p \in Requests : (SelectForUpdate(p) \/ CallFails(p)) /\ Observe("error")
    \/ \E p \in Requests : (Send(p) \/ CreateUser(p)) /\ Observe("none")
    \/ SyncAccounts /\ Observe("none")
    \/ Restart /\ Observe("error")

ScreenStep(p) ==
    \/ \E u \in Users : OpenScreen(p, u)
    \/ LoadFails(p) \/ LoadUser(p) \/ LoadPermissions(p) \/ ListAllAdAccounts(p)
    \/ \E a \in Accounts : ToggleAccount(p, a)
    \/ Edit(p) \/ Save(p) \/ Delete(p)

ScreenNext == AdminStep \/ \E p \in Requests : ScreenStep(p)

ScreenSpec == ScreenInit /\ [][ScreenNext]_screenVars

-----------------------------------------------------------------------------
\* Properties.

\* While nothing changes, the screen's PATCH is refused for its accounts only when
\* the user has an account that the screen does not list.
RefusedOnlyForHidden ==
    \A p \in Requests :
        screen[p].answer = "badAccounts" /\ screen[p].fresh =>
            ~(screen[p].selected \subseteq screen[p].offered)

\* AccountManageScreen.tsx:166 says that the screen can change the name, the role
\* and the permissions; so its PATCH is not refused while nothing has changed.
ScreenCanSave == \A p \in Requests : screen[p].answer = "badAccounts" => ~screen[p].fresh

\* The PATCH of the screen has every permission of the user, so that it undoes what
\* others have changed; but it changes nothing else: a permission that the screen knew
\* and that nobody has changed since stays, unless the admin has ticked or cleared its
\* box. A hidden account is not lost by a save.
SaveKeepsUntouched ==
    [][\A p \in Requests :
        LET s == screen[p]
            old == perms[s.target]
            new == perms'[s.target]
        IN  s.sent = "PATCH" /\ req[p].pc = "write" /\ new # old =>
                \A a \in Accounts :
                    (a \in old) # (a \in new) =>
                        a \in s.changes \/ (a \in old) # (a \in s.known)]_screenVars

=============================================================================
