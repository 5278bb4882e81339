------------------------- MODULE AccountScreenProofs -------------------------
(***************************************************************************)
(* What the screen for one user keeps, for any number of users, accounts   *)
(* and screens. The boxes that an admin ticks or clears are those that the *)
(* screen lists, so that a hidden account stays selected as it was loaded  *)
(* (SentOK); and a PATCH says of every account what the screen has loaded, *)
(* but where its box was used (ScreenOK, SentOK).                          *)
(***************************************************************************)
EXTENDS AccountScreen, UserAdminProofs

Differing(S, T) == (S \ T) \cup (T \ S)

\* Of a screen and the tables.
ScreenOK(s) ==
    /\ s.toggled = Differing(s.selected, s.known)
    /\ s.pc # "ready" => s.toggled = {}
    /\ s.sent # "nothing" \/ s.answer = "badAccounts" => s.pc = "ready" /\ s.listed
    /\ s.fresh /\ s.listed => s.offered = LiveAccounts
    /\ s.answer = "badAccounts" /\ s.fresh => ~(s.selected \subseteq s.offered)

\* Of a screen that waits for a request, and that request.
SentOK(s, r) ==
    /\ s.sent = "PATCH" =>
           /\ r.pc \in {"checkUpdate", "read", "write"}
           /\ r.target = s.target
           /\ r.body.ads \in SUBSET Accounts /\ r.body.name \in Names
           /\ s.changes = Differing(r.body.ads, s.known)
           /\ r.body.ads \ s.offered = s.selected \ s.offered
    /\ s.sent = "DELETE" => r.pc = "delete"

ScreenInv ==
    /\ AdminInv
    /\ screen \in [Requests -> Screens]
    /\ \A p \in Requests : ScreenOK(screen[p]) /\ SentOK(screen[p], req[p])

\* The fields of a screen.
LEMMA ScreenFields ==
    ASSUME NEW s \in Screens
    PROVE  /\ s.pc \in {"closed", "loadUser", "loadPerms", "ready"}
           /\ s.sent \in {"nothing", "PATCH", "DELETE"}
           /\ s.target \in Users /\ s.user \in Rows
           /\ s.selected \in SUBSET Accounts /\ s.offered \in SUBSET Accounts
           /\ s.listed \in BOOLEAN /\ s.answer \in {"none", "badAccounts", "done", "error"}
           /\ s.fresh \in BOOLEAN /\ s.known \in SUBSET Accounts
           /\ s.toggled \in SUBSET Accounts /\ s.changes \in SUBSET Accounts
  BY DEF Screens

\* A new screen, for a user whose row has its type.
LEMMA NewScreenOK ==
    ASSUME AdminTypeOK, NEW u \in Users,
           NEW where \in {"closed", "loadUser", "loadPerms", "ready"}, NEW r
    PROVE  /\ NewScreen(u, where) \in Screens
           /\ ScreenOK(NewScreen(u, where))
           /\ SentOK(NewScreen(u, where), r)
  <1>1. row[u] \in Rows
    BY DEF AdminTypeOK
  <1>2. NewScreen(u, where) \in Screens
    BY <1>1 DEF NewScreen, Screens
  <1>3. /\ NewScreen(u, where).toggled = {} /\ NewScreen(u, where).selected = {}
        /\ NewScreen(u, where).known = {} /\ NewScreen(u, where).sent = "nothing"
        /\ NewScreen(u, where).answer = "none" /\ NewScreen(u, where).listed = FALSE
    BY DEF NewScreen
  <1>4. ScreenOK(NewScreen(u, where))
    BY <1>3 DEF ScreenOK, Differing
  <1>. QED  BY <1>2, <1>3, <1>4 DEF SentOK

LEMMA ScreenInitInv == ScreenInit => ScreenInv
  <1>. SUFFICES ASSUME ScreenInit PROVE ScreenInv
    OBVIOUS
  <1>1. AdminInv
    <2>1. LockedInv /\ CheckedInv
      BY DEF ScreenInit, AdminInit, LockedInv, CheckedInv, Idle
    <2>. QED  BY <2>1, AdminTypeInit DEF AdminInv, ScreenInit
  <1>2. PICK u \in Users : screen = [p \in Requests |-> NewScreen(u, "closed")]
    BY DEF ScreenInit
  <1>3. \A r : /\ NewScreen(u, "closed") \in Screens
               /\ ScreenOK(NewScreen(u, "closed"))
               /\ SentOK(NewScreen(u, "closed"), r)
    BY <1>1, NewScreenOK DEF AdminInv
  <1>. HIDE DEF ScreenOK, SentOK
  <1>. QED  BY <1>1, <1>2, <1>3 DEF ScreenInv

-----------------------------------------------------------------------------
\* The steps of a screen.

\* A step of one screen that sends nothing, by what it makes of the screen.
LEMMA OneScreen ==
    ASSUME ScreenInv, NEW p \in Requests, UNCHANGED adminVars,
           NEW s \in Screens, screen' = [screen EXCEPT ![p] = s],
           ScreenOK(s), SentOK(s, req[p])
    PROVE  ScreenInv'
  <1>1. AdminInv'
    BY DEF ScreenInv, AdminInv, AdminTypeOK, LockedInv, CheckedInv, Live, ForeignKeys, Exists,
           adminVars
  <1>2. /\ screen' \in [Requests -> Screens] /\ screen'[p] = s
        /\ \A q \in Requests \ {p} : screen'[q] = screen[q]
    BY DEF ScreenInv
  <1>3. req' = req /\ account' = account
    BY DEF adminVars
  <1>4. \A q \in Requests : ScreenOK(screen'[q]) /\ SentOK(screen'[q], req'[q])
    BY <1>2, <1>3 DEF ScreenInv
  <1>5. \A q \in Requests : ScreenOK(screen[q])'
    BY <1>3, <1>4 DEF ScreenOK, LiveAccounts
  <1>6. \A q \in Requests : SentOK(screen[q], req[q])'
    BY <1>4 DEF SentOK
  <1>. QED  BY <1>1, <1>2, <1>5, <1>6 DEF ScreenInv

\* A box that is used once more.
LEMMA FlipDiffers ==
    ASSUME NEW S, NEW T, NEW a
    PROVE  Flip(a, Differing(S, T)) = Differing(Flip(a, S), T)
  BY DEF Differing, Flip

\* The steps that load, and those of the boxes and the input.
LEMMA LoadKeeps ==
    ASSUME ScreenInv, NEW p \in Requests,
           \/ \E u \in Users : OpenScreen(p, u)
           \/ LoadFails(p) \/ LoadUser(p) \/ LoadPermissions(p) \/ ListAllAdAccounts(p)
           \/ \E a \in Accounts : ToggleAccount(p, a)
           \/ Edit(p)
    PROVE  ScreenInv'
  <1>. /\ screen \in [Requests -> Screens] /\ screen[p] \in Screens
       /\ ScreenOK(screen[p]) /\ SentOK(screen[p], req[p])
       /\ AdminTypeOK
    BY DEF ScreenInv, AdminInv
  <1>0. /\ row \in [Users -> Rows] /\ perms \in [Users -> SUBSET Accounts]
        /\ LiveAccounts \in SUBSET Accounts
    BY DEF AdminTypeOK, LiveAccounts
  <1>1. ASSUME NEW u \in Users, OpenScreen(p, u)
        PROVE  ScreenInv'
    <2>1. screen' = [screen EXCEPT ![p] = NewScreen(u, "loadUser")] /\ UNCHANGED adminVars
      BY <1>1 DEF OpenScreen
    <2>2. /\ NewScreen(u, "loadUser") \in Screens /\ ScreenOK(NewScreen(u, "loadUser"))
          /\ SentOK(NewScreen(u, "loadUser"), req[p])
      BY NewScreenOK
    <2>. HIDE DEF ScreenOK, SentOK
    <2>. QED  BY <2>1, <2>2, OneScreen
  <1>2. CASE LoadFails(p)
    <2>1. /\ screen' = [screen EXCEPT ![p] = NewScreen(screen[p].target, "closed")]
          /\ UNCHANGED adminVars
      BY <1>2 DEF LoadFails
    <2>2. screen[p].target \in Users
      BY ScreenFields
    <2>3. /\ NewScreen(screen[p].target, "closed") \in Screens
          /\ ScreenOK(NewScreen(screen[p].target, "closed"))
          /\ SentOK(NewScreen(screen[p].target, "closed"), req[p])
      BY <2>2, NewScreenOK
    <2>. HIDE DEF ScreenOK, SentOK
    <2>. QED  BY <2>1, <2>3, OneScreen
  <1>3. CASE LoadUser(p)
    <2>. DEFINE s == [screen[p] EXCEPT !.pc = "loadPerms", !.user = row[screen[p].target]]
    <2>1. screen' = [screen EXCEPT ![p] = s] /\ UNCHANGED adminVars
      BY <1>3 DEF LoadUser
    <2>2. row[screen[p].target] \in Rows
      BY <1>0, ScreenFields
    <2>3. s \in Screens
      BY <2>2 DEF Screens
    <2>4. screen[p].pc = "loadUser"
      BY <1>3 DEF LoadUser
    <2>5. ScreenOK(s)
      BY <2>4 DEF ScreenOK, Screens
    <2>6. SentOK(s, req[p])
      BY DEF SentOK, Screens
    <2>. HIDE DEF s
    <2>. QED  BY <2>1, <2>3, <2>5, <2>6, OneScreen
  <1>4. CASE LoadPermissions(p)
    <2>. DEFINE ids == perms[screen[p].target]
                s == [screen[p] EXCEPT !.pc = "ready", !.selected = ids, !.known = ids]
    <2>1. screen' = [screen EXCEPT ![p] = s] /\ UNCHANGED adminVars
      BY <1>4 DEF LoadPermissions
    <2>2. ids \in SUBSET Accounts
      BY <1>0, ScreenFields
    <2>3. s \in Screens
      BY <2>2 DEF Screens
    <2>4. screen[p].pc = "loadPerms" /\ screen[p].sent = "nothing" /\ screen[p].answer # "badAccounts"
      BY <1>4, ScreenFields DEF LoadPermissions, ScreenOK
    <2>5. s.toggled = {} /\ s.toggled = Differing(s.selected, s.known)
      BY <2>4 DEF Differing, ScreenOK, Screens
    <2>6. ScreenOK(s)
      BY <2>4, <2>5 DEF ScreenOK, Screens
    <2>7. SentOK(s, req[p])
      BY <2>4 DEF SentOK, Screens
    <2>. HIDE DEF s
    <2>. QED  BY <2>1, <2>3, <2>6, <2>7, OneScreen
  <1>5. CASE ListAllAdAccounts(p)
    <2>. DEFINE s == [screen[p] EXCEPT !.listed = TRUE, !.offered = LiveAccounts]
    <2>1. screen' = [screen EXCEPT ![p] = s] /\ UNCHANGED adminVars
      BY <1>5 DEF ListAllAdAccounts
    <2>2. s \in Screens
      BY <1>0 DEF Screens
    <2>3. screen[p].sent = "nothing" /\ screen[p].answer # "badAccounts"
      BY <1>5, ScreenFields DEF ListAllAdAccounts, ScreenOK
    <2>4. ScreenOK(s)
      BY <2>3 DEF ScreenOK, Screens
    <2>5. SentOK(s, req[p])
      BY <2>3 DEF SentOK, Screens
    <2>. HIDE DEF s
    <2>. QED  BY <2>1, <2>2, <2>4, <2>5, OneScreen
  <1>6. ASSUME NEW a \in Accounts, ToggleAccount(p, a)
        PROVE  ScreenInv'
    <2>. DEFINE s == [screen[p] EXCEPT !.selected = Flip(a, screen[p].selected),
                                       !.toggled = Flip(a, screen[p].toggled)]
    <2>1. screen' = [screen EXCEPT ![p] = s] /\ UNCHANGED adminVars
      BY <1>6 DEF ToggleAccount
    <2>2. screen[p].pc = "ready" /\ screen[p].listed /\ a \in screen[p].offered
      BY <1>6 DEF ToggleAccount, Shown
    <2>3. Flip(a, screen[p].selected) \in SUBSET Accounts /\ Flip(a, screen[p].toggled) \in SUBSET Accounts
      BY ScreenFields DEF Flip
    <2>4. /\ s \in Screens
          /\ s.selected = Flip(a, screen[p].selected) /\ s.toggled = Flip(a, screen[p].toggled)
          /\ s.known = screen[p].known /\ s.sent = screen[p].sent /\ s.answer = screen[p].answer
          /\ s.pc = screen[p].pc /\ s.listed = screen[p].listed /\ s.fresh = screen[p].fresh
          /\ s.offered = screen[p].offered /\ s.target = screen[p].target
          /\ s.changes = screen[p].changes
      BY <2>3 DEF Screens
    <2>. HIDE DEF s
    <2>5. s.selected \ s.offered = screen[p].selected \ screen[p].offered
      BY <2>2, <2>4 DEF Flip
    <2>6. s.toggled = Differing(s.selected, s.known)
      <3>1. screen[p].toggled = Differing(screen[p].selected, screen[p].known)
        BY DEF ScreenOK
      <3>. QED  BY <2>4, <3>1, FlipDiffers
    <2>7. ScreenOK(s)
      BY <2>2, <2>4, <2>5, <2>6 DEF ScreenOK
    <2>8. SentOK(s, req[p])
      BY <2>4, <2>5 DEF SentOK
    <2>. QED  BY <2>1, <2>4, <2>7, <2>8, OneScreen
  <1>7. CASE Edit(p)
    <2>1. PICK n \in Names, r \in Roles :
              screen' = [screen EXCEPT ![p].user = [@ EXCEPT !.name = n, !.role = r]]
      BY <1>7 DEF Edit
    <2>. DEFINE u == [screen[p].user EXCEPT !.name = n, !.role = r]
                s == [screen[p] EXCEPT !.user = u]
    <2>2. screen' = [screen EXCEPT ![p] = s] /\ UNCHANGED adminVars
      BY <1>7, <2>1 DEF Edit
    <2>3. u \in Rows
      BY ScreenFields DEF Rows
    <2>4. s \in Screens
      BY <2>3 DEF Screens
    <2>5. ScreenOK(s)
      BY DEF ScreenOK, Screens
    <2>6. SentOK(s, req[p])
      BY DEF SentOK, Screens
    <2>. HIDE DEF s
    <2>. QED  BY <2>2, <2>4, <2>5, <2>6, OneScreen
  <1>. QED  BY <1>1, <1>2, <1>3, <1>4, <1>5, <1>6, <1>7

\* A screen that sends something sends it under its own name, as anybody else does.
LEMMA SubmitKeeps ==
    ASSUME ScreenInv, NEW p \in Requests, Save(p) \/ Delete(p)
    PROVE  ScreenInv'
  <1>. /\ screen \in [Requests -> Screens] /\ screen[p] \in Screens
       /\ ScreenOK(screen[p])
       /\ req \in [Requests -> RequestStates]
       /\ AdminTypeOK
    BY DEF ScreenInv, AdminInv, AdminTypeOK, RequestStates
  <1>0. PICK method \in {"PATCH", "DELETE"} :
            /\ Submit(p, method)
            /\ method = "PATCH" =>
                   LET b == [name |-> screen[p].user.name, role |-> screen[p].user.role,
                             ads |-> screen[p].selected]
                   IN  b \in Patches /\ BeginUpdate(p, screen[p].target, b)
            /\ method = "DELETE" => BeginDelete(p, screen[p].target)
    BY DEF Save, Delete
  <1>. DEFINE s == [screen[p] EXCEPT !.sent = method, !.answer = "none",
                                     !.changes = screen[p].toggled]
              b == [name |-> screen[p].user.name, role |-> screen[p].user.role,
                    ads |-> screen[p].selected]
  <1>1. /\ screen' = [screen EXCEPT ![p] = s]
        /\ UNCHANGED <<row, perms, account, rowLock>>
        /\ Shown(p) /\ req[p] = Idle
        /\ \E u \in Users : MayManage(u)
    BY <1>0 DEF Submit
  <1>2. screen[p].target \in Users
    BY ScreenFields
  <1>3. Send(p)
    BY <1>0, <1>1, <1>2 DEF Send
  <1>4. AdminInv'
    BY <1>3, AdminTypeStep, LockedStep, CheckedStep DEF ScreenInv, AdminInv, AdminNext
  <1>5. s \in Screens
    BY ScreenFields DEF Screens
  <1>6. /\ s.selected = screen[p].selected /\ s.toggled = screen[p].toggled
        /\ s.known = screen[p].known /\ s.sent = method /\ s.answer = "none"
        /\ s.pc = screen[p].pc /\ s.listed = screen[p].listed /\ s.fresh = screen[p].fresh
        /\ s.offered = screen[p].offered /\ s.target = screen[p].target
        /\ s.changes = screen[p].toggled
    BY DEF Screens
  <1>. HIDE DEF s
  <1>7. ScreenOK(s)
    BY <1>1, <1>6 DEF ScreenOK, Shown
  <1>8. SentOK(s, req'[p])
    <2>1. CASE method = "PATCH"
      <3>1. /\ b.ads = screen[p].selected /\ b.name = screen[p].user.name
            /\ b.ads \in SUBSET Accounts /\ b.name \in Names /\ b.ads # Keep
        BY ScreenFields, UserAdminAssumption DEF Rows
      <3>2. req' = [req EXCEPT ![p] = [pc |-> "checkUpdate", target |-> screen[p].target, body |-> b]]
        BY <1>0, <2>1, <3>1 DEF BeginUpdate, Become
      <3>. HIDE DEF b
      <3>3. /\ req'[p].pc = "checkUpdate" /\ req'[p].target = screen[p].target
            /\ req'[p].body = b
        BY <3>2
      <3>4. s.changes = Differing(b.ads, s.known)
        BY <1>6, <3>1 DEF ScreenOK
      <3>. QED  BY <1>6, <2>1, <3>1, <3>3, <3>4 DEF SentOK
    <2>2. CASE method = "DELETE"
      <3>1. req'[p].pc = "delete"
        BY <1>0, <2>2 DEF BeginDelete, Become
      <3>. QED  BY <1>6, <2>2, <3>1 DEF SentOK
    <2>. QED  BY <2>1, <2>2
  <1>9. /\ screen' \in [Requests -> Screens] /\ screen'[p] = s
        /\ \A q \in Requests \ {p} : screen'[q] = screen[q]
    BY <1>1, <1>5
  <1>10. \A q \in Requests \ {p} : req'[q] = req[q]
    BY <1>3, ServeFrame DEF ScreenInv, AdminInv
  <1>11. \A q \in Requests : ScreenOK(screen'[q]) /\ SentOK(screen'[q], req'[q])
    BY <1>7, <1>8, <1>9, <1>10 DEF ScreenInv
  <1>12. \A q \in Requests : ScreenOK(screen[q])'
    BY <1>1, <1>11 DEF ScreenOK, LiveAccounts
  <1>13. \A q \in Requests : SentOK(screen[q], req[q])'
    BY <1>11 DEF SentOK
  <1>. QED  BY <1>4, <1>9, <1>12, <1>13 DEF ScreenInv

-----------------------------------------------------------------------------
\* The steps of UserAdmin, as the screens see them.

\* A screen that sees rows change is not fresh any more.
LEMMA FreshKeeps ==
    ASSUME NEW s \in Screens, ScreenOK(s), NEW r, SentOK(s, r),
           NEW still \in BOOLEAN, still => UNCHANGED account
    PROVE  /\ [s EXCEPT !.fresh = s.fresh /\ still] \in Screens
           /\ ScreenOK([s EXCEPT !.fresh = s.fresh /\ still])'
           /\ SentOK([s EXCEPT !.fresh = s.fresh /\ still], r)
  <1>. DEFINE f == s.fresh /\ still
              t == [s EXCEPT !.fresh = f]
  <1>1. f \in BOOLEAN
    OBVIOUS
  <1>2. f => s.fresh /\ still
    OBVIOUS
  <1>. HIDE DEF f
  <1>3. /\ t \in Screens
        /\ t.selected = s.selected /\ t.toggled = s.toggled /\ t.known = s.known
        /\ t.sent = s.sent /\ t.answer = s.answer /\ t.pc = s.pc /\ t.listed = s.listed
        /\ t.offered = s.offered /\ t.target = s.target /\ t.changes = s.changes
        /\ t.fresh = f
    BY <1>1, ScreenFields DEF Screens
  <1>. HIDE DEF t
  <1>4. ScreenOK(t)'
    <2>1. f => LiveAccounts' = LiveAccounts
      BY <1>2 DEF LiveAccounts
    <2>. QED  BY <1>2, <1>3, <2>1 DEF ScreenOK
  <1>5. SentOK(t, r)
    BY <1>3 DEF SentOK
  <1>. QED  BY <1>3, <1>4, <1>5 DEF t, f

\* The screen whose request is answered; one that is refused for its accounts had one
\* among them that is not live.
LEMMA AnsweredOK ==
    ASSUME ScreenInv, NEW p \in Requests, NEW a \in {"none", "badAccounts", "done", "error"},
           screen[p].sent # "nothing", NEW r,
           a = "badAccounts" => /\ screen[p].sent = "PATCH"
                                /\ \E x \in req[p].body.ads : account[x] # "live"
    PROVE  /\ Answered(p, a) \in Screens
           /\ ScreenOK(Answered(p, a))
           /\ SentOK(Answered(p, a), r)
  <1>. /\ screen[p] \in Screens /\ ScreenOK(screen[p]) /\ SentOK(screen[p], req[p])
       /\ AdminTypeOK
    BY DEF ScreenInv, AdminInv
  <1>. DEFINE s == screen[p]
  <1>0. s.sent \in {"PATCH", "DELETE"}
    BY ScreenFields
  <1>1. CASE a = "done" /\ s.sent = "PATCH"
    <2>. DEFINE b == req[p].body
                t == Saved(s, b)
    <2>1. b.ads \in SUBSET Accounts /\ b.name \in Names
      BY <1>1 DEF SentOK
    <2>2. [s.user EXCEPT !.name = b.name] \in Rows
      BY <2>1, ScreenFields DEF Rows
    <2>3. /\ t \in Screens
          /\ t.sent = "nothing" /\ t.answer = "done" /\ t.known = b.ads
          /\ t.toggled = Differing(s.selected, b.ads) /\ t.selected = s.selected
          /\ t.pc = s.pc /\ t.listed = s.listed /\ t.fresh = s.fresh /\ t.offered = s.offered
      <3>1. (b.ads \ s.selected) \cup (s.selected \ b.ads) \in SUBSET Accounts
        BY <2>1, ScreenFields
      <3>. QED  BY <2>1, <2>2, <3>1 DEF Saved, Screens, Differing
    <2>4. Answered(p, a) = t
      BY <1>1 DEF Answered
    <2>. HIDE DEF t
    <2>5. s.pc = "ready"
      BY <1>0 DEF ScreenOK
    <2>6. ScreenOK(t)
      BY <2>3, <2>5 DEF ScreenOK
    <2>7. SentOK(t, r)
      BY <2>3 DEF SentOK
    <2>. QED  BY <2>3, <2>4, <2>6, <2>7
  <1>2. CASE a = "done" /\ s.sent = "DELETE"
    <2>1. Answered(p, a) = NewScreen(s.target, "closed")
      BY <1>2 DEF Answered
    <2>2. s.target \in Users
      BY ScreenFields
    <2>3. /\ NewScreen(s.target, "closed") \in Screens
          /\ ScreenOK(NewScreen(s.target, "closed"))
          /\ SentOK(NewScreen(s.target, "closed"), r)
      BY <2>2, NewScreenOK
    <2>. HIDE DEF ScreenOK, SentOK
    <2>. QED  BY <2>1, <2>3
  <1>3. CASE a # "done"
    <2>. DEFINE t == Failed(s, a)
    <2>1. Answered(p, a) = t
      BY <1>3 DEF Answered
    <2>2. /\ t \in Screens
          /\ t.sent = "nothing" /\ t.answer = a /\ t.known = s.known
          /\ t.toggled = s.toggled /\ t.selected = s.selected
          /\ t.pc = s.pc /\ t.listed = s.listed /\ t.fresh = s.fresh /\ t.offered = s.offered
      BY ScreenFields DEF Failed, Screens
    <2>. HIDE DEF t
    <2>3. a = "badAccounts" /\ s.fresh => ~(s.selected \subseteq s.offered)
      <3>. SUFFICES ASSUME a = "badAccounts", s.fresh
                    PROVE  ~(s.selected \subseteq s.offered)
        OBVIOUS
      <3>1. PICK x \in req[p].body.ads : account[x] # "live"
        OBVIOUS
      <3>2. s.offered = LiveAccounts
        BY <1>0 DEF ScreenOK
      <3>3. x \in req[p].body.ads \ s.offered
        BY <3>1, <3>2 DEF LiveAccounts
      <3>. QED  BY <3>3 DEF SentOK
    <2>4. ScreenOK(t)
      BY <1>0, <2>2, <2>3 DEF ScreenOK
    <2>5. SentOK(t, r)
      BY <2>2 DEF SentOK
    <2>. QED  BY <2>1, <2>2, <2>4, <2>5
  <1>. QED  BY <1>0, <1>1, <1>2, <1>3

\* What an observed step has to keep of the requests the screens wait for.
LEMMA ObserveKeeps ==
    ASSUME ScreenInv, AdminInv', NEW a \in {"none", "badAccounts", "done", "error"}, Observe(a),
           \A p \in Requests : screen[p].sent # "nothing" /\ req'[p] # Idle =>
               SentOK(screen[p], req'[p]),
           a = "badAccounts" =>
               \A p \in Requests : screen[p].sent # "nothing" /\ req'[p] = Idle =>
                   /\ screen[p].sent = "PATCH"
                   /\ \E x \in req[p].body.ads : account[x] # "live"
    PROVE  ScreenInv'
  <1>. DEFINE still == ~(<<row, perms, account>>' # <<row, perms, account>>)
              next(p) == IF screen[p].sent # "nothing" /\ req'[p] = Idle THEN Answered(p, a)
                         ELSE screen[p]
              fresh(s) == [s EXCEPT !.fresh = s.fresh /\ still]
  <1>1. screen' = [p \in Requests |-> fresh(next(p))]
    BY DEF Observe
  <1>2. still \in BOOLEAN /\ (still => UNCHANGED account)
    OBVIOUS
  <1>3. ASSUME NEW p \in Requests
        PROVE  next(p) \in Screens /\ ScreenOK(next(p)) /\ SentOK(next(p), req'[p])
    <2>1. CASE screen[p].sent # "nothing" /\ req'[p] = Idle
      <3>1. /\ Answered(p, a) \in Screens /\ ScreenOK(Answered(p, a))
            /\ SentOK(Answered(p, a), req'[p])
        <4>. HIDE DEF ScreenOK, SentOK
        <4>. QED  BY <2>1, AnsweredOK
      <3>. QED  BY <2>1, <3>1
    <2>2. CASE screen[p].sent # "nothing" /\ req'[p] # Idle
      BY <2>2 DEF ScreenInv
    <2>3. CASE screen[p].sent = "nothing"
      <3>1. SentOK(screen[p], req'[p])
        BY <2>3 DEF SentOK
      <3>. QED  BY <2>3, <3>1 DEF ScreenInv
    <2>. QED  BY <2>1, <2>2, <2>3
  <1>. HIDE DEF still, next
  <1>4. ASSUME NEW p \in Requests
        PROVE  screen'[p] \in Screens /\ ScreenOK(screen[p])' /\ SentOK(screen[p], req[p])'
    <2>1. PICK s, r, w : s = next(p) /\ r = req'[p] /\ w = still
      OBVIOUS
    <2>. DEFINE t == [s EXCEPT !.fresh = s.fresh /\ w]
    <2>2. s \in Screens /\ ScreenOK(s) /\ SentOK(s, r) /\ w \in BOOLEAN /\ (w => UNCHANGED account)
      BY <1>2, <1>3, <2>1
    <2>3. t \in Screens /\ ScreenOK(t)' /\ SentOK(t, r)
      <3>. HIDE DEF ScreenOK, SentOK
      <3>. QED  BY <2>2, FreshKeeps
    <2>4. screen'[p] = t
      BY <1>1, <2>1
    <2>. HIDE DEF t
    <2>5. ScreenOK(screen[p])'
      BY <2>3, <2>4 DEF ScreenOK, LiveAccounts
    <2>. QED  BY <2>1, <2>3, <2>4, <2>5
  <1>5. screen' \in [Requests -> Screens]
    BY <1>1, <1>4
  <1>. QED  BY <1>4, <1>5 DEF ScreenInv

\* A request whose answer a screen waits for, and that another one does not touch.
LEMMA OthersKeep ==
    ASSUME ScreenInv, NEW p \in Requests, Send(p) \/ Serve(p), NEW q \in Requests \ {p},
           screen[q].sent # "nothing"
    PROVE  SentOK(screen[q], req'[q]) /\ req'[q] # Idle
  <1>1. req'[q] = req[q]
    BY ServeFrame DEF ScreenInv, AdminInv
  <1>2. SentOK(screen[q], req[q]) /\ screen[q].sent \in {"PATCH", "DELETE"}
    BY ScreenFields DEF ScreenInv
  <1>3. req[q].pc # "idle"
    BY <1>2 DEF SentOK
  <1>. QED  BY <1>1, <1>2, <1>3 DEF Idle

\* A PATCH that goes on keeps its user and its body.
LEMMA OwnKeeps ==
    ASSUME ScreenInv, NEW p \in Requests, Serve(p),
           screen[p].sent # "nothing", req'[p] # Idle
    PROVE  SentOK(screen[p], req'[p])
  <1>. req \in [Requests -> RequestStates] /\ req[p] \in RequestStates
    BY DEF ScreenInv, AdminInv, AdminTypeOK, RequestStates
  <1>. SentOK(screen[p], req[p]) /\ screen[p].sent \in {"PATCH", "DELETE"}
    BY ScreenFields DEF ScreenInv
  <1>1. CASE CheckAccounts(p)
    <2>1. req[p].pc = "checkUpdate" /\ screen[p].sent = "PATCH"
      BY <1>1 DEF CheckAccounts, SentOK
    <2>2. req[p] \in Updating
      BY <2>1, RequestShape
    <2>3. req'[p] = [req[p] EXCEPT !.pc = "read"]
      BY <1>1, <2>1 DEF CheckAccounts, Become, Finish
    <2>4. req'[p].pc = "read" /\ req'[p].target = req[p].target /\ req'[p].body = req[p].body
      BY <2>2, <2>3 DEF Updating
    <2>. QED  BY <2>1, <2>4 DEF SentOK
  <1>2. CASE SelectForUpdate(p)
    <2>1. req[p].pc = "read" /\ screen[p].sent = "PATCH"
      BY <1>2 DEF SelectForUpdate, SentOK
    <2>2. req'[p] = Write(p)
      BY <1>2 DEF SelectForUpdate, Become, Finish
    <2>3. req'[p].pc = "write" /\ req'[p].target = req[p].target /\ req'[p].body = req[p].body
      BY <2>2 DEF Write
    <2>. QED  BY <2>1, <2>3 DEF SentOK
  <1>3. CASE CommitUpdate(p) \/ CreateUser(p) \/ SoftDeleteUser(p) \/ CallFails(p)
    <2>1. req'[p] = Idle
      BY <1>3 DEF CommitUpdate, CreateUser, SoftDeleteUser, CallFails, Finish, Become
    <2>. QED  BY <2>1
  <1>. QED  BY <1>1, <1>2, <1>3 DEF Serve

\* The steps of UserAdmin that a screen does not take.
LEMMA AdminStepKeeps ==
    ASSUME ScreenInv, AdminStep
    PROVE  ScreenInv'
  <1>. req \in [Requests -> RequestStates]
    BY DEF ScreenInv, AdminInv, AdminTypeOK, RequestStates
  <1>1. AdminNext
    BY DEF AdminStep, AdminNext, Serve
  <1>2. AdminInv'
    BY <1>1, AdminTypeStep, LockedStep, CheckedStep DEF ScreenInv, AdminInv
  <1>3. ASSUME NEW p \in Requests, Serve(p),
               NEW a \in {"none", "badAccounts", "done", "error"}, Observe(a),
               a = "badAccounts" => CheckAccounts(p)
        PROVE  ScreenInv'
    <2>1. \A q \in Requests : screen[q].sent # "nothing" /\ req'[q] # Idle =>
              SentOK(screen[q], req'[q])
      BY <1>3, OthersKeep, OwnKeeps
    <2>2. ASSUME a = "badAccounts", NEW q \in Requests, screen[q].sent # "nothing", req'[q] = Idle
          PROVE  screen[q].sent = "PATCH" /\ \E x \in req[q].body.ads : account[x] # "live"
      <3>1. q = p
        BY <1>3, <2>2, OthersKeep
      <3>2. CheckAccounts(p) /\ SentOK(screen[p], req[p]) /\ screen[p].sent \in {"PATCH", "DELETE"}
        BY <1>3, <2>2, <3>1, ScreenFields DEF ScreenInv
      <3>3. screen[p].sent = "PATCH" /\ req[p].pc = "checkUpdate"
        BY <3>2 DEF CheckAccounts, SentOK
      <3>4. req[p] \in Updating
        BY <3>3, RequestShape
      <3>5. MissingAdAccountIDs(req[p].body.ads) # {}
        <4>. SUFFICES ASSUME MissingAdAccountIDs(req[p].body.ads) = {} PROVE FALSE
          OBVIOUS
        <4>1. req'[p] = [req[p] EXCEPT !.pc = "read"]
          BY <3>2, <3>3 DEF CheckAccounts, Become
        <4>2. req'[p].pc = "read"
          BY <3>4, <4>1 DEF Updating
        <4>. QED  BY <2>2, <3>1, <4>2 DEF Idle
      <3>. QED  BY <3>1, <3>3, <3>5 DEF MissingAdAccountIDs
    <2>. QED  BY <1>2, <1>3, <2>1, <2>2, ObserveKeeps
  <1>4. ASSUME NEW p \in Requests, Send(p), Observe("none")
        PROVE  ScreenInv'
    <2>1. req[p] = Idle
      BY <1>4 DEF Send
    <2>2. screen[p].sent = "nothing"
      <3>1. SentOK(screen[p], req[p]) /\ screen[p].sent \in {"nothing", "PATCH", "DELETE"}
        BY ScreenFields DEF ScreenInv
      <3>. QED  BY <2>1, <3>1 DEF SentOK, Idle
    <2>3. \A q \in Requests : screen[q].sent # "nothing" /\ req'[q] # Idle =>
              SentOK(screen[q], req'[q])
      BY <1>4, <2>2, OthersKeep
    <2>. QED  BY <1>2, <1>4, <2>3, ObserveKeeps
  <1>5. CASE SyncAccounts /\ Observe("none")
    <2>1. req' = req
      BY <1>5 DEF SyncAccounts, UpsertAccount, SoftDeleteAccount
    <2>2. \A q \in Requests : SentOK(screen[q], req'[q])
      BY <2>1 DEF ScreenInv
    <2>. QED  BY <1>2, <1>5, <2>2, ObserveKeeps
  <1>6. CASE Restart /\ Observe("error")
    <2>1. \A q \in Requests : req'[q] = Idle
      BY <1>6 DEF Restart
    <2>. QED  BY <1>2, <1>6, <2>1, ObserveKeeps
  <1>. QED
    <2>. HIDE DEF Observe
    <2>1. \/ \E p \in Requests : Serve(p) /\ (Observe("done") \/ Observe("error") \/ Observe("none"))
          \/ \E p \in Requests : CheckAccounts(p) /\ Observe("badAccounts")
          \/ \E p \in Requests : Send(p) /\ Observe("none")
          \/ SyncAccounts /\ Observe("none")
          \/ Restart /\ Observe("error")
      BY DEF AdminStep, Serve
    <2>. QED  BY <1>3, <1>4, <1>5, <1>6, <2>1 DEF Serve

-----------------------------------------------------------------------------
\* The theorems.

LEMMA ScreenStepInv == ScreenInv /\ [ScreenNext]_screenVars => ScreenInv'
  <1>. SUFFICES ASSUME ScreenInv, [ScreenNext]_screenVars PROVE ScreenInv'
    OBVIOUS
  <1>1. CASE AdminStep
    BY <1>1, AdminStepKeeps
  <1>2. ASSUME NEW p \in Requests, ScreenStep(p)
        PROVE  ScreenInv'
    BY <1>2, LoadKeeps, SubmitKeeps DEF ScreenStep
  <1>3. CASE UNCHANGED screenVars
    BY <1>3 DEF screenVars, adminVars, ScreenInv, AdminInv, AdminTypeOK, LockedInv, CheckedInv,
                Live, ForeignKeys, Exists, ScreenOK, SentOK, LiveAccounts
  <1>. QED  BY <1>1, <1>2, <1>3 DEF ScreenNext

\* What the screens know of the tables holds in every state.
THEOREM ScreenInvariant == ScreenSpec => []ScreenInv
  BY ScreenInitInv, ScreenStepInv, PTL DEF ScreenSpec

\* The variables keep their types, and a screen waits only for a request that is
\* under way.
THEOREM ScreenTypeCorrect == ScreenSpec => []ScreenTypeOK
  <1>1. ScreenInv => ScreenTypeOK
    <2>. SUFFICES ASSUME ScreenInv, NEW p \in Requests, screen[p].sent # "nothing"
                  PROVE  req[p] # Idle
      BY DEF ScreenInv, AdminInv, ScreenTypeOK
    <2>1. SentOK(screen[p], req[p]) /\ screen[p].sent \in {"PATCH", "DELETE"}
      BY ScreenFields DEF ScreenInv
    <2>. QED  BY <2>1 DEF SentOK, Idle
  <1>. QED  BY <1>1, ScreenInvariant, PTL

\* ensureAdAccountsExist refuses a save of a screen that nobody has overtaken only for
\* an account that the screen does not list.
THEOREM RefusedOnlyForHiddenAlways == ScreenSpec => []RefusedOnlyForHidden
  <1>1. ScreenInv => RefusedOnlyForHidden
    BY DEF ScreenInv, ScreenOK, RefusedOnlyForHidden
  <1>. QED  BY <1>1, ScreenInvariant, PTL

\* Only the commit of an update changes the permissions of the user whose row it has
\* locked, and they become those of its body.
LEMMA OnlyTheOwnerWrites ==
    ASSUME ScreenInv, [ScreenNext]_screenVars, NEW p \in Requests, req[p].pc = "write",
           perms'[req[p].target] # perms[req[p].target]
    PROVE  perms'[req[p].target] = req[p].body.ads
  <1>. /\ req \in [Requests -> RequestStates] /\ req[p] \in Writing /\ req[p].target \in Users
       /\ perms \in [Users -> SUBSET Accounts] /\ row[req[p].target].state = "live"
       /\ rowLock[req[p].target] = p
    BY RequestShape DEF ScreenInv, AdminInv, AdminTypeOK, LockedInv, Live, RequestStates
  <1>1. PICK q \in Requests : CommitUpdate(q) \/ CreateUser(q)
    <2>1. CASE AdminStep
      BY <2>1 DEF AdminStep, CheckAccounts, SelectForUpdate, SoftDeleteUser, CallFails, Send,
                  SyncAccounts, UpsertAccount, SoftDeleteAccount, Restart
    <2>2. ASSUME NEW q \in Requests, ScreenStep(q)
          PROVE  UNCHANGED perms
      BY <2>2 DEF ScreenStep, OpenScreen, LoadFails, LoadUser, LoadPermissions, ListAllAdAccounts,
                  ToggleAccount, Edit, Save, Delete, Submit, adminVars
    <2>. QED  BY <2>1, <2>2 DEF ScreenNext, screenVars, adminVars
  <1>2. CASE CreateUser(q)
    <2>1. PICK u \in Users : row[u].state = "absent" /\ perms' = [perms EXCEPT ![u] = req[q].body.ads]
      BY <1>2 DEF CreateUser, ReplacePermissions
    <2>. QED  BY <2>1
  <1>3. CASE CommitUpdate(q)
    <2>1. /\ req[q].pc = "write"
          /\ perms' = perms \/ perms' = [perms EXCEPT ![req[q].target] = req[q].body.ads]
      BY <1>3 DEF CommitUpdate, ReplacePermissions
    <2>2. req[q].target = req[p].target
      BY <2>1
    <2>3. q = p
      BY <2>1, <2>2 DEF ScreenInv, AdminInv, LockedInv
    <2>. QED  BY <2>1, <2>3
  <1>. QED  BY <1>1, <1>2, <1>3

\* A save changes the permissions whose boxes were used, and those that somebody else
\* has changed since they were loaded.
THEOREM SaveKeepsUntouchedAlways == ScreenSpec => SaveKeepsUntouched
  <1>1. ASSUME ScreenInv, [ScreenNext]_screenVars, NEW p \in Requests,
               screen[p].sent = "PATCH", req[p].pc = "write",
               perms'[screen[p].target] # perms[screen[p].target],
               NEW a \in Accounts,
               (a \in perms[screen[p].target]) # (a \in perms'[screen[p].target])
        PROVE  \/ a \in screen[p].changes
               \/ (a \in perms[screen[p].target]) # (a \in screen[p].known)
    <2>1. SentOK(screen[p], req[p])
      BY <1>1 DEF ScreenInv
    <2>2. /\ req[p].target = screen[p].target
          /\ screen[p].changes = Differing(req[p].body.ads, screen[p].known)
      BY <1>1, <2>1 DEF SentOK
    <2>3. perms'[screen[p].target] = req[p].body.ads
      BY <1>1, <2>2, OnlyTheOwnerWrites
    <2>. DEFINE old == perms[screen[p].target]
                new == perms'[screen[p].target]
                known == screen[p].known
    <2>4. screen[p].changes = Differing(new, known)
      BY <2>2, <2>3
    <2>5. (a \in old) # (a \in new)
      BY <1>1
    <2>. SUFFICES a \in Differing(new, known) \/ (a \in old) # (a \in known)
      BY <2>4
    <2>. HIDE DEF old, new, known
    <2>. QED  BY <2>5 DEF Differing
  <1>2. ScreenInv /\ [ScreenNext]_screenVars =>
            [\A p \in Requests :
               LET s == screen[p]
                   old == perms[s.target]
                   new == perms'[s.target]
               IN  s.sent = "PATCH" /\ req[p].pc = "write" /\ new # old =>
                       \A a \in Accounts :
                           (a \in old) # (a \in new) =>
                               a \in s.changes \/ (a \in old) # (a \in s.known)]_screenVars
    BY <1>1
  <1>. QED  BY <1>2, ScreenInvariant, PTL DEF ScreenSpec, SaveKeepsUntouched

\* What a screen sends is a request like any other: with the screens, every behaviour
\* of the requests is one of UserAdmin, and all that is proved of it holds.
THEOREM ScreensAreClients == ScreenSpec => AdminSpec /\ KeepsStore
  <1>1. ScreenInit => AdminInit
    BY DEF ScreenInit
  <1>2. ScreenInv /\ [ScreenNext]_screenVars => [AdminNext]_adminVars
    <2>. SUFFICES ASSUME ScreenInv, [ScreenNext]_screenVars
                  PROVE  [AdminNext]_adminVars
      OBVIOUS
    <2>1. CASE AdminStep
      BY <2>1 DEF AdminStep, AdminNext, Serve
    <2>2. ASSUME NEW p \in Requests, Save(p) \/ Delete(p)
          PROVE  AdminNext
      <3>1. screen[p].target \in Users
        BY ScreenFields DEF ScreenInv
      <3>2. Send(p)
        BY <2>2, <3>1 DEF Save, Delete, Submit, Send
      <3>. QED  BY <3>2 DEF AdminNext
    <2>3. ASSUME NEW p \in Requests, ScreenStep(p), ~Save(p), ~Delete(p)
          PROVE  UNCHANGED adminVars
      BY <2>3 DEF ScreenStep, OpenScreen, LoadFails, LoadUser, LoadPermissions, ListAllAdAccounts,
                  ToggleAccount, Edit
    <2>4. CASE UNCHANGED screenVars
      BY <2>4 DEF screenVars
    <2>. QED  BY <2>1, <2>2, <2>3, <2>4 DEF ScreenNext
  <1>. QED  BY <1>1, <1>2, ScreenInvariant, KeepsStoreAlways, PTL DEF ScreenSpec, AdminSpec
=============================================================================
