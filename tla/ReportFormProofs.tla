--------------------------- MODULE ReportFormProofs ---------------------------
(***************************************************************************)
(* What the page for new reports and POST /report keep, for any number of  *)
(* users and accounts. A page that nothing has changed under shows what    *)
(* the second query of the handler would find (FreshInv), and a report     *)
(* that passed its check asks for accounts that have rows (CreatingInv):   *)
(* they keep them, by lemma AccountsStay.                                  *)
(***************************************************************************)
EXTENDS ReportForm, UserAdminProofs

FreshInv ==
    \A u \in Users :
        form[u].fresh =>
            /\ form[u].pc # "load" => form[u].offered = ListUserAdAccounts(u)
            /\ form[u].pc = "load" => form[u].picked = {}
            /\ form[u].picked \subseteq form[u].offered
            /\ form[u].answer # "forbidden"

CreatingInv == \A u \in Users : form[u].pc = "create" => ForeignKeys(form[u].picked)

FormInv == FormTypeOK /\ FreshInv /\ CreatingInv

LEMMA FormInitInv == FormInit => FormInv
  <1>. SUFFICES ASSUME FormInit PROVE FormInv
    OBVIOUS
  <1>1. AdminTypeOK
    BY AdminTypeInit DEF FormInit
  <1>2. form = [u \in Users |-> ClosedForm] /\ ClosedForm \in Forms
    BY DEF FormInit, ClosedForm, Forms
  <1>3. \A u \in Users : form[u].pc = "closed" /\ form[u].fresh = FALSE
    BY <1>2 DEF ClosedForm
  <1>. QED  BY <1>1, <1>2, <1>3 DEF FormInv, FormTypeOK, FreshInv, CreatingInv

\* A step of one user's page, by what it makes of the page.
LEMMA PageStep ==
    ASSUME FormInv, NEW u \in Users, UNCHANGED adminVars,
           NEW f \in Forms, form' = [form EXCEPT ![u] = f],
           f.pc \in {"check", "create"} => f.picked # {},
           f.fresh => /\ f.pc # "load" => f.offered = ListUserAdAccounts(u)
                      /\ f.pc = "load" => f.picked = {}
                      /\ f.picked \subseteq f.offered
                      /\ f.answer # "forbidden",
           f.pc = "create" => ForeignKeys(f.picked)
    PROVE  FormInv'
  <1>1. AdminTypeOK'
    BY DEF FormInv, FormTypeOK, AdminTypeOK, adminVars
  <1>2. /\ form' \in [Users -> Forms] /\ form'[u] = f
        /\ \A v \in Users \ {u} : form'[v] = form[v]
    BY DEF FormInv, FormTypeOK
  <1>3. FormTypeOK'
    BY <1>1, <1>2 DEF FormInv, FormTypeOK
  <1>4. FreshInv'
    BY <1>2 DEF FormInv, FreshInv, ListUserAdAccounts, LiveAccounts, adminVars
  <1>5. CreatingInv'
    BY <1>2 DEF FormInv, CreatingInv, ForeignKeys, Exists, adminVars
  <1>. QED  BY <1>3, <1>4, <1>5 DEF FormInv

LEMMA FormStepKeeps ==
    ASSUME FormInv, NEW u \in Users, FormStep(u)
    PROVE  FormInv'
  <1>. /\ form[u] \in Forms /\ form \in [Users -> Forms]
       /\ form[u].pc \in {"check", "create"} => form[u].picked # {}
       /\ form[u].fresh => /\ form[u].pc # "load" => form[u].offered = ListUserAdAccounts(u)
                           /\ form[u].pc = "load" => form[u].picked = {}
                           /\ form[u].picked \subseteq form[u].offered
                           /\ form[u].answer # "forbidden"
    BY DEF FormInv, FormTypeOK, FreshInv
  <1>0. perms[u] \in SUBSET Accounts
    BY DEF FormInv, FormTypeOK, AdminTypeOK
  <1>1. CASE OpenForm(u)
    <2>. DEFINE asking == [ClosedForm EXCEPT !.pc = "load", !.fresh = TRUE]
                f == IF Live(u) THEN asking ELSE ClosedForm
    <2>1. /\ asking \in Forms /\ asking.pc = "load" /\ asking.picked = {}
          /\ asking.answer = "none"
      BY DEF ClosedForm, Forms
    <2>2. ClosedForm \in Forms /\ ClosedForm.pc = "closed" /\ ClosedForm.fresh = FALSE
      BY DEF ClosedForm, Forms
    <2>3. /\ f \in Forms /\ f.pc \in {"load", "closed"}
          /\ f.fresh => f.pc = "load" /\ f.picked = {} /\ f.answer = "none"
      BY <2>1, <2>2
    <2>4. form' = [form EXCEPT ![u] = f] /\ UNCHANGED adminVars
      BY <1>1 DEF OpenForm
    <2>. HIDE DEF f
    <2>. QED  BY <2>3, <2>4, PageStep
  <1>2. ASSUME NEW picked \in SUBSET Accounts, Submit(u, picked)
        PROVE  FormInv'
    <2>. DEFINE f == [form[u] EXCEPT
                         !.picked = picked,
                         !.fresh = form[u].fresh /\ picked \subseteq form[u].offered,
                         !.pc = IF Live(u) THEN "check" ELSE "open",
                         !.answer = IF Live(u) THEN "none" ELSE "unauthorized"]
    <2>1. /\ f \in Forms /\ f.picked = picked /\ f.offered = form[u].offered
          /\ f.pc \in {"check", "open"} /\ f.answer # "forbidden"
          /\ f.fresh => form[u].fresh /\ picked \subseteq form[u].offered
      BY DEF Forms
    <2>2. /\ form' = [form EXCEPT ![u] = f] /\ picked # {} /\ UNCHANGED adminVars
          /\ form[u].pc # "load"
      BY <1>2 DEF Submit
    <2>. HIDE DEF f
    <2>. QED  BY <2>1, <2>2, PageStep
  <1>3. CASE Authorize(u)
    <2>. DEFINE allowed == UnauthorizedAccountIDs(u, form[u].picked) = {}
                f == [form[u] EXCEPT !.pc = IF allowed THEN "create" ELSE "open",
                                     !.answer = IF allowed THEN "none" ELSE "forbidden"]
    <2>1. /\ form[u].picked \in SUBSET Accounts /\ form[u].picked # {}
          /\ form[u].pc # "load"
      BY <1>3 DEF Authorize, Forms
    <2>2. form[u].fresh => allowed
      BY <2>1 DEF UnauthorizedAccountIDs, ListUserAdAccounts, LiveAccounts
    <2>3. allowed => ForeignKeys(form[u].picked)
      <3>1. form[u].picked # Keep
        BY <2>1, UserAdminAssumption
      <3>. QED  BY <3>1 DEF UnauthorizedAccountIDs, ForeignKeys, Exists
    <2>4. form' = [form EXCEPT ![u] = f] /\ UNCHANGED adminVars
      BY <1>3 DEF Authorize
    <2>. HIDE DEF allowed
    <2>5. /\ f \in Forms /\ f.picked = form[u].picked /\ f.offered = form[u].offered
          /\ f.fresh = form[u].fresh
          /\ f.pc = (IF allowed THEN "create" ELSE "open")
          /\ f.answer = (IF allowed THEN "none" ELSE "forbidden")
      BY DEF Forms
    <2>. HIDE DEF f
    <2>. QED  BY <2>1, <2>2, <2>3, <2>4, <2>5, PageStep
  <1>4. CASE InsertReport(u) \/ SubmitFails(u)
    <2>1. PICK answer \in {"accepted", "error"} :
              /\ form' = [form EXCEPT ![u] = [form[u] EXCEPT !.pc = "open", !.answer = answer]]
              /\ UNCHANGED adminVars /\ form[u].pc # "load"
      BY <1>4 DEF InsertReport, SubmitFails
    <2>. DEFINE f == [form[u] EXCEPT !.pc = "open", !.answer = answer]
    <2>2. /\ f \in Forms /\ f.picked = form[u].picked /\ f.offered = form[u].offered
          /\ f.fresh = form[u].fresh /\ f.pc = "open" /\ f.answer # "forbidden"
      BY DEF Forms
    <2>3. form' = [form EXCEPT ![u] = f] /\ UNCHANGED adminVars /\ form[u].pc # "load"
      BY <2>1
    <2>. HIDE DEF f
    <2>. QED  BY <2>2, <2>3, PageStep
  <1>5. CASE LoadAdAccounts(u)
    <2>. DEFINE f == [form[u] EXCEPT !.pc = "open", !.offered = ListUserAdAccounts(u)]
    <2>1. ListUserAdAccounts(u) \in SUBSET Accounts
      BY <1>0 DEF ListUserAdAccounts
    <2>2. /\ f \in Forms /\ f.pc = "open" /\ f.picked = form[u].picked
          /\ f.offered = ListUserAdAccounts(u) /\ f.fresh = form[u].fresh
          /\ f.answer = form[u].answer
      BY <2>1 DEF Forms
    <2>3. /\ ClosedForm \in Forms /\ ClosedForm.pc = "closed" /\ ClosedForm.fresh = FALSE
      BY DEF ClosedForm, Forms
    <2>4. /\ form[u].pc = "load" /\ UNCHANGED adminVars
          /\ form' = [form EXCEPT ![u] = f] \/ form' = [form EXCEPT ![u] = ClosedForm]
      BY <1>5 DEF LoadAdAccounts
    <2>. HIDE DEF f
    <2>5. CASE form' = [form EXCEPT ![u] = f]
      BY <2>2, <2>4, <2>5, PageStep
    <2>6. CASE form' = [form EXCEPT ![u] = ClosedForm]
      BY <2>3, <2>4, <2>6, PageStep
    <2>. QED  BY <2>4, <2>5, <2>6
  <1>. QED  BY <1>1, <1>2, <1>3, <1>4, <1>5 DEF FormStep

LEMMA FormAdminKeeps ==
    ASSUME FormInv, AdminStep
    PROVE  FormInv'
  <1>. DEFINE changed == <<row, perms, account>>' # <<row, perms, account>>
  <1>1. AdminTypeOK /\ AdminTypeOK'
    BY AdminTypeStep DEF FormInv, FormTypeOK, AdminStep
  <1>2. form \in [Users -> Forms]
    BY DEF FormInv, FormTypeOK
  <1>3. form' = [u \in Users |-> [form[u] EXCEPT !.fresh = form[u].fresh /\ ~changed]]
    BY DEF AdminStep
  <1>4. ~changed => perms' = perms /\ account' = account
    OBVIOUS
  <1>. HIDE DEF changed
  <1>5. ASSUME NEW u \in Users
        PROVE  /\ form'[u] \in Forms /\ form'[u].pc = form[u].pc
               /\ form'[u].picked = form[u].picked /\ form'[u].offered = form[u].offered
               /\ form'[u].answer = form[u].answer
               /\ form'[u].fresh => form[u].fresh /\ ~changed
    <2>1. form[u] \in Forms /\ (form[u].fresh /\ ~changed) \in BOOLEAN
      BY <1>2
    <2>. QED  BY <1>3, <2>1 DEF Forms
  <1>6. form' \in [Users -> Forms]
    BY <1>3, <1>5
  <1>7. FormTypeOK'
    BY <1>1, <1>5, <1>6 DEF FormInv, FormTypeOK
  <1>8. FreshInv'
    BY <1>4, <1>5 DEF FormInv, FreshInv, ListUserAdAccounts, LiveAccounts
  <1>9. CreatingInv'
    <2>. SUFFICES ASSUME NEW u \in Users, form'[u].pc = "create"
                  PROVE  ForeignKeys(form[u].picked)'
      BY DEF CreatingInv
    <2>1. form[u].picked \in SUBSET Accounts /\ form'[u].picked = form[u].picked
      BY <1>2, <1>5 DEF Forms
    <2>2. ForeignKeys(form[u].picked)
      BY <1>5 DEF FormInv, CreatingInv
    <2>3. \A ads \in SUBSET Accounts : ForeignKeys(ads) => ForeignKeys(ads)'
      BY <1>1, AccountsStay DEF AdminStep
    <2>. QED  BY <2>1, <2>2, <2>3 DEF ForeignKeys, Exists
  <1>. QED  BY <1>7, <1>8, <1>9 DEF FormInv

LEMMA FormInvAlways == FormSpec => []FormInv
  <1>1. FormInv /\ [FormNext]_formVars => FormInv'
    <2>. SUFFICES ASSUME FormInv, [FormNext]_formVars PROVE FormInv'
      OBVIOUS
    <2>1. CASE UNCHANGED formVars
      <3>1. UNCHANGED <<row, perms, account, rowLock, req, form>>
        BY <2>1 DEF formVars, adminVars
      <3>2. FormTypeOK'
        BY <3>1 DEF FormInv, FormTypeOK, AdminTypeOK
      <3>3. FreshInv' /\ CreatingInv'
        BY <3>1 DEF FormInv, FreshInv, CreatingInv, ListUserAdAccounts, LiveAccounts,
                    ForeignKeys, Exists
      <3>. QED  BY <3>2, <3>3 DEF FormInv
    <2>. QED  BY <2>1, FormAdminKeeps, FormStepKeeps DEF FormNext
  <1>. QED  BY <1>1, FormInitInv, PTL DEF FormSpec

-----------------------------------------------------------------------------

\* The page and the tables keep their types, and no report for no account is made.
THEOREM FormTypeCorrect == FormSpec => []FormTypeOK
  <1>1. FormInv => FormTypeOK
    BY DEF FormInv
  <1>. QED  BY <1>1, FormInvAlways, PTL

\* The query that lists accounts and the one that authorises them agree: what the page
\* offers is refused only after a change.
THEOREM OfferedIsAllowedAlways == FormSpec => []OfferedIsAllowed
  <1>1. FormInv => OfferedIsAllowed
    BY DEF FormInv, FreshInv, OfferedIsAllowed
  <1>. QED  BY <1>1, FormInvAlways, PTL

\* The foreign key never refuses a report that passed the check.
THEOREM ReportAccountsExistAlways == FormSpec => []ReportAccountsExist
  <1>1. FormInv => ReportAccountsExist
    BY DEF FormInv, CreatingInv, ReportAccountsExist
  <1>. QED  BY <1>1, FormInvAlways, PTL


\* A page writes to nothing that UserAdmin has: with the pages open, every behaviour of
\* the requests is one of UserAdmin, and all that is proved of it holds.
THEOREM FormsAreReaders == FormSpec => AdminSpec /\ KeepsStore
  <1>1. FormInit => AdminInit
    BY DEF FormInit
  <1>2. [FormNext]_formVars => [AdminNext]_adminVars
    BY DEF FormNext, AdminStep, FormStep, OpenForm, LoadAdAccounts, Submit, Authorize, InsertReport, SubmitFails,
           formVars, adminVars
  <1>. QED  BY <1>1, <1>2, KeepsStoreAlways, PTL DEF FormSpec, AdminSpec
=============================================================================
