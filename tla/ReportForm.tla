------------------------------ MODULE ReportForm ------------------------------
(***************************************************************************)
(* The page CreateReport and the checks of POST /report, over UserAdmin:   *)
(* the page offers a user the accounts of GET /me/ad_accounts and posts a  *)
(* report for some of them. It shows what it loaded until it is opened     *)
(* again, so that the handler checks the permissions once more, and inserts *)
(* the report in a later step.                                             *)
(***************************************************************************)
EXTENDS UserAdmin

VARIABLE form   \* the page of each user, with the POST it waits for

formVars == <<adminVars, form>>

\* fresh: no row of users, permissions or ad accounts has changed since the page
\* began to load.
Forms ==
    [pc : {"closed", "load", "open", "check", "create"}, offered : SUBSET Accounts,
     picked : SUBSET Accounts, fresh : BOOLEAN,
     answer : {"none", "unauthorized", "forbidden", "error", "accepted"}]

\* The types; a report that is being made asks for some account.
FormTypeOK ==
    /\ AdminTypeOK
    /\ form \in [Users -> Forms]
    /\ \A u \in Users : form[u].pc \in {"check", "create"} => form[u].picked # {}

LiveAccounts == {a \in Accounts : account[a] = "live"}

ClosedForm ==
    [pc |-> "closed", offered |-> {}, picked |-> {}, fresh |-> FALSE, answer |-> "none"]

FormInit == AdminInit /\ form = [u \in Users |-> ClosedForm]

-----------------------------------------------------------------------------

\* Mutant: GET /me/ad_accounts does not look at is_deleted.
ListUserAdAccountsWithDeleted(u) == {a \in perms[u] : Exists(a)}

\* What GET /me/ad_accounts answers.
ListUserAdAccounts(u) == perms[u] \cap LiveAccounts

\* The page opens or is reloaded and asks for its accounts; withUser looks at the user
\* first, without whom the page stays empty.
OpenForm(u) ==
    /\ form[u].pc \in {"closed", "open"}
    /\ form' = [form EXCEPT ![u] =
                   IF Live(u) THEN [ClosedForm EXCEPT !.pc = "load", !.fresh = TRUE]
                   ELSE ClosedForm]
    /\ UNCHANGED adminVars

\* The query that lists comes later, and may fail.
LoadAdAccounts(u) ==
    /\ form[u].pc = "load"
    /\ \/ form' = [form EXCEPT ![u].pc = "open", ![u].offered = ListUserAdAccounts(u)]
       \/ form' = [form EXCEPT ![u] = ClosedForm]
    /\ UNCHANGED adminVars

\* Mutant: neither the page nor the handler looks for an empty list.
SubmitUnvalidated(u, picked) ==
    /\ form[u].pc = "open"
    /\ form' = [form EXCEPT
                   ![u].picked = picked,
                   ![u].fresh = @ /\ picked \subseteq form[u].offered,
                   ![u].pc = IF Live(u) THEN "check" ELSE "open",
                   ![u].answer = IF Live(u) THEN "none" ELSE "unauthorized"]
    /\ UNCHANGED adminVars

\* POST /report for accounts the page offers, or from a client of the API for any.
Submit(u, picked) ==
    /\ form[u].pc = "open"
    /\ picked # {}
    /\ form' = [form EXCEPT
                   ![u].picked = picked,
                   ![u].fresh = @ /\ picked \subseteq form[u].offered,
                   ![u].pc = IF Live(u) THEN "check" ELSE "open",
                   ![u].answer = IF Live(u) THEN "none" ELSE "unauthorized"]
    /\ UNCHANGED adminVars

\* The query that authorises is not the one that lists.
UnauthorizedAccountIDs(u, ads) == {a \in ads : a \notin perms[u] \/ account[a] # "live"}

\* Nothing may be asked for that the user lacks.
Authorize(u) ==
    LET allowed == UnauthorizedAccountIDs(u, form[u].picked) = {}
    IN  /\ form[u].pc = "check"
        /\ form' = [form EXCEPT ![u].pc = IF allowed THEN "create" ELSE "open",
                                ![u].answer = IF allowed THEN "none" ELSE "forbidden"]
        /\ UNCHANGED adminVars

\* The rows of report and report_ad_account, with their foreign keys.
InsertReport(u) ==
    /\ form[u].pc = "create"
    /\ ForeignKeys(form[u].picked)
    /\ form' = [form EXCEPT ![u].pc = "open", ![u].answer = "accepted"]
    /\ UNCHANGED adminVars

\* A query fails: the handler answers 500, and nothing is inserted.
SubmitFails(u) ==
    /\ form[u].pc \in {"check", "create"}
    /\ form' = [form EXCEPT ![u].pc = "open", ![u].answer = "error"]
    /\ UNCHANGED adminVars

FormStep(u) ==
    \/ OpenForm(u) \/ LoadAdAccounts(u) \/ Authorize(u) \/ InsertReport(u) \/ SubmitFails(u)
    \/ \E picked \in SUBSET Accounts : Submit(u, picked)

\* A step of UserAdmin, which may change something under the page.
AdminStep ==
    /\ AdminNext
    /\ LET changed == <<row, perms, account>>' # <<row, perms, account>>
       IN  form' = [u \in Users |-> [form[u] EXCEPT !.fresh = @ /\ ~changed]]

FormNext == AdminStep \/ \E u \in Users : FormStep(u)

FormSpec == FormInit /\ [][FormNext]_formVars

-----------------------------------------------------------------------------
\* Properties.

\* A report for accounts that the page offers is refused only when something has
\* changed since the page loaded: the query that lists the accounts and the one
\* that authorises them agree.
OfferedIsAllowed == \A u \in Users : form[u].answer = "forbidden" => ~form[u].fresh

\* The foreign key of report_ad_account never refuses a report that passed the
\* check of the permissions, whatever the batch and the admins do after it.
ReportAccountsExist == \A u \in Users : form[u].pc = "create" => ForeignKeys(form[u].picked)
=============================================================================
