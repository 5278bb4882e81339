---------------------------- MODULE ReportContents ----------------------------
(***************************************************************************)
(* What a report contains while the batch writes the tables it is made     *)
(* from: the worker's query over report_ad_account, ad_accounts and        *)
(* ad_data, and the charge it computes for each row. The query is one      *)
(* statement, so that a report is a function of the tables at that time.   *)
(*                                                                         *)
(* The medium makes its figures from the account and the day alone, so a   *)
(* row of ad_data always has the same cost.                                *)
(***************************************************************************)
EXTENDS BatchSync, Charge

CONSTANTS
    Cost(_, _),  \* the cost that the medium gives of an account on a day
    Reports      \* rows of report: accounts, from, to and margin rate

\* POST /report refuses a rate outside of Rates (reports.go:43), so that the error of
\* customerChargeJPY is never seen.
ASSUME ContentsAssumption ==
    \A r \in Reports :
        /\ r.accounts \subseteq Accounts
        /\ r.from \in Int /\ r.to \in Int
        /\ r.rate \in Rates
        /\ \A a \in r.accounts : \A d \in r.from..r.to :
               Cost(a, d) \in Nat /\ Cost(a, d) <= MaxCost

\* A line of the file.
CsvRow(a, d, rate) ==
    [account |-> a, date |-> d, cost |-> Cost(a, d), charge |-> CustomerCharge(Cost(a, d), rate)]

\* Mutant: the accounts that are deleted are left out.
ReportRowsOfLive(r) ==
    {CsvRow(row[1], row[2], r.rate) :
        row \in {w \in data : /\ w[1] \in r.accounts /\ Live(w[1])
                              /\ r.from <= w[2] /\ w[2] <= r.to}}

\* Mutant: the last day is left out.
ReportRowsBefore(r) ==
    {CsvRow(row[1], row[2], r.rate) :
        row \in {w \in data : /\ w[1] \in r.accounts /\ account[w[1]] # "absent"
                              /\ r.from <= w[2] /\ w[2] < r.to}}

\* loadReportRows: the inner joins leave out an account that ad_accounts does not
\* have, and take one that is deleted.
ReportRows(r) ==
    {CsvRow(row[1], row[2], r.rate) :
        row \in {w \in data : /\ w[1] \in r.accounts /\ account[w[1]] # "absent"
                              /\ r.from <= w[2] /\ w[2] <= r.to}}

-----------------------------------------------------------------------------
\* Properties.

\* A report that is generated again (a second run of its job) has every row it had,
\* with the same charge, whatever the batch has done since: syncAccounts deletes
\* accounts softly, and loadReportRows does not look at is_deleted.
RerunKeepsRows == [][\A r \in Reports : ReportRows(r) \subseteq ReportRows(r)']_vars

\* After a run of the batch, a report over days that the run promised, for accounts
\* that the medium reports as active, lacks no account and no day.
DoneMeansReported ==
    \A b \in Runs : \A r \in Reports :
        (/\ pc[b] = "done"
         /\ \A a \in r.accounts : medium[a] = "active"
         /\ r.from..r.to \subseteq Promised(b))
        => \A a \in r.accounts : \A d \in r.from..r.to :
               \E row \in ReportRows(r) : row.account = a /\ row.date = d

\* No customer is charged more than half a yen beside the exact quotient, and none less
\* than the cost, although the quotient is one of float64 numbers.
ChargeIsNearest ==
    \A r \in Reports : \A row \in ReportRows(r) :
        LET off == row.charge * (100 - r.rate) - 100 * row.cost
        IN  /\ 2 * off <= 100 - r.rate /\ -2 * off <= 100 - r.rate
            /\ row.charge >= row.cost

\* README.md:218: the charge is rounded to whole yen, a half upwards (as math.Round has
\* it). So it is at every rate but 44 and 84, where a half may go down: the double of
\* 1 - rate / 100 is too large there.
ChargeIsRounded ==
    \A r \in Reports : \A row \in ReportRows(r) :
        LET rounded == RoundHalfUp(row.cost, 100 - r.rate)
        IN  \/ row.charge = rounded
            \/ /\ r.rate \in {44, 84} /\ IsTie(row.cost, 100 - r.rate)
               /\ row.charge = rounded - 1

=============================================================================
