--------------------------- MODULE MCReportContents ---------------------------
\* The medium's lists, the costs and the reports that TLC checks ReportContents with.
EXTENDS ReportContents

\* One account goes and comes back, the other is paused and taken up again.
MCMediumLists == {<<"active", "active">>, <<"absent", "active">>, <<"active", "paused">>}

\* Among them costs whose charges end in one half: 12002 at a rate of 84, 12005 at 44,
\* 12008 at 36; and one whose charge ends in more, 12002 at 30.
MCCost(a, d) == 11999 + 3 * (a + d)

\* Both accounts and a window of two days, and one account alone.
MCReports ==
    {[accounts |-> {1, 2}, from |-> 0, to |-> 1, rate |-> 84],
     [accounts |-> {1}, from |-> 1, to |-> 1, rate |-> 44],
     [accounts |-> {1}, from |-> 0, to |-> 0, rate |-> 30],
     [accounts |-> {2}, from |-> 1, to |-> 2, rate |-> 36]}

=============================================================================
