SPECIFICATION FairSpec
CONSTANTS
    Runs = {b1, b2}
    NAccounts = 2
    PageSize = 1
    MaxDays = 2
    MediumLists <- MCMediumLists
    AskedDays = {2}
    FirstDay = 2
    LastDay = 3
    Cost <- MCCost
    Reports <- MCReports
INVARIANTS
    BatchTypeOK
    DoneMeansSynced
    DoneMeansReported
    ChargeIsNearest
    ChargeIsRounded
PROPERTIES
    DropsOnlyAbsent
    RerunKeepsRows
    RunEnds
