SPECIFICATION FormSpec
CONSTANTS
    Users = {u1, u2}
    InitialAdmins = {u1}
    InitialMembers = {u2}
    Accounts = {a1, a2}
    Names = {n1}
    Requests = {p}
    NoRequest = NoRequest
    Keep = Keep
    Patches <- PermissionBodies
SYMMETRY AccountSymmetry
INVARIANTS
    FormTypeOK
    OfferedIsAllowed
    ReportAccountsExist
