SPECIFICATION ScreenSpec
CONSTANTS
    Users = {u1, u2}
    InitialAdmins = {u1}
    InitialMembers = {u2}
    Accounts = {a1}
    Names = {n1, n2}
    Requests = {p}
    NoRequest = NoRequest
    Keep = Keep
    Patches <- ScreenBodies
INVARIANT ScreenCanSave
