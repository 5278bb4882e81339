SPECIFICATION AdminSpec
CONSTANTS
    n1 = n1
    n2 = n2
    a1 = a1
    Users = {u1, u2}
    InitialAdmins = {u1}
    InitialMembers = {}
    Accounts = {a1}
    Names = {n1, n2}
    Requests = {p, q}
    NoRequest = NoRequest
    Keep = Keep
    Patches <- FieldBodies
INVARIANTS
    AdminTypeOK
    ForeignKeyNeverRefuses
PROPERTIES
    KeepsOtherFields
    FrozenAfterDelete
    KeepsStore
