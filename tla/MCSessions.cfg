CONSTANTS
    r1 = r1
    r2 = r2
    l1 = l1
    l2 = l2
    l3 = l3
    o1 = o1
    c1 = c1
    Names = {admin, u1}
    AdminName = admin
    Registers = {r1, r2}
    Logins = {l1, l2, l3}
    Logouts = {o1}
    Changes = {c1}
    NoAccount = NoAccount
    NoToken = NoToken
    MaxCrashes = 1
SYMMETRY MCSymmetry
CONSTRAINT MCTraffic
SPECIFICATION Spec
INVARIANTS
    LastLoginWins
    OneAccountPerName
    RolesStand
PROPERTIES
    SessionEnds
    ImplementsLedger
CHECK_DEADLOCK FALSE
