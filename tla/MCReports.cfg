CONSTANTS
    Paper = {"choice", "essay"}
    ItemScore <- MCItemScore
    Kind <- MCKind
    Callers = {"owner", "other", "admin", "s1", "s2"}
    Role <- MCRole
    Owner = "owner"
    Details = {d1}
    Reportings = {r1}
    Gradings = {g1}
    Statistics = {q1}
    MaxAttempts = 2
    MaxTime = 2
CONSTRAINT MCTraffic
SPECIFICATION ReportsSpec
INVARIANTS
    
    StatsCoherent
    RanksAgree
CHECK_DEADLOCK FALSE
