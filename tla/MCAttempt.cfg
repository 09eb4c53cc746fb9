CONSTANTS
    s1 = s1
    b1 = b1
    b2 = b2
    b3 = b3
    g1 = g1
    g2 = g2
    Items = {1, 2}
    Objective = {1}
    MaxFull = 1
    Full <- MCFull
    Saves = {s1}
    Submits = {b1, b2, b3}
    Grades = {g1, g2}
    Entitled = {s1, b1, b2, g1}
    NoGrade = NoGrade
    MaxGlitches = 1
SYMMETRY MCSymmetry
CONSTRAINT MCTraffic
SPECIFICATION Spec
INVARIANTS
    RowsCoherent
    TotalsPossible
    SettledScores
    SubmitComplete
PROPERTIES
    SubmissionStands
    StrangersKeptOut
CHECK_DEADLOCK FALSE
