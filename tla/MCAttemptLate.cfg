CONSTANTS
    s1 = s1
    b1 = b1
    b2 = b2
    b3 = b3
    g1 = g1
    g2 = g2
    Items = {1}
    Objective = {1}
    MaxFull = 1
    Full <- MCFull
    Saves = {s1}
    Submits = {b1}
    Grades = {}
    Entitled = {s1, b1}
    NoGrade = NoGrade
    MaxGlitches = 0
SPECIFICATION Spec
PROPERTIES
    NoAnswerAfterSubmit
CHECK_DEADLOCK FALSE
