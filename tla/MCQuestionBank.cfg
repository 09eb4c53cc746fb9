CONSTANTS
    Texts <- MCTexts
    Trim <- MCTrim
    Fold <- MCFold
    Asked <- MCAsked
    Files <- MCFiles
    Empty = ""
    True = "T"
    False = "F"
    Creates = {c1}
    Updates = {u1}
    Deletes = {d1}
    Imports = {i1}
    Takers = {t1}
SPECIFICATION Spec
INVARIANTS
    WellFormed
    FairVerdict
CHECK_DEADLOCK FALSE
