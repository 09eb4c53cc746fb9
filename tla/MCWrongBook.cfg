CONSTANTS
    Questions = {q1, q2}
    Collects = {a1, a2}
    Practices = {p1}
    Deletes = {d1}
    Reads = {v1}
    PageCap = 2
SYMMETRY MCSymmetry
CONSTRAINT MCTraffic
SPECIFICATION Spec
INVARIANTS
    CountsPossible
    DuplicateOnlyByOverlap
    ResolvedByRightAnswer
PROPERTIES
    WrongIsOffered
CHECK_DEADLOCK FALSE
