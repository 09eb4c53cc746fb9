CONSTANTS
    st1 = st1
    v1 = v1
    Questions = {q1, q2}
    Students = {st1, st2}
    Configs = {k1, k2}
    MaxCount = 1
    Pool <- MCPool
    Count <- MCCount
    Creator = Creator
    Publishes = {p1, p2}
    Closes = {c1}
    Deletes = {d1}
    Starts = {s1, s2}
    Currents = {v1}
    Entitled = {p1, p2, c1, d1}
    MaxGlitches = 1
SYMMETRY MCSymmetry
CONSTRAINT MCTraffic
SPECIFICATION Spec
INVARIANTS
    PaperSound
    ClosedToNewStarts
    DoubleOnlyByOverlap
    ServedWhole
    PastIsPast
    CloseSticks
CHECK_DEADLOCK FALSE
