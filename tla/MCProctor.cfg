CONSTANTS
    x1 = x1
    a1 = a1
    s1 = s1
    s2 = s2
    t1 = t1
    t2 = t2
    ta = ta
    Exams = {x1}
    Attempts = {a1}
    Teachers = {t1, t2}
    Admins = {admin}
    ExamOf <- MCExamOf
    StudentOf <- MCStudentOf
    CreatedBy <- MCCreatedBy
    NoReview = NoReview
    Window = 2
    Types = {ta, tb}
    Students = {s1, s2}
    Reports = {r1, r2, r3}
    Reviews = {v1, v2}
    MaxTime = 4
SYMMETRY MCSymmetry
CONSTRAINT MCTraffic
SPECIFICATION Spec
INVARIANTS
    AtMostTwoPerWindow
    CloseEventsOverlapped
    AnswerCovers
    WinnerStands
    ReviewedByEntitled
PROPERTIES
    ConclusionFinal
CHECK_DEADLOCK FALSE
