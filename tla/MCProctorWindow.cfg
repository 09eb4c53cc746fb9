CONSTANTS
    x1 = x1
    a1 = a1
    s1 = s1
    s2 = s2
    t1 = t1
    t2 = t2
    ta = ta
    Exams = {x1}
    Attempts = {a1}
    Teachers = {t1, t2}
    Admins = {admin}
    ExamOf <- MCExamOf
    StudentOf <- MCStudentOf
    CreatedBy <- MCCreatedBy
    NoReview = NoReview
    Window = 2
    Types = {ta}
    Students = {s1}
    Reports = {r1, r2}
    Reviews = {}
    MaxTime = 2
SPECIFICATION Spec
INVARIANT
    OneEventPerWindow
CHECK_DEADLOCK FALSE
