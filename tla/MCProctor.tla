------------------------------ MODULE MCProctor ------------------------------
(* Instances of Proctor for TLC.  Exam x1 belongs to t1; attempt a1 of s1   *)
(* sits it.  s2 and t2 are a student and a teacher it does not belong to.   *)
EXTENDS Proctor, TLC

CONSTANTS x1, a1, s1, s2, t1, t2, ta

MCExamOf == a1 :> x1
MCStudentOf == a1 :> s1
MCCreatedBy == x1 :> t1

\* Requests are interchangeable in the safety run.
MCSymmetry == Permutations(Reports) \cup Permutations(Reviews)

\* A request that is never sent carries one fixed input.
ReportAbsent(r) == /\ report[r].pc = "idle"
                   /\ report[r].student = s1
                   /\ report[r].type = ta
ReviewAbsent(v) == /\ review[v].pc = "idle"
                   /\ review[v].user = t1
                   /\ review[v].verdict = "confirmed"

OneKind == \A r \in Reports : report[r].student = s1 /\ report[r].type = ta

AtMostTwo == \E r \in Reports : ReportAbsent(r)

\* The traffic of the safety run: three reports of one kind over several
\* windows, two reports of any kind, or two reviews of what two reports store,
\* of one kind while the clock moves or of two kinds while it stands.
MCTraffic ==
    \/ (\A v \in Reviews : ReviewAbsent(v)) /\ (OneKind \/ AtMostTwo)
    \/ AtMostTwo /\ OneKind /\ now <= 1
    \/ AtMostTwo /\ (\A r \in Reports : report[r].student = s1) /\ now = 0
=============================================================================
