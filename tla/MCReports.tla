------------------------------ MODULE MCReports ------------------------------
(* Instances of Reports for TLC.                                             *)
EXTENDS Reports

\* The objective item is worth 60 percent of the exam.
MCItemScore == [it \in Paper |-> IF it = "choice" THEN 3 ELSE 2]
MCKind == [it \in Paper |-> IF it = "choice" THEN "objective" ELSE "subjective"]
MCRole == [u \in Callers |-> CASE u = "admin" -> "admin"
                               [] u \in {"owner", "other"} -> "teacher"
                               [] OTHER -> "student"]

Begun == {r \in Queries : pc[r] # "idle"}

\* The traffic of the run: one student's attempts, reported to him and counted
\* for the owner; or attempts of all students, asked for by anybody; or one request
\* about one attempt while questions and the exam are deleted and look-ups fail.
\* Properties speak of what a request read up to the first write after it began, so
\* a behaviour is not followed past the end of the requests it holds.  With all
\* questions there, the order of their look-ups makes no difference; writes during
\* them are left to the last kind.
AllThere == /\ exam /\ bank = Paper
            /\ \A r \in Queries : reading[r].missed = {} /\ reading[r].seen # {"essay"}

MCTraffic ==
    \/ /\ AllThere
       /\ Begun \cap (Details \cup Gradings) = {}
       /\ \A r \in Queries : caller[r] = IF r \in Reportings THEN "s1" ELSE "owner"
       /\ \A i \in Ids : attempts[i].student = "s1"
       /\ \E r \in Reportings \cup Statistics : pc[r] # "done"
       /\ (\E r \in Reportings : pc[r] \in {"items", "answers", "questions"}) =>
             stale = {} /\ \A q \in Statistics : pc[q] # "list"
    \/ /\ AllThere
       /\ now = 1
       /\ \E q \in Queries : /\ Begun \subseteq {q}
                             /\ \A r \in Queries \ {q} : caller[r] = "owner"
       /\ \A i \in Ids : attempts[i].scores["essay"] = 0
       /\ \A r \in Queries : pc[r] # "done"
    \/ /\ now = 1
       /\ Len(attempts) <= 1
       /\ \E q \in Queries : Begun \subseteq {q}
       /\ \A r \in Queries : caller[r] = IF r \in Details \cup Reportings THEN "s1" ELSE "owner"
       /\ \A r \in Queries : pc[r] # "done"
=============================================================================
