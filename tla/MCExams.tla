------------------------------- MODULE MCExams -------------------------------
(* Instances of Exams for TLC.                                               *)
EXTENDS Exams, TLC

CONSTANTS MaxCount,   \* questions drawn for each entry
          st1, v1

\* Every question fits every entry.
MCPool == [k \in Configs |-> Questions]
MCCount == [k \in Configs |-> MaxCount]
MCSymmetry == Permutations(Publishes) \cup Permutations(Closes)
                \cup Permutations(Starts) \cup Permutations(Questions)

Begun == {q \in Requests : pc[q] # "idle"}

\* A visit that is never made is by st1.
Made == {v \in Visits : pc[v] # "idle" \/ visit[v].student # st1}

\* The traffic of the run: creation, publications, closes and deletions alone;
\* starts of one student against two of a publication, a close and a deletion of
\* an exam with its paper; or two visits of one or two students to a published
\* exam while it, its questions and its attempts change.
MCTraffic ==
    \/ Made = {}
    \/ /\ pc[Creator] = "done" /\ drawn = {} /\ clock # "early"
       /\ \/ /\ \A v \in Made : visit[v].student = st1
             /\ Made \subseteq Starts
             /\ Cardinality(Begun \cap Publishes) <= 1
             /\ Cardinality(Begun \ ({Creator} \cup Visits)) <= 2
             /\ bank = Questions /\ glitches = 0
          \/ /\ Begun \cap (Publishes \cup Closes) = {}
             /\ Cardinality(Made) <= 2
             /\ clock = "open" /\ exam \in {"published", "none"}
=============================================================================
