----------------------------- MODULE MCWrongBook -----------------------------
(* Instances of WrongBook for TLC.                                           *)
EXTENDS WrongBook, TLC

MCSymmetry == Permutations(Collects) \cup Permutations(Practices)

\* No step depends on what a Read was served: TLC checks the step that serves
\* it and does not follow the behaviour any further.
MCTraffic == \A v \in Reads : pc[v] = "idle"
=============================================================================
