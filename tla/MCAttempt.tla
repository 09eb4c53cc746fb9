------------------------------ MODULE MCAttempt ------------------------------
(* Instances of Attempt for TLC: a paper whose first item is objective.      *)
EXTENDS Attempt, TLC

CONSTANTS MaxFull,      \* points of the last item; the others have one
          s1, b1, b2, g1,   \* requests of those entitled to them
          b3, g2            \* requests of strangers

MCFull == [i \in Items |-> IF \A j \in Items : j <= i THEN MaxFull ELSE 1]
MCSymmetry == Permutations({b1, b2})

\* The requests that are sent; one that is not carries one fixed input.
Sent == {s \in Saves : save[s].pc # "idle" \/ save[s].item # 1
                          \/ save[s].text # "right"}
        \cup {b \in Submits : submit[b].pc # "idle"}
        \cup {g \in Grades : grade[g].pc # "idle" \/ grade[g].todo # {1}
                                \/ \E i \in Items : grade[g].score[i] # 0}

\* The traffic of the run: a save among two submissions; two submissions during
\* which queries of findQuestion may err; a grading among two submissions; or a
\* stranger's request around one submission.  Only saves look at the deadline.
MCTraffic ==
    \/ glitches = 0 /\ Sent \subseteq {s1, b1, b2}
    \/ ~late /\ Sent \subseteq {b1, b2}
    \/ /\ glitches = 0 /\ ~late
       /\ \/ Sent \subseteq {g1, b1, b2}
          \/ \E b \in {b1, b2}, q \in {b3, g2} : Sent \subseteq {b, q}
=============================================================================
