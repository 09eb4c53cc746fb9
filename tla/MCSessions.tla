----------------------------- MODULE MCSessions -----------------------------
(* Instances of Sessions for TLC.                                            *)
EXTENDS Sessions, TLC

CONSTANTS r1, r2, l1, l2, l3, o1, c1

MCSymmetry == Permutations(Logins) \cup Permutations(Registers)

Begun == {q \in Requests : pc[q] # "idle"}

\* The traffic of the run: registrations against two logins, or logouts against
\* three, each with a change of a user's status.
MCTraffic ==
    \/ \E l \in Logins : Begun \subseteq {r1, r2, c1} \cup (Logins \ {l})
    \/ Begun \subseteq {l1, l2, l3, o1, c1}
=============================================================================
