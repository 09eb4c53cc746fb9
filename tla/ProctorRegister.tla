--------------------------- MODULE ProctorRegister ---------------------------
(***************************************************************************)
(* What the proctor review center promises, without requests, clocks or   *)
(* database rows: a register with one entry per deduplication key (an      *)
(* attempt, an event type and a window bucket).  An entry is absent until  *)
(* a report records it, then pending, then it holds a conclusion, and a    *)
(* conclusion is final.  Proctor.tla implements this register.             *)
(***************************************************************************)

CONSTANTS Key,          \* deduplication keys
          Conclusion    \* what a review can decide about an event

VARIABLE entry          \* entry[k]: what the register holds for key k

Absent == "absent"
Pending == "pending"

Entry == {Absent, Pending} \cup Conclusion

RegisterInit == entry = [k \in Key |-> Absent]

\* The first report of a key is kept; later ones change nothing.
Record(k) == /\ entry[k] = Absent
             /\ entry' = [entry EXCEPT ![k] = Pending]

\* A review decides a pending entry, once.
Conclude(k, c) == /\ entry[k] = Pending
                  /\ entry' = [entry EXCEPT ![k] = c]

RegisterNext == \E k \in Key : Record(k) \/ \E c \in Conclusion : Conclude(k, c)

RegisterSpec == RegisterInit /\ [][RegisterNext]_entry
=============================================================================
