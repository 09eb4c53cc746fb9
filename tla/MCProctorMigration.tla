------------------------- MODULE MCProctorMigration -------------------------
(* Five legacy rows: 1, 2 and 4 are of one attempt, type and window; 3 is   *)
(* of another type and 5 of another window.                                 *)
EXTENDS ProctorMigration, TLC

CONSTANTS switch, leave

MCKindOf == [i \in Ids |-> IF i = 3 THEN leave ELSE switch]
MCBucketOf == [i \in Ids |-> IF i = 5 THEN 6 ELSE 5]
=============================================================================
