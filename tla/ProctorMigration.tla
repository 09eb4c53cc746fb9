-------------------------- MODULE ProctorMigration --------------------------
(***************************************************************************)
(* The startup migration of proctor_events (migrateLegacyProctorEvents):   *)
(* a legacy table gets its window_bucket column, the buckets of its rows,  *)
(* one row per attempt, type and bucket, and then the unique index that    *)
(* AutoMigrate creates.  Each statement commits by itself and the process  *)
(* may die, or a statement fail and main exit, between any two of them; a  *)
(* container restart runs everything again.                                *)
(***************************************************************************)
EXTENDS Integers, FiniteSetsExt

CONSTANTS Ids,          \* ids a legacy table may hold
          Kinds,        \* pairs of attempt and type
          KindOf,       \* KindOf[i]: attempt and type of row i
          BucketOf,     \* BucketOf[i]: occurred_at of row i in windows
          MaxCrashes    \* bound on the crashes of a behaviour

ASSUME MigrationAssumption ==
    /\ Ids \subseteq Nat /\ IsFiniteSet(Ids)
    /\ KindOf \in [Ids -> Kinds]
    /\ BucketOf \in [Ids -> Nat \ {0}]
    /\ MaxCrashes \in Nat

Statuses == {"pending", "confirmed", "ignored"}

VARIABLES
    table,    \* does table proctor_events exist?
    column,   \* has it a window_bucket column?
    index,    \* has it the index uk_proctor_dedup?
    rows,     \* ids of the stored rows
    status,   \* status[i]: column status of row i
    bucket,   \* bucket[i]: column window_bucket of row i, 0 by default
    stage,    \* where the starting process is
    todo,     \* ids it has still to backfill
    groups,   \* duplicate groups it has still to merge
    crashes,
    legacy    \* rows and statuses before the first start (history)

db == <<table, column, index, rows, status, bucket>>
migrationVars == <<db, stage, todo, groups, crashes, legacy>>

Steps == {"inspect", "list", "backfill", "group", "merge", "automigrate"}

MigrationTypeOK ==
    /\ table \in BOOLEAN /\ column \in BOOLEAN /\ index \in BOOLEAN
    /\ rows \subseteq Ids
    /\ status \in [Ids -> Statuses]
    /\ bucket \in [Ids -> Nat]
    /\ stage \in {"down", "serving"} \cup Steps
    /\ todo \subseteq Ids
    /\ groups \subseteq Kinds \X Nat
    /\ crashes \in 0..MaxCrashes
    /\ legacy \in [rows : SUBSET Ids, status : [Ids -> Statuses]]

\* No table yet, or one of the version without window_bucket.
MigrationInit ==
    /\ table \in BOOLEAN
    /\ column = FALSE /\ index = FALSE
    /\ rows \in IF table THEN SUBSET Ids ELSE {{}}
    /\ status \in [Ids -> Statuses]
    /\ bucket = [i \in Ids |-> 0]
    /\ stage = "down" /\ todo = {} /\ groups = {} /\ crashes = 0
    /\ legacy = [rows |-> rows, status |-> status]

-----------------------------------------------------------------------------
RowsIn(g) == {i \in rows : KindOf[i] = g[1] /\ bucket[i] = g[2]}

GroupOf(i) == <<KindOf[i], bucket[i]>>

\* Mutant of DuplicateGroups: pairs are overlooked.
DuplicateGroupsOfThree ==
    {g \in {GroupOf(i) : i \in rows} : Cardinality(RowsIn(g)) > 2}

\* GROUP BY attempt_id, type, window_bucket HAVING cnt > 1
DuplicateGroups == {g \in {GroupOf(i) : i \in rows} : Cardinality(RowsIn(g)) > 1}

\* Mutant of chooseProctorEventToKeep: the first row is kept.
KeepFirst(S) == Min(S)

\* The loop over the rows in id order: keep moves from a pending row to the
\* first decided one.
chooseProctorEventToKeep(S) ==
    LET Better(row, keep) == IF status[keep] = "pending" /\ status[row] # "pending"
                             THEN row ELSE keep
    IN  MapThenFoldSet(Better, Min(S), LAMBDA row : row, Max, S \ {Min(S)})

-----------------------------------------------------------------------------
\* main starts and reaches Repository.AutoMigrate.
Boot == /\ stage = "down"
        /\ stage' = "inspect"
        /\ UNCHANGED <<db, todo, groups, crashes, legacy>>

\* Mutant of Inspect: done already if the column is there.
InspectColumn ==
    /\ stage = "inspect"
    /\ \/ /\ ~table \/ column
          /\ stage' = "automigrate"
          /\ UNCHANGED column
       \/ /\ table /\ ~column
          /\ column' = TRUE
          /\ stage' = "list"
    /\ UNCHANGED <<table, index, rows, status, bucket, todo, groups, crashes, legacy>>

\* No table, or the index is there: nothing to migrate.  Otherwise the column
\* is added if it is missing; stored rows get its default.
Inspect ==
    /\ stage = "inspect"
    /\ \/ /\ ~table \/ index
          /\ stage' = "automigrate"
          /\ UNCHANGED column
       \/ /\ table /\ ~index
          /\ column' = TRUE
          /\ stage' = "list"
    /\ UNCHANGED <<table, index, rows, status, bucket, todo, groups, crashes, legacy>>

\* SELECT ... WHERE window_bucket = 0
ListLegacy ==
    /\ stage = "list"
    /\ todo' = {i \in rows : bucket[i] = 0}
    /\ stage' = "backfill"
    /\ UNCHANGED <<db, groups, crashes, legacy>>

\* One UPDATE per listed row, in no order the query asks for.
Backfill ==
    /\ stage = "backfill"
    /\ \/ \E i \in todo :
             /\ bucket' = [bucket EXCEPT ![i] = BucketOf[i]]
             /\ todo' = todo \ {i}
             /\ UNCHANGED stage
       \/ /\ todo = {}
          /\ stage' = "group"
          /\ UNCHANGED <<bucket, todo>>
    /\ UNCHANGED <<table, column, index, rows, status, groups, crashes, legacy>>

FindGroups ==
    /\ stage = "group"
    /\ groups' = DuplicateGroups
    /\ stage' = "merge"
    /\ UNCHANGED <<db, todo, crashes, legacy>>

\* One DELETE per group.  The rows are read just before it; nobody else uses
\* the database while the server starts.
MergeGroup ==
    /\ stage = "merge"
    /\ \/ \E g \in groups :
             /\ rows' = rows \ (RowsIn(g) \ {chooseProctorEventToKeep(RowsIn(g))})
             /\ groups' = groups \ {g}
             /\ UNCHANGED stage
       \/ /\ groups = {}
          /\ stage' = "automigrate"
          /\ UNCHANGED <<rows, groups>>
    /\ UNCHANGED <<table, column, index, status, bucket, todo, crashes, legacy>>

Collision == \E i, j \in rows : i # j /\ GroupOf(i) = GroupOf(j)

\* db.AutoMigrate creates what is missing of the table, the column and the
\* index.  A duplicate key fails the statement and main exits.
AutoMigrate ==
    /\ stage = "automigrate"
    /\ table' = TRUE /\ column' = TRUE
    /\ index' = (index \/ ~Collision)
    /\ stage' = IF index' THEN "serving" ELSE "down"
    /\ UNCHANGED <<rows, status, bucket, todo, groups, crashes, legacy>>

\* While the server runs, ReviewProctorEvent decides pending rows.
Decide ==
    /\ stage = "serving"
    /\ \E i \in rows, verdict \in Statuses \ {"pending"} :
          /\ status[i] = "pending"
          /\ status' = [status EXCEPT ![i] = verdict]
    /\ UNCHANGED <<table, column, index, rows, bucket, stage, todo, groups, crashes, legacy>>

\* A failed statement makes main exit; the process may be killed anywhere.
Crash == /\ stage # "down"
         /\ crashes < MaxCrashes
         /\ crashes' = crashes + 1
         /\ stage' = "down" /\ todo' = {} /\ groups' = {}
         /\ UNCHANGED <<db, legacy>>

Startup == \/ Boot \/ Inspect \/ ListLegacy \/ Backfill
           \/ FindGroups \/ MergeGroup \/ AutoMigrate

MigrationNext == Startup \/ Decide \/ Crash

Migration == MigrationInit /\ [][MigrationNext]_migrationVars

\* docker-compose restarts the backend and main runs on by itself.
FairMigration == Migration /\ WF_migrationVars(Startup)

-----------------------------------------------------------------------------
\* The manual migration 0003_proctor_dedup.sql, in one piece: per attempt,
\* type and bucket COALESCE(MIN(decided id), MIN(id)).
SqlGroup(i) == {j \in legacy.rows :
                   KindOf[j] = KindOf[i] /\ BucketOf[j] = BucketOf[i]}
SqlKeep(S) == LET decided == {i \in S : legacy.status[i] # "pending"}
              IN  IF decided # {} THEN Min(decided) ELSE Min(S)
SqlResult == {SqlKeep(SqlGroup(i)) : i \in legacy.rows}

\* The index is never refused for a duplicate key: when AutoMigrate comes to
\* create it, no two rows share attempt, type and bucket.
IndexCreatable == stage = "automigrate" /\ table /\ ~index => ~Collision

\* Whatever crashes and restarts it took to get there, and whatever reviews
\* decided since, the server serves the rows the manual script would have
\* kept, with their buckets, under the index, which was never refused.
ServesWhatSqlKeeps ==
    /\ MigrationTypeOK
    /\ IndexCreatable
    /\ stage = "serving" =>
          /\ index
          /\ rows = SqlResult
          /\ \A i \in rows : bucket[i] = BucketOf[i]

\* Where a window held a decided event it holds a decided event at any time,
\* in the middle of the merge and after a crash too.
WindowStaysDecided ==
    \A i \in legacy.rows :
        legacy.status[i] # "pending" =>
            \E j \in rows : KindOf[j] = KindOf[i] /\ BucketOf[j] = BucketOf[i]
                            /\ status[j] # "pending"

\* The server comes up, and after the last crash stays up.
EventuallyServes == <>[](stage = "serving")

-----------------------------------------------------------------------------
\* README.md:69 says the migration keeps decided conclusions.  Of two decided
\* rows of one window it keeps one.
AllConclusionsKept ==
    \A i \in legacy.rows : legacy.status[i] # "pending" => i \in rows
=============================================================================
