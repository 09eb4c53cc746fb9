---------------------------- MODULE ProctorProofs ----------------------------
(***************************************************************************)
(* Theorems about Proctor.tla, for any number of exams, attempts, types,   *)
(* reports and reviews, any window and any bound on the clock, and about   *)
(* ProctorMigration.tla, for any legacy table and any number of crashes.   *)
(***************************************************************************)
EXTENDS Proctor, ProctorMigration, SequenceTheorems, SetTheorems, TLAPS

USE ConstantsAssumption

-----------------------------------------------------------------------------
(* The clock and the buckets.                                              *)

\* A time lies in its bucket.
LEMMA BucketBounds ==
    ASSUME NEW t \in Nat
    PROVE  /\ Bucket(t) \in Nat
           /\ Bucket(t) * Window <= t
           /\ t < Bucket(t) * Window + Window
  BY DEF Bucket

\* Later times never have smaller buckets.
LEMMA BucketMonotonic ==
    ASSUME NEW s \in Nat, NEW t \in Nat, s <= t
    PROVE  Bucket(s) <= Bucket(t)
<1> DEFINE b == Bucket(s)
           c == Bucket(t)
<1>1. /\ b \in Nat /\ c \in Nat
      /\ b * Window <= s /\ t < c * Window + Window
  BY BucketBounds
<1>2. ASSUME c < b PROVE FALSE
  <2>1. PICK d \in Nat : b = c + 1 + d
    <3>1. b - c - 1 \in Nat /\ b = c + 1 + (b - c - 1)
      BY <1>1, <1>2
    <3> QED BY <3>1
  <2>2. b * Window = c * Window + Window + d * Window
    BY <2>1, <1>1
  <2>3. d * Window >= 0
    BY <2>1
  <2> QED BY <1>1, <2>2, <2>3
<1> QED BY <1>1, <1>2

\* Times two buckets apart are more than a window apart.
LEMMA BucketGap ==
    ASSUME NEW s \in Nat, NEW t \in Nat, Bucket(s) + 2 <= Bucket(t)
    PROVE  t - s > Window
<1> DEFINE b == Bucket(s)
           c == Bucket(t)
<1>1. /\ b \in Nat /\ c \in Nat
      /\ c * Window <= t /\ s < b * Window + Window
  BY BucketBounds
<1>2. PICK d \in Nat : c = b + 2 + d
  <2>1. c - b - 2 \in Nat /\ c = b + 2 + (c - b - 2)
    BY <1>1
  <2> QED BY <2>1
<1>3. c * Window = b * Window + Window + Window + d * Window
  BY <1>1, <1>2
<1>4. d * Window >= 0
  BY <1>2
<1> QED BY <1>1, <1>3, <1>4

-----------------------------------------------------------------------------
(* Types.                                                                  *)

\* A review that has loaded a row refers to a stored row.
ReviewIds == \A v \in Reviews :
                review[v].pc \notin {"idle", "not_found"}
                    => review[v].id \in 1..Len(events)

\* What an insert does to the table.
Inserts(r) == /\ events' \in Seq(Event)
              /\ Len(events') = Len(events) + 1
              /\ \A i \in 1..Len(events) : events'[i] = events[i]
              /\ events'[Len(events) + 1] = NewEvent(r)

\* What a review's UPDATE does to the table.
Decides(v) == /\ events' \in Seq(Event)
              /\ Len(events') = Len(events)
              /\ \A i \in 1..Len(events) :
                    events'[i] = IF i = review[v].id THEN Decided(events[i], v)
                                 ELSE events[i]

\* The ids of the stored rows.
LEMMA RowIds == TypeOK => DOMAIN events = 1..Len(events)
  BY LenProperties DEF TypeOK

\* A stored row is an Event.
LEMMA RowType == TypeOK => \A i \in 1..Len(events) : events[i] \in Event
  BY ElementOfSeq DEF TypeOK

\* What a report inserts is an Event.
LEMMA NewEventType ==
    ASSUME TypeOK, NEW r \in Reports
    PROVE  NewEvent(r) \in Event
  BY BucketBounds DEF TypeOK, NewEvent, Event, Report

\* After an insert the new row is last and the others are where they were.
LEMMA InsertsRow ==
    ASSUME TypeOK, NEW r \in Reports, events' = Append(events, NewEvent(r))
    PROVE  Inserts(r)
  BY NewEventType, AppendProperties DEF Inserts, TypeOK

\* After a review's UPDATE its row is decided and the others are as before.
LEMMA DecidesRow ==
    ASSUME TypeOK, NEW v \in Reviews, review[v].id \in 1..Len(events),
           events' = [events EXCEPT ![review[v].id] = Decided(@, v)]
    PROVE  Decides(v)
<1> DEFINE i == review[v].id
<1>1. events[i] \in Event
  BY RowType
<1>2. Decided(events[i], v) \in Event
  BY <1>1 DEF TypeOK, Decided, Event, Review
<1> QED BY <1>2, ExceptSeq DEF Decides, TypeOK

\* A report that only moves on keeps its type.
LEMMA ReportGotoType ==
    ASSUME TypeOK, NEW r \in Reports, NEW pc \in ReportSteps \cup ReportEnds,
           ReportGoto(r, pc)
    PROVE  report' \in [Reports -> Report]
<1>1. report[r] \in Report
  BY DEF TypeOK
<1>2. [report[r] EXCEPT !.pc = pc] \in Report
  BY <1>1 DEF Report
<1> QED BY <1>2 DEF TypeOK, ReportGoto

\* A review that only moves on keeps its type.
LEMMA ReviewGotoType ==
    ASSUME TypeOK, NEW v \in Reviews, NEW pc \in ReviewSteps \cup ReviewEnds,
           ReviewGoto(v, pc)
    PROVE  review' \in [Reviews -> Review]
<1>1. review[v] \in Review
  BY DEF TypeOK
<1>2. [review[v] EXCEPT !.pc = pc] \in Review
  BY <1>1 DEF Review
<1> QED BY <1>2 DEF TypeOK, ReviewGoto

\* Every step preserves the types.
LEMMA TypeStep ==
    ASSUME TypeOK, ReviewIds, [Next]_vars
    PROVE  TypeOK'
<1> USE DEF TypeOK
<1> USE DEF ReportSteps, ReportEnds, ReviewSteps, ReviewEnds
<1>1. ASSUME NEW r \in Reports, ReportStep(r) \/ ReportFail(r) PROVE TypeOK'
  <2>0. report[r] \in Report
    OBVIOUS
  <2>1. CASE ReportLoad(r)
    BY <2>1, ReportGotoType DEF ReportLoad
  <2>2. CASE ReportStamp(r)
    <3>1. [report[r] EXCEPT !.pc = "check", !.at = now] \in Report
      BY <2>0 DEF Report
    <3> QED BY <2>2, <3>1 DEF ReportStamp
  <2>3. CASE ReportCheck(r)
    <3>1. Len(events) \in Nat /\ Newest(Recent(r)) \subseteq Nat
      BY LenProperties, RowIds DEF Newest, Recent
    <3>2. [report[r] EXCEPT !.pc = "insert", !.seen = Len(events)] \in Report
      BY <2>0, <3>1 DEF Report
    <3>3. \A i \in Nat :
             [report[r] EXCEPT !.pc = "answer", !.id = i, !.as = "merged"]
                 \in Report
      BY <2>0 DEF Report
    <3>4. PICK rec \in Report : report' = [report EXCEPT ![r] = rec]
      <4>1. CASE report' = [report EXCEPT ![r] =
                              [@ EXCEPT !.pc = "insert", !.seen = Len(events)]]
        BY <3>2, <4>1
      <4>2. CASE \E i \in Newest(Recent(r)) :
                    report' = [report EXCEPT ![r] =
                       [@ EXCEPT !.pc = "answer", !.id = i, !.as = "merged"]]
        BY <3>1, <3>3, <4>2
      <4> QED BY <2>3, <4>1, <4>2 DEF ReportCheck
    <3> QED BY <2>3, <3>4 DEF ReportCheck
  <2>4. CASE ReportInsert(r)
    <3>1. CASE SameDedupKey(r) # {}
      BY <2>4, <3>1, ReportGotoType DEF ReportInsert
    <3>2. CASE SameDedupKey(r) = {}
      <4>1. Inserts(r)
        BY <2>4, <3>2, InsertsRow DEF ReportInsert
      <4>2. Len(events) + 1 \in Nat
        BY LenProperties
      <4>3. [report[r] EXCEPT !.pc = "answer", !.id = Len(events) + 1,
                              !.as = "stored"] \in Report
        BY <2>0, <4>2 DEF Report
      <4> QED BY <2>4, <3>2, <4>1, <4>3 DEF ReportInsert, Inserts
    <3> QED BY <3>1, <3>2
  <2>5. CASE ReportLookup(r)
    <3>1. SameDedupKey(r) \subseteq Nat
      BY RowIds DEF SameDedupKey
    <3>2. \A i \in Nat :
             [report[r] EXCEPT !.pc = "done", !.id = i, !.as = "merged"]
                 \in Report
      BY <2>0 DEF Report
    <3>3. CASE \E i \in SameDedupKey(r) :
                  report' = [report EXCEPT ![r] =
                     [@ EXCEPT !.pc = "done", !.id = i, !.as = "merged"]]
      <4>1. PICK i \in Nat :
               report' = [report EXCEPT ![r] =
                  [@ EXCEPT !.pc = "done", !.id = i, !.as = "merged"]]
        BY <3>1, <3>3
      <4> QED BY <2>5, <3>2, <4>1 DEF ReportLookup
    <3>4. CASE ReportGoto(r, "not_found")
      BY <2>5, <3>4, ReportGotoType DEF ReportLookup
    <3> QED BY <2>5, <3>3, <3>4 DEF ReportLookup
  <2>6. CASE ReportAnswer(r)
    BY <2>6, ReportGotoType DEF ReportAnswer
  <2>7. CASE ReportFail(r)
    BY <2>7, ReportGotoType DEF ReportFail
  <2> QED BY <1>1, <2>1, <2>2, <2>3, <2>4, <2>5, <2>6, <2>7 DEF ReportStep
<1>2. ASSUME NEW v \in Reviews, ReviewStep(v) \/ ReviewFail(v) PROVE TypeOK'
  <2>0. review[v] \in Review
    OBVIOUS
  <2>1. CASE ReviewLoad(v)
    <3>1. PICK i \in 1..(Len(events) + 1) :
             IF Joined(i)
             THEN review' = [review EXCEPT ![v] =
                     [@ EXCEPT !.pc = "scope", !.id = i,
                               !.status = events[i].status]]
             ELSE review' = [review EXCEPT ![v] =
                     [@ EXCEPT !.pc = "not_found", !.id = i]]
      BY <2>1 DEF ReviewLoad
    <3>2. i \in Nat
      BY LenProperties
    <3>3. Joined(i) => events[i].status \in {"pending"} \cup Verdicts
      BY RowIds, RowType DEF Joined, Event
    <3>4. Joined(i) => [review[v] EXCEPT !.pc = "scope", !.id = i,
                                !.status = events[i].status] \in Review
      BY <2>0, <3>2, <3>3 DEF Review
    <3>5. [review[v] EXCEPT !.pc = "not_found", !.id = i] \in Review
      BY <2>0, <3>2 DEF Review
    <3> QED BY <2>1, <3>1, <3>4, <3>5 DEF ReviewLoad
  <2>2. CASE ReviewScope(v)
    BY <2>2, ReviewGotoType DEF ReviewScope
  <2>3. CASE ReviewWrite(v)
    <3>1. review[v].id \in 1..Len(events)
      BY <2>3 DEF ReviewWrite, ReviewIds
    <3>2. events' \in Seq(Event)
      BY <2>3, <3>1, DecidesRow DEF ReviewWrite, Decides
    <3> QED BY <2>3, <3>2, ReviewGotoType DEF ReviewWrite
  <2>4. CASE ReviewReread(v)
    BY <2>4, ReviewGotoType DEF ReviewReread
  <2>5. CASE ReviewFail(v)
    BY <2>5, ReviewGotoType DEF ReviewFail
  <2> QED BY <1>2, <2>1, <2>2, <2>3, <2>4, <2>5 DEF ReviewStep
<1>3. ASSUME NEW a \in Attempts, SubmitAttempt(a) PROVE TypeOK'
  BY <1>3 DEF SubmitAttempt
<1>4. ASSUME NEW x \in Exams, DeleteExam(x) PROVE TypeOK'
  BY <1>4 DEF DeleteExam
<1>5. CASE Tick
  BY <1>5 DEF Tick
<1>6. CASE UNCHANGED vars
  BY <1>6 DEF vars
<1> QED BY <1>1, <1>2, <1>3, <1>4, <1>5, <1>6 DEF Next

-----------------------------------------------------------------------------
(* Reports.                                                                *)

\* A row's bucket is the bucket of its time.
BucketsRight == \A i \in DOMAIN events : events[i].bucket = Bucket(events[i].at)

\* The request a row came from holds the row's id and has left the insert.
RowsFromReports ==
    \A i \in DOMAIN events :
        LET r == events[i].from
        IN  /\ report[r].pc \in {"answer", "done", "not_found", "failed"}
            /\ report[r].as = "stored"
            /\ report[r].id = i
            /\ Matches(i, r)

\* A report about to insert found nothing recent among the rows it saw, and
\* holds no row yet.
NothingRecentSeen ==
    \A r \in Reports :
        report[r].pc = "insert" =>
            \A i \in DOMAIN events :
                i <= report[r].seen /\ Matches(i, r)
                    => events[i].at < report[r].at - Window

\* The row a report is being answered with.
AnswersRight ==
    \A r \in Reports :
        report[r].pc \in {"answer", "done"} =>
            /\ report[r].id \in DOMAIN events
            /\ Matches(report[r].id, r)
            /\ events[report[r].id].at >= report[r].at - Window
            /\ report[r].as = "stored" <=> events[report[r].id].from = r

\* Until it is answered a report has no outcome; while it waits for the
\* insert, `seen` counts stored rows.
Unanswered ==
    \A r \in Reports :
        /\ report[r].pc \in {"idle", "stamp", "check", "insert", "lookup"}
              => report[r].as = "none"
        /\ report[r].pc = "insert" => report[r].seen <= Len(events)

ReportInv == /\ BucketsRight /\ DedupKeyUnique /\ CloseEventsOverlapped
             /\ RowsFromReports /\ NothingRecentSeen /\ AnswersRight
             /\ Unanswered

\* Steps that keep what the rows say about reports preserve ReportInv.
LEMMA ReportFrame ==
    ASSUME TypeOK, TypeOK', ReportInv, UNCHANGED report,
           Len(events') = Len(events),
           \A i \in 1..Len(events) :
               /\ events'[i].attempt = events[i].attempt
               /\ events'[i].type = events[i].type
               /\ events'[i].at = events[i].at
               /\ events'[i].bucket = events[i].bucket
               /\ events'[i].from = events[i].from
    PROVE  ReportInv'
<1>1. DOMAIN events = 1..Len(events) /\ DOMAIN events' = 1..Len(events)
  BY RowIds, LenProperties DEF TypeOK
<1>2. BucketsRight'
  BY <1>1 DEF ReportInv, BucketsRight, Bucket
<1>3. DedupKeyUnique'
  BY <1>1 DEF ReportInv, DedupKeyUnique, SameKind
<1>4. CloseEventsOverlapped'
  BY <1>1 DEF ReportInv, CloseEventsOverlapped, SameKind
<1>5. RowsFromReports'
  BY <1>1 DEF ReportInv, RowsFromReports, Matches
<1>6. NothingRecentSeen'
  BY <1>1 DEF ReportInv, NothingRecentSeen, Matches
<1>7. AnswersRight'
  BY <1>1 DEF ReportInv, AnswersRight, Matches
<1>8. Unanswered'
  BY DEF ReportInv, Unanswered
<1> QED BY <1>2, <1>3, <1>4, <1>5, <1>6, <1>7, <1>8 DEF ReportInv

\* What a report's own steps other than the insert make of its local state.
MovesTo(r, rec) ==
    /\ rec.attempt = report[r].attempt /\ rec.type = report[r].type
    /\ \A i \in DOMAIN events : events[i].from = r =>
           /\ rec.pc \in {"answer", "done", "not_found", "failed"}
           /\ rec.as = "stored" /\ rec.id = i /\ rec.seen = report[r].seen
    /\ rec.pc = "insert" =>
           /\ rec.seen <= Len(events)
           /\ \A i \in DOMAIN events :
                 i <= rec.seen /\ Matches(i, r)
                     => events[i].at < rec.at - Window
    /\ rec.pc \in {"answer", "done"} =>
           /\ rec.id \in DOMAIN events
           /\ Matches(rec.id, r)
           /\ events[rec.id].at >= rec.at - Window
           /\ rec.as = "stored" <=> events[rec.id].from = r
    /\ rec.pc \in {"idle", "stamp", "check", "insert", "lookup"}
           => rec.as = "none"

\* Such a step preserves ReportInv: the rows, and what they say, stay.
LEMMA ReportMoves ==
    ASSUME TypeOK, TypeOK', ReportInv, NEW r \in Reports, UNCHANGED events,
           NEW rec \in Report, report' = [report EXCEPT ![r] = rec],
           MovesTo(r, rec)
    PROVE  ReportInv'
<1> USE DEF MovesTo
<1>1. \A q \in Reports : report'[q] = IF q = r THEN rec ELSE report[q]
  BY DEF TypeOK
<1>2. \A i \in DOMAIN events : events[i].from \in Reports
  BY RowIds, RowType DEF Event
<1>3. \A i \in DOMAIN events, q \in Reports : Matches(i, q)' <=> Matches(i, q)
  BY <1>1 DEF Matches
<1>4. BucketsRight'
  BY DEF ReportInv, BucketsRight, Bucket
<1>5. DedupKeyUnique'
  BY DEF ReportInv, DedupKeyUnique, SameKind
<1>6. CloseEventsOverlapped'
  BY <1>1, <1>2 DEF ReportInv, CloseEventsOverlapped, SameKind
<1>7. RowsFromReports'
  BY <1>1, <1>2, <1>3 DEF ReportInv, RowsFromReports
<1>8. NothingRecentSeen'
  BY <1>1, <1>3 DEF ReportInv, NothingRecentSeen
<1>9. AnswersRight'
  BY <1>1, <1>3 DEF ReportInv, AnswersRight
<1>10. Unanswered'
  BY <1>1 DEF ReportInv, Unanswered
<1> QED BY <1>4, <1>5, <1>6, <1>7, <1>8, <1>9, <1>10 DEF ReportInv

\* The insert: no row of the key is there, and none of the rows the pre-check
\* saw is recent.
LEMMA InsertStep ==
    ASSUME TypeOK, TypeOK', ReportInv, NEW r \in Reports,
           report[r].pc = "insert", SameDedupKey(r) = {}, Inserts(r),
           report' = [report EXCEPT ![r] =
               [@ EXCEPT !.pc = "answer", !.id = Len(events) + 1,
                         !.as = "stored"]]
    PROVE  ReportInv'
<1> DEFINE n == Len(events) + 1
<1>0. n \in Nat /\ Len(events) \in Nat
  BY LenProperties DEF TypeOK
<1>1. DOMAIN events = 1..Len(events) /\ DOMAIN events' = 1..n
  BY RowIds, LenProperties DEF TypeOK, Inserts
<1>2. /\ \A q \in Reports : q # r => report'[q] = report[q]
      /\ report'[r].pc = "answer" /\ report'[r].id = n
      /\ report'[r].as = "stored" /\ report'[r].seen = report[r].seen
      /\ report'[r].at = report[r].at
      /\ report'[r].attempt = report[r].attempt
      /\ report'[r].type = report[r].type
  BY DEF TypeOK, Report
<1>3. /\ events'[n].attempt = report[r].attempt
      /\ events'[n].type = report[r].type
      /\ events'[n].at = report[r].at
      /\ events'[n].bucket = Bucket(report[r].at)
      /\ events'[n].from = r
  BY DEF Inserts, NewEvent
<1>4. \A i \in 1..Len(events) : /\ events'[i] = events[i]
                               /\ events[i].from \in Reports
                               /\ events[i].from # r
                               /\ i # n /\ i < n
  BY <1>0, <1>1, RowType DEF Inserts, ReportInv, RowsFromReports, Event
<1>5. \A i \in 1..n : i = n \/ i \in 1..Len(events)
  BY <1>0
<1>6. report[r].at \in Nat /\ report[r].seen \in Nat /\ Window \in Nat
  BY DEF TypeOK, Report
<1>7. \A i \in 1..Len(events) : events[i].at \in Nat
  BY RowType DEF Event
<1> HIDE DEF n
<1>8. BucketsRight'
  BY <1>1, <1>3, <1>4, <1>5 DEF ReportInv, BucketsRight, Bucket
<1>9. DedupKeyUnique'
  <2> SUFFICES ASSUME NEW i \in 1..n, NEW j \in 1..n, SameKind(i, j)',
                      events'[i].bucket = events'[j].bucket, i # j
               PROVE  FALSE
    BY <1>1 DEF DedupKeyUnique
  <2>1. CASE i \in 1..Len(events) /\ j \in 1..Len(events)
    BY <2>1, <1>1, <1>4 DEF ReportInv, DedupKeyUnique, SameKind
  <2>2. CASE i = n /\ j \in 1..Len(events)
    <3>1. j \in SameDedupKey(r)
      BY <2>2, <1>1, <1>3, <1>4 DEF SameDedupKey, SameKind, Matches
    <3> QED BY <3>1
  <2>3. CASE j = n /\ i \in 1..Len(events)
    <3>1. i \in SameDedupKey(r)
      BY <2>3, <1>1, <1>3, <1>4 DEF SameDedupKey, SameKind, Matches
    <3> QED BY <3>1
  <2> QED BY <1>5, <2>1, <2>2, <2>3
<1>10. CloseEventsOverlapped'
  <2> SUFFICES ASSUME NEW i \in 1..n, NEW j \in 1..n, i < j, SameKind(i, j)',
                      events'[j].at - events'[i].at <= Window
               PROVE  report'[events'[j].from].seen < i
    BY <1>1 DEF CloseEventsOverlapped
  <2>1. i \in 1..Len(events)
    BY <1>0 DEF n
  <2>2. CASE j \in 1..Len(events)
    BY <2>1, <2>2, <1>1, <1>2, <1>4 DEF ReportInv, CloseEventsOverlapped, SameKind
  <2>3. CASE j = n
    <3>1. Matches(i, r)
      BY <2>1, <2>3, <1>3, <1>4 DEF SameKind, Matches
    <3>2. report[r].at - events[i].at <= Window
      BY <2>1, <2>3, <1>3, <1>4
    <3>3. i <= report[r].seen => events[i].at < report[r].at - Window
      BY <3>1, <2>1, <1>1 DEF ReportInv, NothingRecentSeen
    <3>4. report[r].seen < i
      BY <3>2, <3>3, <2>1, <1>6, <1>7
    <3> QED BY <3>4, <2>3, <1>2, <1>3
  <2> QED BY <1>5, <2>2, <2>3
<1>11. RowsFromReports'
  <2> SUFFICES ASSUME NEW i \in 1..n
               PROVE  LET q == events'[i].from
                      IN  /\ report'[q].pc \in {"answer", "done", "not_found", "failed"}
                          /\ report'[q].as = "stored"
                          /\ report'[q].id = i
                          /\ events'[i].attempt = report'[q].attempt
                          /\ events'[i].type = report'[q].type
    BY <1>1 DEF RowsFromReports, Matches
  <2>1. CASE i = n
    BY <2>1, <1>2, <1>3 DEF Matches
  <2>2. CASE i \in 1..Len(events)
    BY <2>2, <1>1, <1>2, <1>4 DEF ReportInv, RowsFromReports, Matches
  <2> QED BY <1>5, <2>1, <2>2
<1>12. NothingRecentSeen'
  <2> SUFFICES ASSUME NEW q \in Reports, report'[q].pc = "insert",
                      NEW i \in 1..n, i <= report'[q].seen, Matches(i, q)'
               PROVE  events'[i].at < report'[q].at - Window
    BY <1>1 DEF NothingRecentSeen
  <2>1. q # r
    BY <1>2
  <2>2. report[q].seen <= Len(events) /\ report[q].seen \in Nat
    BY <2>1, <1>2 DEF ReportInv, Unanswered, TypeOK, Report
  <2>3. i \in 1..Len(events)
    BY <2>1, <2>2, <1>0, <1>2
  <2> QED BY <2>1, <2>3, <1>1, <1>2, <1>4 DEF ReportInv, NothingRecentSeen, Matches
<1>13. AnswersRight'
  <2> SUFFICES ASSUME NEW q \in Reports, report'[q].pc \in {"answer", "done"}
               PROVE  /\ report'[q].id \in 1..n
                      /\ events'[report'[q].id].attempt = report'[q].attempt
                      /\ events'[report'[q].id].type = report'[q].type
                      /\ events'[report'[q].id].at >= report'[q].at - Window
                      /\ report'[q].as = "stored"
                            <=> events'[report'[q].id].from = q
    BY <1>1 DEF AnswersRight, Matches
  <2>1. CASE q = r
    BY <2>1, <1>0, <1>2, <1>3, <1>6 DEF Matches, n
  <2>2. CASE q # r
    <3>1. report'[q] = report[q] /\ report[q].id \in 1..Len(events)
      BY <2>2, <1>1, <1>2 DEF ReportInv, AnswersRight
    <3> QED BY <3>1, <2>2, <1>0, <1>1, <1>4 DEF ReportInv, AnswersRight, Matches, n
  <2> QED BY <2>1, <2>2
<1>14. Unanswered'
  BY <1>0, <1>2 DEF ReportInv, Unanswered, Inserts, TypeOK, Report
<1> QED BY <1>8, <1>9, <1>10, <1>11, <1>12, <1>13, <1>14 DEF ReportInv

\* Every step preserves what relates reports and rows.
LEMMA ReportStepInv ==
    ASSUME TypeOK, TypeOK', ReviewIds, ReportInv, [Next]_vars
    PROVE  ReportInv'
<1>0. DOMAIN events = 1..Len(events)
  BY RowIds
<1>1. ASSUME NEW r \in Reports, ReportStep(r) \/ ReportFail(r)
      PROVE  ReportInv'
  <2>0. report[r] \in Report /\ report'[r] \in Report
    BY DEF TypeOK
  <2>1. report[r].pc \in {"idle", "stamp", "check", "insert", "lookup"} =>
           \A i \in DOMAIN events : events[i].from # r
    BY DEF ReportInv, RowsFromReports
  <2>2. ASSUME NEW pc \in {"stamp", "lookup", "done", "forbidden", "bad_request",
                           "not_found", "failed"},
               ReportGoto(r, pc), UNCHANGED events,
               pc \in {"stamp", "lookup"} =>
                   report[r].pc \in {"idle", "stamp", "check", "insert", "lookup"},
               pc = "done" => report[r].pc = "answer",
               report[r].pc = "answer" => pc \in {"done", "not_found", "failed"},
               report[r].pc \in {"idle", "answer"} \cup ReportSteps
        PROVE  ReportInv'
    <3> DEFINE rec == [report[r] EXCEPT !.pc = pc]
    <3>1. rec \in Report
      BY <2>0, ReportGotoType, <2>2 DEF Report, ReportSteps, ReportEnds
    <3>2. /\ rec.pc = pc /\ rec.attempt = report[r].attempt
          /\ rec.type = report[r].type /\ rec.as = report[r].as
          /\ rec.id = report[r].id /\ rec.seen = report[r].seen
          /\ rec.at = report[r].at
      BY <2>0 DEF Report
    <3>3. report' = [report EXCEPT ![r] = rec]
      BY <2>2 DEF ReportGoto
    <3>4. \A i \in DOMAIN events : events[i].from = r =>
               /\ pc \in {"answer", "done", "not_found", "failed"}
               /\ report[r].as = "stored" /\ report[r].id = i
      BY <2>1, <2>2 DEF ReportInv, RowsFromReports, ReportSteps
    <3>5. pc = "done" =>
               /\ report[r].id \in DOMAIN events
               /\ Matches(report[r].id, r)
               /\ events[report[r].id].at >= report[r].at - Window
               /\ report[r].as = "stored" <=> events[report[r].id].from = r
      BY <2>2 DEF ReportInv, AnswersRight
    <3>6. pc \in {"stamp", "lookup"} => report[r].as = "none"
      BY <2>2 DEF ReportInv, Unanswered
    <3> HIDE DEF rec
    <3>9. MovesTo(r, rec)
      BY <2>2, <3>1, <3>2, <3>3, <3>4, <3>5, <3>6 DEF MovesTo
    <3> QED BY <2>2, <3>1, <3>2, <3>3, <3>4, <3>5, <3>6, <3>9, ReportMoves
  <2>3. CASE ReportLoad(r)
    BY <2>2, <2>3 DEF ReportLoad
  <2>4. CASE ReportStamp(r)
    <3> DEFINE rec == [report[r] EXCEPT !.pc = "check", !.at = now]
    <3>1. rec \in Report /\ report' = [report EXCEPT ![r] = rec]
      BY <2>0, <2>4 DEF ReportStamp, Report, TypeOK, ReportSteps
    <3>2. /\ rec.pc = "check" /\ rec.attempt = report[r].attempt
          /\ rec.type = report[r].type /\ rec.as = report[r].as
      BY <2>0 DEF Report
    <3>3. report[r].as = "none" /\ report[r].pc = "stamp"
      BY <2>4 DEF ReportStamp, ReportInv, Unanswered
    <3> HIDE DEF rec
    <3>9. MovesTo(r, rec)
      BY <2>1, <2>4, <3>1, <3>2, <3>3 DEF MovesTo
    <3> QED BY <2>1, <2>4, <3>1, <3>2, <3>3, <3>9, ReportMoves DEF ReportStamp
  <2>5. CASE ReportCheck(r)
    <3>0. /\ report[r].as = "none" /\ report[r].pc = "check"
          /\ UNCHANGED events /\ Len(events) \in Nat
          /\ report[r].at \in Nat
          /\ \A i \in DOMAIN events : events[i].at \in Nat
      BY <2>0, <2>5, <1>0, LenProperties, RowType
         DEF ReportCheck, ReportInv, Unanswered, TypeOK, Report, Event
    <3>1. ASSUME Recent(r) = {},
                 report' = [report EXCEPT ![r] =
                     [@ EXCEPT !.pc = "insert", !.seen = Len(events)]]
          PROVE  ReportInv'
      <4> DEFINE rec == [report[r] EXCEPT !.pc = "insert", !.seen = Len(events)]
      <4>1. rec \in Report /\ report' = [report EXCEPT ![r] = rec]
        BY <2>0, <3>0, <3>1 DEF Report, ReportSteps
      <4>2. /\ rec.pc = "insert" /\ rec.attempt = report[r].attempt
            /\ rec.type = report[r].type /\ rec.as = report[r].as
            /\ rec.seen = Len(events) /\ rec.at = report[r].at
        BY <2>0 DEF Report
      <4>3. \A i \in DOMAIN events :
               Matches(i, r) => events[i].at < report[r].at - Window
        BY <3>0, <3>1 DEF Recent
      <4> HIDE DEF rec
      <4>9. MovesTo(r, rec)
        BY <2>1, <3>0, <4>1, <4>2, <4>3 DEF MovesTo
      <4> QED BY <2>1, <3>0, <4>1, <4>2, <4>3, <4>9, ReportMoves
    <3>2. ASSUME NEW i \in Newest(Recent(r)),
                 report' = [report EXCEPT ![r] =
                     [@ EXCEPT !.pc = "answer", !.id = i, !.as = "merged"]]
          PROVE  ReportInv'
      <4> DEFINE rec == [report[r] EXCEPT !.pc = "answer", !.id = i, !.as = "merged"]
      <4>0. /\ i \in DOMAIN events /\ i \in Nat /\ Matches(i, r)
            /\ events[i].at >= report[r].at - Window
        BY <1>0, <3>2 DEF Newest, Recent
      <4>1. rec \in Report /\ report' = [report EXCEPT ![r] = rec]
        BY <2>0, <3>2, <4>0 DEF Report, ReportSteps
      <4>2. /\ rec.pc = "answer" /\ rec.attempt = report[r].attempt
            /\ rec.type = report[r].type /\ rec.as = "merged"
            /\ rec.id = i /\ rec.at = report[r].at
        BY <2>0 DEF Report
      <4> HIDE DEF rec
      <4>9. MovesTo(r, rec)
        BY <2>1, <3>0, <4>0, <4>1, <4>2 DEF MovesTo
      <4> QED BY <2>1, <3>0, <4>0, <4>1, <4>2, <4>9, ReportMoves
    <3> QED BY <2>5, <3>1, <3>2 DEF ReportCheck
  <2>6. CASE ReportInsert(r)
    <3>1. CASE SameDedupKey(r) # {}
      BY <2>2, <2>6, <3>1 DEF ReportInsert, ReportSteps
    <3>2. CASE SameDedupKey(r) = {}
      <4>1. Inserts(r)
        BY <2>6, <3>2, InsertsRow DEF ReportInsert
      <4> QED BY <2>6, <3>2, <4>1, InsertStep DEF ReportInsert
    <3> QED BY <3>1, <3>2
  <2>7. CASE ReportLookup(r)
    <3>1. ASSUME NEW i \in SameDedupKey(r),
                 report' = [report EXCEPT ![r] =
                     [@ EXCEPT !.pc = "done", !.id = i, !.as = "merged"]]
          PROVE  ReportInv'
      <4> DEFINE rec == [report[r] EXCEPT !.pc = "done", !.id = i, !.as = "merged"]
      <4>0. /\ i \in DOMAIN events /\ i \in Nat /\ Matches(i, r)
            /\ Bucket(events[i].at) = Bucket(report[r].at)
        BY <1>0, <3>1 DEF SameDedupKey, ReportInv, BucketsRight
      <4>1. rec \in Report /\ report' = [report EXCEPT ![r] = rec]
        BY <2>0, <3>1, <4>0 DEF Report, ReportEnds
      <4>2. /\ rec.pc = "done" /\ rec.attempt = report[r].attempt
            /\ rec.type = report[r].type /\ rec.as = "merged"
            /\ rec.id = i /\ rec.at = report[r].at
        BY <2>0 DEF Report
      <4>3. events[i].at \in Nat /\ report[r].at \in Nat
        BY <2>0, <1>0, <4>0, RowType DEF Event, Report
      <4>4. events[i].at >= report[r].at - Window
        <5>1. /\ Bucket(report[r].at) \in Nat
              /\ Bucket(report[r].at) * Window <= events[i].at
              /\ report[r].at < Bucket(report[r].at) * Window + Window
          BY <4>0, <4>3, BucketBounds
        <5> QED BY <4>3, <5>1
      <4>5. UNCHANGED events /\ \A j \in DOMAIN events : events[j].from # r
        BY <2>1, <2>7 DEF ReportLookup
      <4> HIDE DEF rec
      <4>9. MovesTo(r, rec)
        BY <4>0, <4>1, <4>2, <4>4, <4>5 DEF MovesTo
      <4> QED BY <4>0, <4>1, <4>2, <4>4, <4>5, <4>9, ReportMoves
    <3>2. ASSUME ReportGoto(r, "not_found") PROVE ReportInv'
      BY <2>2, <2>7, <3>2 DEF ReportLookup, ReportSteps
    <3> QED BY <2>7, <3>1, <3>2 DEF ReportLookup
  <2>8. CASE ReportAnswer(r)
    BY <2>2, <2>8 DEF ReportAnswer
  <2>9. CASE ReportFail(r)
    BY <2>2, <2>9 DEF ReportFail
  <2> QED BY <1>1, <2>3, <2>4, <2>5, <2>6, <2>7, <2>8, <2>9 DEF ReportStep
<1>2. ASSUME NEW v \in Reviews, ReviewWrite(v) PROVE ReportInv'
  <2>1. review[v].id \in 1..Len(events) /\ UNCHANGED report
    BY <1>2 DEF ReviewWrite, ReviewIds
  <2>2. CASE UNCHANGED events
    BY <2>1, <2>2, ReportFrame
  <2>3. CASE events' = [events EXCEPT ![review[v].id] = Decided(@, v)]
    <3>1. Decides(v)
      BY <2>1, <2>3, DecidesRow
    <3>2. \A i \in 1..Len(events) :
             LET d == Decided(events[i], v)
             IN  /\ d.attempt = events[i].attempt /\ d.type = events[i].type
                 /\ d.at = events[i].at /\ d.bucket = events[i].bucket
                 /\ d.from = events[i].from
      BY RowType DEF Decided, Event
    <3> QED BY <2>1, <3>1, <3>2, ReportFrame DEF Decides
  <2> QED BY <1>2, <2>2, <2>3 DEF ReviewWrite
<1>3. CASE UNCHANGED <<events, report>>
  BY <1>3, ReportFrame
<1> QED BY <1>1, <1>2, <1>3
        DEF Next, ReviewStep, ReviewLoad, ReviewScope, ReviewReread, ReviewFail,
            SubmitAttempt, DeleteExam, Tick, vars

-----------------------------------------------------------------------------
(* Reviews.                                                                *)

Entitled(u, i) == u \in Admins \/ u = CreatedBy[ExamOf[events[i].attempt]]

\* What a review read as decided is decided, and who gets to the UPDATE may.
ReviewsOnTrack ==
    \A v \in Reviews :
        /\ review[v].pc = "scope" /\ review[v].status # "pending"
              => events[review[v].id].status # "pending"
        /\ review[v].pc = "write" => Entitled(review[v].user, review[v].id)

\* A decided row names the review that decided it.
DecidedByReviews ==
    \A i \in DOMAIN events :
        events[i].status # "pending" =>
            events[i].by \in Reviews /\ Entitled(review[events[i].by].user, i)

ReviewInv == /\ ReviewIds /\ WinnerStands /\ RefusedOnlyWhenDecided
             /\ ReviewsOnTrack /\ DecidedByReviews

\* What every step keeps of the rows.
RowsKept == /\ \A i \in 1..Len(events) :
                  /\ events[i].status # "pending" => events'[i] = events[i]
                  /\ events'[i].attempt = events[i].attempt
                  /\ events'[i].at = events[i].at
            /\ Len(events') \in Nat /\ Len(events') >= Len(events)

\* Every step keeps the rows, but for an insert or the UPDATE of a pending row.
LEMMA RowsStep ==
    ASSUME TypeOK, ReviewIds, [Next]_vars
    PROVE  RowsKept
<1>0. Len(events) \in Nat
  BY LenProperties DEF TypeOK
<1>1. ASSUME NEW r \in Reports, ReportInsert(r) PROVE RowsKept
  <2>1. CASE UNCHANGED events
    BY <1>0, <2>1 DEF RowsKept
  <2>2. CASE events' = Append(events, NewEvent(r))
    BY <1>0, <2>2, InsertsRow DEF Inserts, RowsKept
  <2> QED BY <1>1, <2>1, <2>2 DEF ReportInsert
<1>2. ASSUME NEW v \in Reviews, ReviewWrite(v) PROVE RowsKept
  <2>1. review[v].id \in 1..Len(events)
    BY <1>2 DEF ReviewWrite, ReviewIds
  <2>2. CASE UNCHANGED events
    BY <1>0, <2>2 DEF RowsKept
  <2>3. CASE events[review[v].id].status = "pending"
             /\ events' = [events EXCEPT ![review[v].id] = Decided(@, v)]
    <3>1. Decides(v)
      BY <2>1, <2>3, DecidesRow
    <3>2. LET d == Decided(events[review[v].id], v)
          IN  /\ d.attempt = events[review[v].id].attempt
              /\ d.at = events[review[v].id].at
      BY <2>1, RowType DEF Decided, Event
    <3> QED BY <1>0, <2>3, <3>1, <3>2 DEF Decides, RowsKept
  <2> QED BY <1>2, <2>2, <2>3 DEF ReviewWrite
<1>3. CASE UNCHANGED events
  BY <1>0, <1>3 DEF RowsKept
<1> QED BY <1>1, <1>2, <1>3
        DEF Next, ReportStep, ReviewStep, ReportLoad, ReportStamp, ReportCheck,
            ReportLookup, ReportAnswer, ReportFail, ReviewLoad, ReviewScope,
            ReviewReread, ReviewFail, SubmitAttempt, DeleteExam, Tick, vars

\* Steps that change no review's local state preserve ReviewInv.
LEMMA ReviewFrame ==
    ASSUME TypeOK, TypeOK', ReviewInv, RowsKept, UNCHANGED review,
           \A i \in DOMAIN events' : i \notin DOMAIN events
               => events'[i].status = "pending",
           \A i \in DOMAIN events : events'[i].status = events[i].status
    PROVE  ReviewInv'
<1>1. /\ DOMAIN events = 1..Len(events) /\ DOMAIN events' = 1..Len(events')
      /\ Len(events) \in Nat
  BY RowIds, LenProperties DEF TypeOK
<1>2. ReviewIds'
  BY <1>1 DEF ReviewInv, ReviewIds, RowsKept
<1>3. WinnerStands'
  <2> SUFFICES ASSUME NEW v \in Reviews, review[v].pc \in {"reread", "done"}
               PROVE  /\ events'[review[v].id].by = v
                      /\ events'[review[v].id].status = review[v].verdict
    BY DEF WinnerStands
  <2>1. review[v].id \in 1..Len(events) /\ review[v].verdict \in Verdicts
    BY DEF ReviewInv, ReviewIds, TypeOK, Review
  <2> QED BY <2>1 DEF ReviewInv, WinnerStands, RowsKept, Verdicts
<1>4. RefusedOnlyWhenDecided'
  BY <1>1 DEF ReviewInv, ReviewIds, RefusedOnlyWhenDecided, RowsKept
<1>5. ReviewsOnTrack'
  BY <1>1 DEF ReviewInv, ReviewIds, ReviewsOnTrack, RowsKept, Entitled
<1>6. DecidedByReviews'
  BY <1>1 DEF ReviewInv, DecidedByReviews, RowsKept, Entitled
<1> QED BY <1>2, <1>3, <1>4, <1>5, <1>6 DEF ReviewInv

\* What a review's own steps other than the UPDATE make of its local state.
ReviewMovesTo(v, rec) ==
    /\ rec.user = review[v].user /\ rec.verdict = review[v].verdict
    /\ rec.pc \notin {"idle", "not_found"} => rec.id \in 1..Len(events)
    /\ rec.pc \in {"reread", "done"} =>
           /\ rec.id = review[v].id
           /\ review[v].pc \in {"reread", "done"}
    /\ rec.pc = "already_reviewed" => events[rec.id].status # "pending"
    /\ rec.pc = "scope" /\ rec.status # "pending"
           => events[rec.id].status # "pending"
    /\ rec.pc = "write" => Entitled(rec.user, rec.id)

\* A review's other steps preserve ReviewInv.
LEMMA ReviewMoves ==
    ASSUME TypeOK, ReviewInv, NEW v \in Reviews, UNCHANGED <<events, exams>>,
           NEW rec \in Review, review' = [review EXCEPT ![v] = rec],
           ReviewMovesTo(v, rec)
    PROVE  ReviewInv'
<1> USE DEF ReviewMovesTo
<1>1. \A w \in Reviews : review'[w] = IF w = v THEN rec ELSE review[w]
  BY DEF TypeOK
<1>2. ReviewIds'
  BY <1>1 DEF ReviewInv, ReviewIds
<1>3. WinnerStands'
  BY <1>1 DEF ReviewInv, WinnerStands
<1>4. RefusedOnlyWhenDecided'
  BY <1>1 DEF ReviewInv, RefusedOnlyWhenDecided
<1>5. ReviewsOnTrack'
  <2> SUFFICES ASSUME NEW w \in Reviews
               PROVE  /\ review'[w].pc = "scope" /\ review'[w].status # "pending"
                            => events[review'[w].id].status # "pending"
                      /\ review'[w].pc = "write"
                            => Entitled(review'[w].user, review'[w].id)
    BY DEF ReviewsOnTrack, Entitled
  <2>1. CASE w = v
    BY <2>1, <1>1
  <2>2. CASE w # v
    BY <2>2, <1>1 DEF ReviewInv, ReviewsOnTrack
  <2> QED BY <2>1, <2>2
<1>6. DecidedByReviews'
  BY <1>1 DEF ReviewInv, DecidedByReviews, Entitled
<1> QED BY <1>2, <1>3, <1>4, <1>5, <1>6 DEF ReviewInv

\* The UPDATE of a pending row: the row now holds this review's conclusion.
LEMMA DecideStep ==
    ASSUME TypeOK, TypeOK', ReviewInv, RowsKept, NEW v \in Reviews,
           review[v].pc = "write", Decides(v),
           events[review[v].id].status = "pending", ReviewGoto(v, "reread")
    PROVE  ReviewInv'
<1> DEFINE n == review[v].id
<1>1. /\ DOMAIN events = 1..Len(events) /\ DOMAIN events' = 1..Len(events)
      /\ n \in 1..Len(events) /\ Len(events') = Len(events)
  BY RowIds, LenProperties DEF TypeOK, ReviewInv, ReviewIds, Decides
<1>2. /\ \A w \in Reviews : w # v => review'[w] = review[w]
      /\ review'[v].pc = "reread" /\ review'[v].id = n
      /\ review'[v].user = review[v].user
      /\ review'[v].verdict = review[v].verdict
      /\ review[v].verdict \in Verdicts
  BY DEF ReviewGoto, TypeOK, Review
<1>3. /\ \A i \in 1..Len(events) : i # n => events'[i] = events[i]
      /\ events'[n].by = v /\ events'[n].status = review[v].verdict
      /\ events'[n].attempt = events[n].attempt
      /\ events'[n].status # "pending"
  BY <1>1, <1>2, RowType DEF Decides, Decided, Event, Verdicts
<1>4. Entitled(review[v].user, n)
  BY DEF ReviewInv, ReviewsOnTrack
<1> HIDE DEF n
<1>5. ReviewIds'
  BY <1>1, <1>2 DEF ReviewInv, ReviewIds
<1>6. WinnerStands'
  <2> SUFFICES ASSUME NEW w \in Reviews, review'[w].pc \in {"reread", "done"}
               PROVE  /\ events'[review'[w].id].by = w
                      /\ events'[review'[w].id].status = review'[w].verdict
    BY DEF WinnerStands
  <2>1. CASE w = v
    BY <2>1, <1>2, <1>3
  <2>2. CASE w # v
    <3>1. /\ review'[w] = review[w] /\ review[w].id \in 1..Len(events)
          /\ review[w].verdict \in Verdicts
          /\ events[review[w].id].by = w
          /\ events[review[w].id].status = review[w].verdict
      BY <2>2, <1>2 DEF ReviewInv, ReviewIds, WinnerStands, TypeOK, Review
    <3>2. review[w].id # n
      BY <3>1 DEF n, Verdicts
    <3> QED BY <3>1, <3>2, <1>3
  <2> QED BY <2>1, <2>2
<1>7. RefusedOnlyWhenDecided'
  BY <1>1, <1>2, <1>3 DEF ReviewInv, ReviewIds, RefusedOnlyWhenDecided
<1>8. ReviewsOnTrack'
  BY <1>1, <1>2, <1>3 DEF ReviewInv, ReviewIds, ReviewsOnTrack, Entitled
<1>9. DecidedByReviews'
  <2>1. \A w \in Reviews : review'[w].user = review[w].user
    BY <1>2
  <2> QED BY <1>1, <1>3, <1>4, <2>1 DEF ReviewInv, DecidedByReviews, Entitled
<1> QED BY <1>5, <1>6, <1>7, <1>8, <1>9 DEF ReviewInv

\* Every step preserves what relates reviews and rows.
LEMMA ReviewStepInv ==
    ASSUME TypeOK, TypeOK', ReviewInv, [Next]_vars
    PROVE  ReviewInv'
<1>0. /\ RowsKept /\ DOMAIN events = 1..Len(events) /\ Len(events) \in Nat
      /\ DOMAIN events' = 1..Len(events')
  BY RowsStep, RowIds, LenProperties DEF ReviewInv, TypeOK
<1>1. ASSUME NEW r \in Reports, ReportInsert(r) PROVE ReviewInv'
  <2>1. CASE UNCHANGED events
    BY <1>0, <1>1, <2>1, ReviewFrame DEF ReportInsert
  <2>2. CASE events' = Append(events, NewEvent(r))
    <3>1. Inserts(r) /\ NewEvent(r).status = "pending"
      BY <2>2, InsertsRow DEF NewEvent
    <3> QED BY <1>0, <1>1, <3>1, ReviewFrame DEF ReportInsert, Inserts
  <2> QED BY <1>1, <2>1, <2>2 DEF ReportInsert
<1>2. ASSUME NEW v \in Reviews, ReviewStep(v) \/ ReviewFail(v) PROVE ReviewInv'
  <2>0. review[v] \in Review /\ review'[v] \in Review
    BY DEF TypeOK
  <2>1. ASSUME NEW pc \in {"done", "forbidden", "already_reviewed", "not_found",
                           "failed", "write"},
               ReviewGoto(v, pc), UNCHANGED <<events, exams>>,
               review[v].pc \in ReviewSteps,
               pc = "done" => review[v].pc = "reread",
               pc = "already_reviewed" => events[review[v].id].status # "pending",
               pc = "write" => Entitled(review[v].user, review[v].id)
        PROVE  ReviewInv'
    <3> DEFINE rec == [review[v] EXCEPT !.pc = pc]
    <3>1. rec \in Review
      BY <2>0, <2>1 DEF Review, ReviewSteps, ReviewEnds
    <3>2. /\ rec.pc = pc /\ rec.id = review[v].id /\ rec.user = review[v].user
          /\ rec.verdict = review[v].verdict /\ rec.status = review[v].status
      BY <2>0 DEF Review
    <3>3. review' = [review EXCEPT ![v] = rec]
      BY <2>1 DEF ReviewGoto
    <3>4. review[v].id \in 1..Len(events)
      BY <2>1 DEF ReviewInv, ReviewIds, ReviewSteps
    <3> HIDE DEF rec
    <3>5. ReviewMovesTo(v, rec)
      BY <2>1, <3>2, <3>4 DEF ReviewMovesTo
    <3> QED BY <2>1, <3>1, <3>3, <3>5, ReviewMoves
  <2>2. CASE ReviewLoad(v)
    <3>1. PICK i \in 1..(Len(events) + 1) :
             IF Joined(i)
             THEN review' = [review EXCEPT ![v] =
                     [@ EXCEPT !.pc = "scope", !.id = i,
                               !.status = events[i].status]]
             ELSE review' = [review EXCEPT ![v] =
                     [@ EXCEPT !.pc = "not_found", !.id = i]]
      BY <2>2 DEF ReviewLoad
    <3>2. UNCHANGED <<events, exams>>
      BY <2>2 DEF ReviewLoad
    <3>3. CASE Joined(i)
      <4> DEFINE rec == [review[v] EXCEPT !.pc = "scope", !.id = i,
                                          !.status = events[i].status]
      <4>1. review' = [review EXCEPT ![v] = rec] /\ i \in 1..Len(events)
        BY <3>1, <3>3, <1>0 DEF Joined
      <4>2. events[i].status \in {"pending"} \cup Verdicts /\ i \in Nat
        BY <4>1, <1>0, RowType DEF Event
      <4>3. rec \in Review
        BY <2>0, <4>2 DEF Review, ReviewSteps
      <4>4. /\ rec.pc = "scope" /\ rec.id = i /\ rec.status = events[i].status
            /\ rec.user = review[v].user /\ rec.verdict = review[v].verdict
        BY <2>0 DEF Review
      <4> HIDE DEF rec
      <4>5. ReviewMovesTo(v, rec)
        BY <4>1, <4>4 DEF ReviewMovesTo
      <4> QED BY <3>2, <4>1, <4>3, <4>5, ReviewMoves
    <3>4. CASE ~Joined(i)
      <4> DEFINE rec == [review[v] EXCEPT !.pc = "not_found", !.id = i]
      <4>1. review' = [review EXCEPT ![v] = rec] /\ i \in Nat
        BY <3>1, <3>4, <1>0
      <4>2. rec \in Review
        BY <2>0, <4>1 DEF Review, ReviewEnds
      <4>3. /\ rec.pc = "not_found"
            /\ rec.user = review[v].user /\ rec.verdict = review[v].verdict
        BY <2>0 DEF Review
      <4> HIDE DEF rec
      <4>4. ReviewMovesTo(v, rec)
        BY <4>3 DEF ReviewMovesTo
      <4> QED BY <3>2, <4>1, <4>2, <4>4, ReviewMoves
    <3> QED BY <3>3, <3>4
  <2>3. CASE ReviewScope(v)
    <3>1. review[v].status # "pending" => events[review[v].id].status # "pending"
      BY <2>3 DEF ReviewScope, ReviewInv, ReviewsOnTrack
    <3> QED BY <2>1, <2>3, <3>1 DEF ReviewScope, ReviewSteps, Entitled
  <2>4. CASE ReviewWrite(v)
    <3>1. review[v].id \in 1..Len(events) /\ review[v].pc = "write"
      BY <2>4 DEF ReviewWrite, ReviewInv, ReviewIds
    <3>2. CASE events[review[v].id].status = "pending"
      <4>1. Decides(v)
        BY <2>4, <3>1, <3>2, DecidesRow DEF ReviewWrite
      <4> QED BY <1>0, <2>4, <3>1, <3>2, <4>1, DecideStep DEF ReviewWrite
    <3>3. CASE events[review[v].id].status # "pending"
      BY <2>1, <2>4, <3>3 DEF ReviewWrite, ReviewSteps
    <3> QED BY <3>2, <3>3
  <2>5. CASE ReviewReread(v)
    BY <2>1, <2>5 DEF ReviewReread, ReviewSteps
  <2>6. CASE ReviewFail(v)
    BY <2>1, <2>6 DEF ReviewFail
  <2> QED BY <1>2, <2>2, <2>3, <2>4, <2>5, <2>6 DEF ReviewStep
<1>3. CASE UNCHANGED <<events, review>>
  BY <1>0, <1>3, ReviewFrame
<1> QED BY <1>1, <1>2, <1>3
        DEF Next, ReportStep, ReportLoad, ReportStamp, ReportCheck, ReportLookup,
            ReportAnswer, ReportFail, SubmitAttempt, DeleteExam, Tick, vars

-----------------------------------------------------------------------------
(* The inductive invariant and what follows from it.                       *)

IInv == TypeOK /\ ReportInv /\ ReviewInv

\* The inductive invariant holds initially.
LEMMA InitInv == Init => IInv
<1> SUFFICES ASSUME Init PROVE IInv
  OBVIOUS
<1>1. TypeOK
  BY EmptySeq DEF Init, TypeOK, Report, Review, Verdicts
<1>2. DOMAIN events = {} /\ Len(events) = 0
  BY <1>1, RowIds, EmptySeq DEF Init
<1>3. ReportInv
  BY <1>2 DEF Init, ReportInv, BucketsRight, DedupKeyUnique,
              CloseEventsOverlapped, RowsFromReports, NothingRecentSeen,
              AnswersRight, Unanswered
<1>4. ReviewInv
  BY <1>2 DEF Init, ReviewInv, ReviewIds, WinnerStands, RefusedOnlyWhenDecided,
              ReviewsOnTrack, DecidedByReviews
<1> QED BY <1>1, <1>3, <1>4 DEF IInv

\* Every step preserves the inductive invariant.
LEMMA StepInv == IInv /\ [Next]_vars => IInv'
<1> SUFFICES ASSUME IInv, [Next]_vars PROVE IInv'
  OBVIOUS
<1>1. TypeOK'
  BY TypeStep DEF IInv, ReviewInv
<1>2. ReportInv'
  BY <1>1, ReportStepInv DEF IInv, ReviewInv
<1>3. ReviewInv'
  BY <1>1, ReviewStepInv DEF IInv
<1> QED BY <1>1, <1>2, <1>3 DEF IInv

\* The inductive invariant holds in every behaviour.
LEMMA InvHolds == Spec => []IInv
  BY InitInv, StepInv, PTL DEF Spec

\* The variables keep their types: rows, requests, clock and tables.
THEOREM TypeCorrect == Spec => []TypeOK
<1>1. IInv => TypeOK
  BY DEF IInv
<1> QED BY <1>1, InvHolds, PTL

\* However the pre-checks and inserts of any number of concurrent reports
\* interleave, an attempt has one row per type and bucket.
THEOREM DedupUnique == Spec => []DedupKeyUnique
<1>1. IInv => DedupKeyUnique
  BY DEF IInv, ReportInv
<1> QED BY <1>1, InvHolds, PTL

\* Of three rows of one attempt and type two are more than a window apart:
\* concurrency can double an event of a window, never triple it.
THEOREM AtMostTwo == Spec => []AtMostTwoPerWindow
<1>1. ASSUME IInv PROVE AtMostTwoPerWindow
  <2> SUFFICES ASSUME NEW i \in DOMAIN events, NEW j \in DOMAIN events,
                      NEW k \in DOMAIN events,
                      SameKind(i, j), SameKind(j, k),
                      events[i].at <= events[j].at, events[j].at <= events[k].at,
                      i # j, j # k, i # k
               PROVE  events[k].at - events[i].at > Window
    BY DEF AtMostTwoPerWindow
  <2> DEFINE b(m) == Bucket(events[m].at)
  <2>1. /\ events[i].at \in Nat /\ events[j].at \in Nat /\ events[k].at \in Nat
    BY <1>1, RowIds, RowType DEF IInv, Event
  <2>2. b(i) # b(j) /\ b(j) # b(k)
    BY <1>1 DEF IInv, ReportInv, BucketsRight, DedupKeyUnique
  <2>3. b(i) <= b(j) /\ b(j) <= b(k) /\ b(i) \in Nat /\ b(j) \in Nat /\ b(k) \in Nat
    BY <2>1, BucketMonotonic, BucketBounds
  <2>4. b(i) + 2 <= b(k)
    BY <2>2, <2>3
  <2> QED BY <2>1, <2>4, BucketGap
<1> QED BY <1>1, InvHolds, PTL

\* Two rows of one attempt and type within a window come from overlapping
\* reports: the later one had run its pre-check before the earlier was stored.
THEOREM OnlyOverlapsDouble == Spec => []CloseEventsOverlapped
<1>1. IInv => CloseEventsOverlapped
  BY DEF IInv, ReportInv
<1> QED BY <1>1, InvHolds, PTL

\* Every answered report is answered with a row of its attempt and type at
\* most a window older, and deduplicated=false goes to the row's own report.
THEOREM AnswersCorrect == Spec => [](AnswerCovers /\ OneFreshAnswerPerEvent)
<1>1. IInv => AnswerCovers /\ OneFreshAnswerPerEvent
  BY DEF IInv, ReportInv, AnswersRight, AnswerCovers, OneFreshAnswerPerEvent
<1> QED BY <1>1, InvHolds, PTL

\* A review that is told it succeeded finds its own conclusion in the row, and
\* a refused one was refused because the row is decided.
THEOREM ReviewsCorrect == Spec => [](WinnerStands /\ RefusedOnlyWhenDecided)
<1>1. IInv => WinnerStands /\ RefusedOnlyWhenDecided
  BY DEF IInv, ReviewInv
<1> QED BY <1>1, InvHolds, PTL

\* Only admins and the creator of the exam decide an event.
THEOREM ReviewersEntitled == Spec => []ReviewedByEntitled
<1>1. IInv => ReviewedByEntitled
  BY DEF IInv, ReviewInv, DecidedByReviews, ReviewedByEntitled, Entitled
<1> QED BY <1>1, InvHolds, PTL

\* A conclusion, once stored, is never overwritten, and no row disappears.
THEOREM ConclusionsFinal == Spec => ConclusionFinal
<1>1. IInv /\ IInv' /\ [Next]_vars =>
         [\A i \in DOMAIN events :
             /\ i \in DOMAIN events'
             /\ events[i].status # "pending" => events'[i] = events[i]
             /\ events'[i].attempt = events[i].attempt
             /\ events'[i].at = events[i].at]_vars
  <2> SUFFICES ASSUME IInv, IInv', [Next]_vars, NEW i \in DOMAIN events
               PROVE  /\ i \in DOMAIN events'
                      /\ events[i].status # "pending" => events'[i] = events[i]
                      /\ events'[i].attempt = events[i].attempt
                      /\ events'[i].at = events[i].at
    OBVIOUS
  <2>1. RowsKept
    BY RowsStep DEF IInv, ReviewInv
  <2>2. DOMAIN events = 1..Len(events) /\ DOMAIN events' = 1..Len(events')
        /\ Len(events) \in Nat
    BY RowIds, LenProperties DEF IInv, TypeOK
  <2> QED BY <2>1, <2>2 DEF RowsKept
<1> QED BY <1>1, InvHolds, PTL DEF Spec, ConclusionFinal

-----------------------------------------------------------------------------
(* The review center implements the register.                              *)

\* Key k's entry after a step in which its rows keep ids and verdicts.
LEMMA EntryFrame ==
    ASSUME NEW k \in Keys, RowsOf(k)' = RowsOf(k),
           \A i \in RowsOf(k) : Verdict(events'[i]) = Verdict(events[i])
    PROVE  Entries'[k] = Entries[k]
<1>1. CASE RowsOf(k) = {}
  BY <1>1 DEF Entries
<1>2. CASE RowsOf(k) # {}
  <2> DEFINE c == CHOOSE i \in RowsOf(k) : TRUE
  <2>1. c \in RowsOf(k)
    BY <1>2
  <2>2. Entries[k] = Verdict(events[c])
    BY <1>2 DEF Entries
  <2>3. Entries'[k] = Verdict(events'[c])
    BY <1>2 DEF Entries, Verdict
  <2> QED BY <2>1, <2>2, <2>3
<1> QED BY <1>1, <1>2

\* The entry of a key with exactly one row.
LEMMA EntryOfOne ==
    ASSUME NEW k \in Keys, NEW i, RowsOf(k) = {i}
    PROVE  Entries[k] = Verdict(events[i])
  BY DEF Entries

\* The same after a step.
LEMMA EntryOfOneNext ==
    ASSUME NEW k \in Keys, NEW i, RowsOf(k)' = {i}
    PROVE  Entries'[k] = Verdict(events'[i])
  BY DEF Entries, Verdict

\* Entries as a function over the keys, for comparing it pointwise.
LEMMA EntriesDomain == Entries = [k \in Keys |-> Entries[k]]
                       /\ Entries' = [k \in Keys |-> Entries'[k]]
  BY DEF Entries

\* Every step is a step of the register or leaves it alone.
LEMMA RegisterStep ==
    ASSUME IInv, IInv', [Next]_vars
    PROVE  [Register!RegisterNext]_Entries
<1>0. /\ DOMAIN events = 1..Len(events) /\ DOMAIN events' = 1..Len(events')
      /\ Len(events) \in Nat
  BY RowIds, LenProperties DEF IInv, TypeOK
<1>1. ASSUME NEW r \in Reports, ReportInsert(r)
      PROVE  [Register!RegisterNext]_Entries
  <2>1. CASE UNCHANGED events
    BY <2>1 DEF Entries, RowsOf, KeyOf, Verdict
  <2>2. CASE SameDedupKey(r) = {} /\ events' = Append(events, NewEvent(r))
    <3>n. PICK n : n = Len(events) + 1
      OBVIOUS
    <3>k. PICK key : key = KeyOf(NewEvent(r))
      OBVIOUS
    <3>0. Inserts(r)
      BY <2>2, InsertsRow DEF IInv
    <3>1. \A k : k # key => RowsOf(k)' = RowsOf(k)
      BY <1>0, <3>0, <3>k DEF Inserts, RowsOf
    <3>2. RowsOf(key) = {}
      BY <2>2, <1>0, <3>k DEF RowsOf, KeyOf, NewEvent, SameDedupKey, Matches
    <3>3. RowsOf(key)' = {n}
      BY <1>0, <3>0, <3>2, <3>n, <3>k DEF Inserts, RowsOf
    <3>4. \A k \in Keys : k # key => Entries'[k] = Entries[k]
      <4> SUFFICES ASSUME NEW k \in Keys, k # key
                   PROVE  Entries'[k] = Entries[k]
        OBVIOUS
      <4>1. \A i \in RowsOf(k) : events'[i] = events[i]
        BY <1>0, <3>0 DEF RowsOf, Inserts
      <4> QED BY <3>1, <4>1, EntryFrame DEF Verdict
    <3>5. CASE key \in Keys
      <4>1. Entries[key] = "absent"
        BY <3>2, <3>5 DEF Entries
      <4>2. Entries'[key] = "pending"
        BY <3>0, <3>n, <3>3, <3>5, EntryOfOneNext DEF Verdict, Inserts, NewEvent
      <4>3. Entries' = [Entries EXCEPT ![key] = "pending"]
        BY <3>4, <3>5, <4>2, EntriesDomain
      <4> QED BY <3>5, <4>1, <4>3
              DEF Register!RegisterNext, Register!Record, Register!Absent,
                  Register!Pending
    <3>6. CASE key \notin Keys
      <4>1. Entries' = Entries
        BY <3>4, <3>6, EntriesDomain
      <4> QED BY <4>1
    <3> QED BY <3>5, <3>6
  <2> QED BY <1>1, <2>1, <2>2 DEF ReportInsert
<1>2. ASSUME NEW v \in Reviews, ReviewWrite(v)
      PROVE  [Register!RegisterNext]_Entries
  <2>1. CASE UNCHANGED events
    BY <2>1 DEF Entries, RowsOf, KeyOf, Verdict
  <2>2. CASE /\ events[review[v].id].status = "pending"
             /\ events' = [events EXCEPT ![review[v].id] = Decided(@, v)]
    <3>n. PICK n : n = review[v].id
      OBVIOUS
    <3>k. PICK key : key = KeyOf(events[n])
      OBVIOUS
    <3>0. n \in 1..Len(events)
      BY <1>2, <3>n DEF ReviewWrite, IInv, ReviewInv, ReviewIds
    <3>1. Decides(v)
      BY <2>2, <3>0, <3>n, DecidesRow DEF IInv
    <3>2. /\ \A i \in 1..Len(events) : KeyOf(events'[i]) = KeyOf(events[i])
          /\ Verdict(events'[n]) = v
          /\ \A i \in 1..Len(events) : i # n => events'[i] = events[i]
      <4>1. \A i \in 1..Len(events) : events[i] \in Event
        BY RowType DEF IInv
      <4>2. review[v].verdict \in Verdicts
        BY DEF IInv, TypeOK, Review
      <4>3. Decided(events[n], v).status # "pending"
            /\ Decided(events[n], v).by = v
        BY <3>0, <4>1, <4>2 DEF Decided, Event, Verdicts
      <4>4. KeyOf(Decided(events[n], v)) = KeyOf(events[n])
        BY <3>0, <4>1 DEF Decided, Event, KeyOf
      <4>5. \A i \in 1..Len(events) :
               events'[i] = IF i = n THEN Decided(events[n], v) ELSE events[i]
        BY <3>1, <3>n DEF Decides
      <4> QED BY <3>0, <4>3, <4>4, <4>5 DEF Verdict
    <3>3. \A k : RowsOf(k)' = RowsOf(k)
      BY <1>0, <3>1, <3>2 DEF RowsOf, Decides
    <3>4. RowsOf(key) = {n}
      <4>0. DedupKeyUnique
        BY DEF IInv, ReportInv
      <4>1. \A i \in DOMAIN events : KeyOf(events[i]) = key => i = n
        BY <3>0, <1>0, <3>k, <4>0 DEF KeyOf, SameKind, DedupKeyUnique
      <4> QED BY <4>1, <3>0, <1>0, <3>k DEF RowsOf
    <3>5. \A k \in Keys : k # key => Entries'[k] = Entries[k]
      <4> SUFFICES ASSUME NEW k \in Keys, k # key
                   PROVE  Entries'[k] = Entries[k]
        OBVIOUS
      <4>1. \A i \in RowsOf(k) : events'[i] = events[i]
        BY <1>0, <3>2, <3>k DEF RowsOf
      <4>2. RowsOf(k)' = RowsOf(k)
        BY <3>3
      <4>3. \A i \in RowsOf(k) : Verdict(events'[i]) = Verdict(events[i])
        BY <4>1 DEF Verdict
      <4> QED BY <4>2, <4>3, EntryFrame
    <3>6. CASE key \in Keys
      <4>1. Entries[key] = "pending"
        BY <2>2, <3>n, <3>4, <3>6, EntryOfOne DEF Verdict
      <4>2. Entries'[key] = v
        BY <3>2, <3>3, <3>4, <3>6, EntryOfOneNext
      <4>3. Entries' = [Entries EXCEPT ![key] = v]
        BY <3>5, <3>6, <4>2, EntriesDomain
      <4> QED BY <3>6, <4>1, <4>3
              DEF Register!RegisterNext, Register!Conclude, Register!Pending
    <3>7. CASE key \notin Keys
      <4>1. Entries' = Entries
        BY <3>5, <3>7, EntriesDomain
      <4> QED BY <4>1
    <3> QED BY <3>6, <3>7
  <2> QED BY <1>2, <2>1, <2>2 DEF ReviewWrite
<1>3. CASE UNCHANGED events
  BY <1>3 DEF Entries, RowsOf, KeyOf, Verdict
<1> QED BY <1>1, <1>2, <1>3
        DEF Next, ReportStep, ReviewStep, ReportLoad, ReportStamp, ReportCheck,
            ReportLookup, ReportAnswer, ReportFail, ReviewLoad, ReviewScope,
            ReviewReread, ReviewFail, SubmitAttempt, DeleteExam, Tick, vars

\* Refinement: reports record keys, reviews decide recorded keys once.
THEOREM RegisterImplemented == Spec => ImplementsRegister
<1>1. Init => Register!RegisterInit
  BY DEF Init, Register!RegisterInit, Entries, RowsOf, Register!Absent
<1>2. IInv /\ IInv' /\ [Next]_vars => [Register!RegisterNext]_Entries
  BY RegisterStep
<1> QED BY <1>1, <1>2, InvHolds, PTL
        DEF Spec, ImplementsRegister, Register!RegisterSpec

-----------------------------------------------------------------------------
(* The migration: the row that is kept of a window.                        *)

HIDE ConstantsAssumption
USE MigrationAssumption

\* The row of a window that SQL and Go keep: the first decided one or the first.
KeepOf(S, st) == LET decided == {i \in S : st[i] # "pending"}
                 IN  IF decided # {} THEN Min(decided) ELSE Min(S)

\* The recursion of a loop in id order over the rows of R from first on.
Loop(g, first, R, st) ==
    g = [s \in SUBSET R |->
           IF s = {} THEN first
           ELSE IF st[g[s \ {Max(s)}]] = "pending" /\ st[Max(s)] # "pending"
                THEN Max(s) ELSE g[s \ {Max(s)}]]

\* The loop is the value of such a function.
LEMMA ChosenIs ==
    ASSUME NEW S
    PROVE  chooseProctorEventToKeep(S) =
              (CHOOSE g : Loop(g, Min(S), S \ {Min(S)}, status))[S \ {Min(S)}]
  BY DEF chooseProctorEventToKeep, MapThenFoldSet, Loop

\* A least element is the minimum.
LEMMA MinUnique ==
    ASSUME NEW S, S \subseteq Nat, NEW m \in S, \A y \in S : m <= y
    PROVE  Min(S) = m
<1>1. Min(S) \in S /\ \A y \in S : Min(S) <= y
  BY MinIs
<1>2. Min(S) \in Nat /\ m \in Nat
  BY <1>1
<1> QED BY <1>1, <1>2

\* The rows up to the greatest keep what the rows before keep, or the greatest.
LEMMA KeepStep ==
    ASSUME NEW S, S \subseteq Nat, NEW st, NEW m \in S, S # {m}, \A y \in S : y <= m
    PROVE  KeepOf(S, st) = IF st[KeepOf(S \ {m}, st)] = "pending" /\ st[m] # "pending"
                           THEN m ELSE KeepOf(S \ {m}, st)
<1> DEFINE D == {i \in S : st[i] # "pending"}
           R == S \ {m}
           E == {i \in R : st[i] # "pending"}
<1>1. /\ D \subseteq S /\ E \subseteq D /\ E \subseteq R /\ R \subseteq S /\ R # {} /\ m \notin R
      /\ D \subseteq E \cup {m} /\ S \subseteq Nat /\ m \in Nat
  OBVIOUS
<1>2. Min(R) \in R /\ \A y \in R : Min(R) <= y
  BY <1>1, MinIs
<1>3. Min(S) = Min(R)
  <2>1. \A y \in S : Min(R) <= y
    BY <1>1, <1>2
  <2> QED BY <1>1, <1>2, <2>1, MinUnique
<1>4. CASE E # {}
  <2>1. Min(E) \in E /\ \A y \in E : Min(E) <= y
    BY <1>1, <1>4, MinIs
  <2>2. \A y \in D : Min(E) <= y
    BY <1>1, <2>1
  <2>3. Min(D) = Min(E)
    <3>1. D \subseteq Nat /\ Min(E) \in D
      BY <1>1, <2>1
    <3> QED BY <2>2, <3>1, MinUnique
  <2>4. KeepOf(S, st) = Min(D) /\ KeepOf(R, st) = Min(E)
    BY <1>1, <1>4 DEF KeepOf
  <2>5. st[Min(E)] # "pending"
    BY <2>1
  <2> QED BY <2>3, <2>4, <2>5
<1>5. CASE E = {}
  <2>1. KeepOf(R, st) = Min(R) /\ st[Min(R)] = "pending"
    BY <1>2, <1>5 DEF KeepOf
  <2>2. CASE st[m] = "pending"
    <3>1. D = {}
      BY <1>5, <2>2
    <3>2. KeepOf(S, st) = Min(S)
      BY <3>1 DEF KeepOf
    <3> QED BY <1>3, <2>1, <2>2, <3>2
  <2>3. CASE st[m] # "pending"
    <3>1. D = {m}
      BY <1>5, <2>3
    <3>2. KeepOf(S, st) = Min({m})
      BY <3>1 DEF KeepOf
    <3>3. Min({m}) = m
      BY <1>1, MinUnique
    <3> QED BY <2>1, <2>3, <3>2, <3>3
  <2> QED BY <2>2, <2>3
<1> QED BY <1>4, <1>5

\* chooseProctorEventToKeep keeps the first decided row, or else the first.
LEMMA Chosen ==
    ASSUME NEW S, S \subseteq Nat, IsFiniteSet(S), S # {}
    PROVE  chooseProctorEventToKeep(S) = KeepOf(S, status)
<1> DEFINE first == Min(S)
           R == S \ {first}
           h == [s \in SUBSET R |-> KeepOf(s \cup {first}, status)]
<1>1. first \in S /\ \A y \in S : first <= y
  BY MinIs
<1>2. ASSUME NEW s \in SUBSET R, s # {}
      PROVE  /\ Max(s) \in s /\ s \ {Max(s)} \in SUBSET R
             /\ KeepOf(s \cup {first}, status) =
                   IF status[KeepOf((s \ {Max(s)}) \cup {first}, status)] = "pending"
                      /\ status[Max(s)] # "pending"
                   THEN Max(s) ELSE KeepOf((s \ {Max(s)}) \cup {first}, status)
  <2> DEFINE m == Max(s)
             U == s \cup {first}
  <2>1. s \subseteq Nat /\ IsFiniteSet(s)
    BY FS_Subset
  <2>2. m \in s /\ \A y \in s : y <= m
    BY <1>2, <2>1, MaxIs
  <2>3. m # first /\ U \subseteq Nat /\ m \in U /\ first <= m
    BY <1>1, <2>2
  <2> HIDE DEF m, first
  <2>4. U # {m} /\ \A y \in U : y <= m
    BY <2>2, <2>3
  <2>5. U \ {m} = (s \ {m}) \cup {first}
    BY <2>3
  <2>6. KeepOf(U, status) = IF status[KeepOf(U \ {m}, status)] = "pending" /\ status[m] # "pending"
                            THEN m ELSE KeepOf(U \ {m}, status)
    <3> HIDE DEF U
    <3> QED BY <2>3, <2>4, KeepStep
  <2> QED BY <2>2, <2>5, <2>6 DEF m
<1>3. Loop(h, first, R, status)
  <2>1. KeepOf({} \cup {first}, status) = first
    <3>1. {} \cup {first} = {first} /\ first \in Nat
      BY <1>1
    <3>2. Min({first}) = first
      BY <3>1, MinUnique
    <3>3. {i \in {first} : status[i] # "pending"} \in {{}, {first}}
      OBVIOUS
    <3> QED BY <3>1, <3>2, <3>3 DEF KeepOf
  <2>2. \A s \in SUBSET R : h[s] = IF s = {} THEN first
            ELSE IF status[h[s \ {Max(s)}]] = "pending" /\ status[Max(s)] # "pending"
                 THEN Max(s) ELSE h[s \ {Max(s)}]
    <3> SUFFICES ASSUME NEW s \in SUBSET R
                 PROVE  h[s] = IF s = {} THEN first
                           ELSE IF status[h[s \ {Max(s)}]] = "pending" /\ status[Max(s)] # "pending"
                                THEN Max(s) ELSE h[s \ {Max(s)}]
      OBVIOUS
    <3>1. CASE s = {}
      BY <2>1, <3>1
    <3>2. CASE s # {}
      BY <1>2, <3>2
    <3> QED BY <3>1, <3>2
  <2>3. h = [s \in SUBSET R |-> IF s = {} THEN first
            ELSE IF status[h[s \ {Max(s)}]] = "pending" /\ status[Max(s)] # "pending"
                 THEN Max(s) ELSE h[s \ {Max(s)}]]
    BY <2>2, Zenon
  <2> QED BY <2>3 DEF Loop
<1> DEFINE g == CHOOSE f : Loop(f, first, R, status)
<1>4. Loop(g, first, R, status)
  BY <1>3
<1>5. \A s \in SUBSET R : g[s] = h[s]
  <2> HIDE DEF g, h, first
  <2> DEFINE Bad == {s \in SUBSET R : g[s] # h[s]}
  <2> SUFFICES ASSUME Bad # {} PROVE FALSE
    OBVIOUS
  <2>1. \A s \in Bad : s \in SUBSET R /\ g[s] # h[s]
    OBVIOUS
  <2>2. \A s \in SUBSET R : s \notin Bad => g[s] = h[s]
    OBVIOUS
  <2>3. IsFiniteSet(R)
    BY FS_Subset
  <2> HIDE DEF Bad
  <2>4. PICK T \in Bad : \A U \in Bad : U \subseteq T => U = T
    BY <2>1, <2>3, MinimalSet
  <2>5. /\ g[T] = IF T = {} THEN first
                  ELSE IF status[g[T \ {Max(T)}]] = "pending" /\ status[Max(T)] # "pending"
                       THEN Max(T) ELSE g[T \ {Max(T)}]
        /\ h[T] = IF T = {} THEN first
                  ELSE IF status[h[T \ {Max(T)}]] = "pending" /\ status[Max(T)] # "pending"
                       THEN Max(T) ELSE h[T \ {Max(T)}]
    BY <1>3, <1>4, <2>1 DEF Loop
  <2>6. T # {}
    BY <2>1, <2>5
  <2>7. Max(T) \in T
    BY <1>2, <2>1, <2>6
  <2>8. g[T \ {Max(T)}] = h[T \ {Max(T)}]
    BY <2>1, <2>2, <2>4, <2>7
  <2> QED BY <2>1, <2>5, <2>8
<1>6. R \cup {first} = S
  BY <1>1
<1>7. h[R] = KeepOf(S, status)
  <2>1. h[R] = KeepOf(R \cup {first}, status)
    OBVIOUS
  <2> QED BY <1>6, <2>1
<1>8. chooseProctorEventToKeep(S) = g[R]
  BY ChosenIs
<1>9. g[R] = h[R]
  <2> HIDE DEF g, h, R
  <2> QED BY <1>5
<1> QED BY <1>7, <1>8, <1>9

\* What is kept is one of the rows, and decided if one of them is.
LEMMA KeepIn ==
    ASSUME NEW S, S \subseteq Nat, S # {}, NEW st
    PROVE  /\ KeepOf(S, st) \in S
           /\ \A i \in S : st[i] # "pending" => st[KeepOf(S, st)] # "pending"
<1> DEFINE D == {i \in S : st[i] # "pending"}
<1>1. D \subseteq S /\ D \subseteq Nat
  OBVIOUS
<1>2. CASE D = {}
  <2>1. KeepOf(S, st) = Min(S) /\ \A i \in S : st[i] = "pending"
    BY <1>2 DEF KeepOf
  <2> QED BY <2>1, MinIs
<1>3. CASE D # {}
  <2>1. KeepOf(S, st) = Min(D)
    BY <1>3 DEF KeepOf
  <2>2. Min(D) \in D
    BY <1>1, <1>3, MinIs
  <2> QED BY <2>1, <2>2
<1> QED BY <1>2, <1>3

\* Rows can go as long as the one that is kept stays.
LEMMA KeepSame ==
    ASSUME NEW S, S \subseteq Nat, NEW R, R \subseteq S, NEW st, KeepOf(S, st) \in R
    PROVE  KeepOf(R, st) = KeepOf(S, st)
<1> DEFINE D == {i \in S : st[i] # "pending"}
           E == {i \in R : st[i] # "pending"}
<1>1. E \subseteq D /\ D \subseteq S /\ E \subseteq R /\ R \subseteq Nat /\ R # {} /\ S # {}
  OBVIOUS
<1>2. CASE D # {}
  <2>1. KeepOf(S, st) = Min(D)
    BY <1>2 DEF KeepOf
  <2>2. Min(D) \in D /\ \A y \in D : Min(D) <= y
    BY <1>1, <1>2, MinIs
  <2>3. Min(D) \in E /\ E \subseteq Nat
    BY <2>1, <2>2
  <2>4. Min(E) = Min(D)
    <3>1. \A y \in E : Min(D) <= y
      BY <1>1, <2>2
    <3> HIDE DEF D, E
    <3> QED BY <2>3, <3>1, MinUnique
  <2>5. KeepOf(R, st) = Min(E)
    BY <2>3 DEF KeepOf
  <2> QED BY <2>1, <2>4, <2>5
<1>3. CASE D = {}
  <2>1. KeepOf(S, st) = Min(S) /\ KeepOf(R, st) = Min(R)
    BY <1>1, <1>3 DEF KeepOf
  <2>2. Min(S) \in R /\ \A y \in R : Min(S) <= y
    BY <1>1, <2>1, MinIs
  <2>3. Min(R) = Min(S)
    BY <1>1, <2>2, MinUnique
  <2> QED BY <2>1, <2>3
<1> QED BY <1>2, <1>3

-----------------------------------------------------------------------------
(* The invariant of the migration.                                         *)

\* No stored row is new, and those the SQL script keeps are all there.
Survivors == rows \subseteq legacy.rows /\ SqlResult \subseteq rows

\* Decided rows stay decided, and nothing is decided before the server serves.
Conclusions == /\ \A i \in Ids : legacy.status[i] # "pending" => status[i] # "pending"
               /\ ~index => status = legacy.status

\* A bucket is right or still to be filled in.
Buckets == \A i \in Ids : bucket[i] \in {0, BucketOf[i]}
Bucketed == \A i \in rows : bucket[i] = BucketOf[i]

\* How far a process that migrates has come.
Progress ==
    /\ ~table => rows = {} /\ ~index
    /\ stage \in {"list", "backfill", "group", "merge"} => table /\ ~index
    /\ stage = "backfill" => \A i \in rows : bucket[i] = 0 => i \in todo
    /\ stage \in {"group", "merge"} => Bucketed
    /\ stage = "merge" =>
          \A i, j \in rows : i # j /\ GroupOf(i) = GroupOf(j) => GroupOf(i) \in groups
    /\ (stage = "automigrate" /\ table) \/ index => Bucketed /\ ~Collision
    /\ stage = "serving" => index

MigrationInv == MigrationTypeOK /\ Survivors /\ Conclusions /\ Buckets /\ Progress

\* The script keeps a row of the group, a decided one if there is one.
LEMMA SqlKeeps ==
    ASSUME MigrationTypeOK, NEW i \in legacy.rows
    PROVE  /\ i \in SqlGroup(i) /\ SqlGroup(i) \subseteq legacy.rows /\ SqlGroup(i) \subseteq Nat
           /\ SqlKeep(SqlGroup(i)) = KeepOf(SqlGroup(i), legacy.status)
           /\ SqlKeep(SqlGroup(i)) \in SqlGroup(i)
           /\ \A j \in SqlGroup(i) : legacy.status[j] # "pending" =>
                 legacy.status[SqlKeep(SqlGroup(i))] # "pending"
<1>1. i \in SqlGroup(i) /\ SqlGroup(i) \subseteq legacy.rows
  BY DEF SqlGroup
<1>2. legacy.rows \subseteq Nat
  BY DEF MigrationTypeOK, MigrationAssumption
<1>3. SqlKeep(SqlGroup(i)) = KeepOf(SqlGroup(i), legacy.status)
  BY DEF SqlKeep, KeepOf
<1> QED BY <1>1, <1>2, <1>3, KeepIn

\* The first state.
LEMMA MigrationStarts == MigrationInit => MigrationInv
<1> SUFFICES ASSUME MigrationInit PROVE MigrationInv
  OBVIOUS
<1>1. rows \subseteq Ids /\ (~table => rows = {}) /\ legacy.rows = rows /\ legacy.status = status
  BY DEF MigrationInit
<1>2. MigrationTypeOK
  <2>1. /\ table \in BOOLEAN /\ column \in BOOLEAN /\ index \in BOOLEAN
        /\ status \in [Ids -> Statuses] /\ bucket \in [Ids -> Nat]
        /\ stage = "down" /\ todo \subseteq Ids /\ groups \subseteq Kinds \X Nat
    BY DEF MigrationInit
  <2>2. crashes \in 0..MaxCrashes
    BY DEF MigrationInit, MigrationAssumption
  <2>3. legacy \in [rows : SUBSET Ids, status : [Ids -> Statuses]]
    BY <1>1, <2>1 DEF MigrationInit
  <2> QED BY <1>1, <2>1, <2>2, <2>3 DEF MigrationTypeOK
<1>3. SqlResult \subseteq rows
  BY <1>1, <1>2, SqlKeeps DEF SqlResult
<1>4. Conclusions /\ Buckets /\ Progress
  BY <1>1 DEF MigrationInit, Conclusions, Buckets, Progress
<1> QED BY <1>1, <1>2, <1>3, <1>4 DEF MigrationInv, Survivors

\* Every step keeps the types.
LEMMA MigrationTypes ==
    ASSUME MigrationTypeOK, [MigrationNext]_migrationVars
    PROVE  MigrationTypeOK'
<1> USE DEF MigrationTypeOK, db, Steps
<1>1. CASE Boot \/ Inspect \/ ListLegacy
  BY <1>1 DEF Boot, Inspect, ListLegacy
<1>2. CASE Backfill
  BY <1>2 DEF Backfill, MigrationAssumption
<1>3. CASE FindGroups
  <2>1. \A i \in rows : GroupOf(i) \in Kinds \X Nat
    BY DEF GroupOf, MigrationAssumption
  <2>2. groups' \subseteq Kinds \X Nat
    BY <1>3, <2>1 DEF FindGroups, DuplicateGroups
  <2> QED BY <1>3, <2>2 DEF FindGroups
<1>4. CASE MergeGroup \/ AutoMigrate
  BY <1>4 DEF MergeGroup, AutoMigrate
<1>5. CASE Decide
  BY <1>5 DEF Decide, Statuses
<1>6. CASE Crash
  BY <1>6 DEF Crash, MigrationAssumption
<1>7. CASE UNCHANGED migrationVars
  BY <1>7 DEF migrationVars
<1> QED BY <1>1, <1>2, <1>3, <1>4, <1>5, <1>6, <1>7 DEF MigrationNext, Startup

\* What a merge leaves of a group.
LEMMA Merged ==
    ASSUME MigrationInv, stage = "merge", NEW g \in groups,
           rows' = rows \ (RowsIn(g) \ {chooseProctorEventToKeep(RowsIn(g))}),
           bucket' = bucket, legacy' = legacy
    PROVE  /\ rows' \subseteq rows
           /\ SqlResult \subseteq rows'
           /\ \A i, j \in rows' : i # j /\ GroupOf(i) = GroupOf(j) => GroupOf(i) # g
<1> DEFINE R == RowsIn(g)
           keep == chooseProctorEventToKeep(R)
<1>0. /\ rows \subseteq Ids /\ rows \subseteq legacy.rows /\ status = legacy.status
      /\ \A i \in rows : bucket[i] = BucketOf[i]
      /\ g \in Kinds \X Nat
  BY DEF MigrationInv, MigrationTypeOK, Survivors, Conclusions, Progress, Bucketed
<1>1. R \subseteq rows /\ R \subseteq Nat /\ IsFiniteSet(R)
  BY <1>0, FS_Subset DEF RowsIn, MigrationAssumption
<1>2. SqlResult \subseteq rows'
  <2> SUFFICES ASSUME NEW i \in legacy.rows, SqlKeep(SqlGroup(i)) \in R
               PROVE  SqlKeep(SqlGroup(i)) = keep
    BY DEF SqlResult, MigrationInv, Survivors
  <2> DEFINE m == SqlKeep(SqlGroup(i))
  <2>1. /\ m = KeepOf(SqlGroup(i), legacy.status) /\ m \in SqlGroup(i)
        /\ SqlGroup(i) \subseteq Nat
    BY SqlKeeps DEF MigrationInv
  <2>2. R \subseteq SqlGroup(i)
    BY <1>0, <1>1, <2>1 DEF RowsIn, SqlGroup
  <2>3. KeepOf(R, legacy.status) = m
    <3> HIDE DEF m, R
    <3> QED BY <2>1, <2>2, KeepSame DEF m
  <2>4. keep = KeepOf(R, status)
    <3>1. R # {}
      OBVIOUS
    <3> HIDE DEF R
    <3> QED BY <1>1, <3>1, Chosen
  <2> QED BY <1>0, <2>3, <2>4
<1>3. ASSUME NEW i \in rows', NEW j \in rows', i # j, GroupOf(i) = GroupOf(j)
      PROVE  GroupOf(i) # g
  BY <1>3 DEF RowsIn, GroupOf
<1> QED BY <1>2, <1>3

\* Two rows of a group are a duplicate.
LEMMA Duplicate ==
    ASSUME MigrationTypeOK, NEW i \in rows, NEW j \in rows, i # j, GroupOf(i) = GroupOf(j)
    PROVE  GroupOf(i) \in DuplicateGroups
<1> DEFINE S == RowsIn(GroupOf(i))
<1>1. i \in S /\ j \in S
  BY DEF RowsIn, GroupOf
<1>2. IsFiniteSet(S)
  BY FS_Subset DEF RowsIn, MigrationTypeOK, MigrationAssumption
<1>3. Cardinality(S) \in Nat /\ Cardinality(S) # 0 /\ Cardinality(S) # 1
  <2> HIDE DEF S
  <2> QED BY <1>1, <1>2, FS_CardinalityType, FS_EmptySet, FS_Singleton
<1> QED BY <1>3 DEF DuplicateGroups

\* Every step keeps the invariant.
LEMMA MigrationKept ==
    ASSUME MigrationInv, [MigrationNext]_migrationVars
    PROVE  MigrationInv'
<1>0. MigrationTypeOK /\ Survivors /\ Conclusions /\ Buckets /\ Progress
  BY DEF MigrationInv
<1>a. MigrationTypeOK'
  BY <1>0, MigrationTypes
<1>b. legacy' = legacy
  BY DEF MigrationNext, Startup, Boot, Inspect, ListLegacy, Backfill, FindGroups, MergeGroup,
         AutoMigrate, Decide, Crash, migrationVars, db
<1>c. SqlResult' = SqlResult
  BY <1>b DEF SqlResult, SqlKeep, SqlGroup
<1>d. ASSUME rows' = rows PROVE Survivors'
  BY <1>d, <1>b, <1>c, <1>0 DEF Survivors
<1>e. ASSUME status' = status, index => index' PROVE Conclusions'
  BY <1>e, <1>b, <1>0 DEF Conclusions
<1>f. ASSUME bucket' = bucket PROVE Buckets'
  BY <1>f, <1>0 DEF Buckets
<1>1. CASE UNCHANGED db /\ Progress'
  BY <1>1, <1>a, <1>d, <1>e, <1>f DEF MigrationInv, db
<1>2. CASE Boot \/ Crash \/ UNCHANGED migrationVars
  <2>1. UNCHANGED db
    BY <1>2 DEF Boot, Crash, migrationVars
  <2>2. Progress'
    BY <1>2, <2>1, <1>0 DEF Boot, Crash, migrationVars, db, Progress, Bucketed, Collision, GroupOf
  <2> QED BY <1>1, <2>1, <2>2
<1>3. CASE Inspect
  <2>1. UNCHANGED <<table, index, rows, status, bucket>>
    BY <1>3 DEF Inspect
  <2>2. Progress'
    BY <1>3, <2>1, <1>0 DEF Inspect, Progress, Bucketed, Collision, GroupOf
  <2> QED BY <1>a, <1>d, <1>e, <1>f, <2>1, <2>2 DEF MigrationInv
<1>4. CASE ListLegacy
  <2>1. UNCHANGED db
    BY <1>4 DEF ListLegacy
  <2>2. Progress'
    BY <1>4, <2>1, <1>0 DEF ListLegacy, db, Progress, Bucketed, Collision, GroupOf
  <2> QED BY <1>1, <2>1, <2>2
<1>5. CASE Backfill
  <2>1. UNCHANGED <<table, column, index, rows, status>> /\ stage = "backfill" /\ table /\ ~index
    BY <1>5, <1>0 DEF Backfill, Progress
  <2>2. CASE todo = {} /\ stage' = "group" /\ UNCHANGED <<bucket, todo>>
    <3>1. Bucketed
      BY <1>0, <2>1, <2>2 DEF Progress, Buckets, Bucketed, MigrationTypeOK
    <3>2. Progress'
      BY <2>1, <2>2, <3>1 DEF Progress, Bucketed
    <3> QED BY <1>a, <1>d, <1>e, <1>f, <2>1, <2>2, <3>2 DEF MigrationInv
  <2>3. ASSUME NEW i \in todo, bucket' = [bucket EXCEPT ![i] = BucketOf[i]], todo' = todo \ {i},
               UNCHANGED stage
        PROVE  MigrationInv'
    <3>1. Buckets'
      BY <1>0, <2>3 DEF Buckets, MigrationTypeOK
    <3>2. \A j \in rows : bucket'[j] = 0 => j \in todo'
      BY <1>0, <2>1, <2>3 DEF Progress, MigrationTypeOK, MigrationAssumption
    <3>3. Progress'
      BY <2>1, <2>3, <3>2 DEF Progress
    <3> QED BY <1>a, <1>d, <1>e, <2>1, <3>1, <3>3 DEF MigrationInv
  <2> QED BY <1>5, <2>2, <2>3 DEF Backfill
<1>6. CASE FindGroups
  <2>1. UNCHANGED db /\ stage = "group" /\ stage' = "merge" /\ groups' = DuplicateGroups
    BY <1>6 DEF FindGroups
  <2>2. \A i, j \in rows : i # j /\ GroupOf(i) = GroupOf(j) => GroupOf(i) \in groups'
    BY <1>0, <2>1, Duplicate
  <2>3. Progress'
    BY <1>0, <2>1, <2>2 DEF Progress, Bucketed, GroupOf, db
  <2> QED BY <1>1, <2>1, <2>3
<1>7. CASE MergeGroup
  <2>1. UNCHANGED <<table, column, index, status, bucket>> /\ stage = "merge" /\ table /\ ~index
    BY <1>7, <1>0 DEF MergeGroup, Progress
  <2>2. CASE groups = {} /\ stage' = "automigrate" /\ UNCHANGED <<rows, groups>>
    <3>1. Progress'
      BY <1>0, <2>1, <2>2 DEF Progress, Bucketed, Collision, GroupOf
    <3> QED BY <1>a, <1>d, <1>e, <1>f, <2>1, <2>2, <3>1 DEF MigrationInv
  <2>3. ASSUME NEW g \in groups,
               rows' = rows \ (RowsIn(g) \ {chooseProctorEventToKeep(RowsIn(g))}),
               groups' = groups \ {g}, UNCHANGED stage
        PROVE  MigrationInv'
    <3>1. /\ rows' \subseteq rows /\ SqlResult \subseteq rows'
          /\ \A i, j \in rows' : i # j /\ GroupOf(i) = GroupOf(j) => GroupOf(i) # g
      BY <1>b, <2>1, <2>3, Merged
    <3>2. Survivors'
      BY <1>0, <1>b, <1>c, <3>1 DEF Survivors
    <3>3. \A i, j \in rows' : i # j /\ GroupOf(i) = GroupOf(j) => GroupOf(i) \in groups'
      BY <1>0, <2>1, <2>3, <3>1 DEF Progress
    <3>4. Progress'
      BY <1>0, <2>1, <2>3, <3>1, <3>3 DEF Progress, Bucketed, GroupOf
    <3> QED BY <1>a, <1>e, <1>f, <2>1, <3>2, <3>4 DEF MigrationInv
  <2> QED BY <1>7, <2>2, <2>3 DEF MergeGroup
<1>8. CASE AutoMigrate
  <2>1. /\ stage = "automigrate" /\ table' /\ index' = (index \/ ~Collision)
        /\ stage' = IF index' THEN "serving" ELSE "down"
        /\ UNCHANGED <<rows, status, bucket, groups>>
    BY <1>8 DEF AutoMigrate
  <2>2. Bucketed /\ ~Collision
    BY <1>0, <2>1 DEF Progress, Bucketed, Collision
  <2>3. Progress'
    BY <2>1, <2>2 DEF Progress, Bucketed, Collision, GroupOf
  <2> QED BY <1>a, <1>d, <1>e, <1>f, <2>1, <2>3 DEF MigrationInv
<1>9. CASE Decide
  <2>1. UNCHANGED <<table, index, rows, bucket, stage, todo, groups>> /\ index
    BY <1>9, <1>0 DEF Decide, Progress
  <2>2. Conclusions'
    BY <1>9, <1>0, <1>b, <2>1 DEF Decide, Conclusions, MigrationTypeOK
  <2>3. Progress'
    BY <1>0, <2>1 DEF Progress, Bucketed, Collision, GroupOf
  <2> QED BY <1>a, <1>d, <1>f, <2>1, <2>2, <2>3 DEF MigrationInv
<1> QED BY <1>2, <1>3, <1>4, <1>5, <1>6, <1>7, <1>8, <1>9 DEF MigrationNext, Startup

\* The invariant of the migration holds.
LEMMA MigrationInvariant == Migration => []MigrationInv
<1> QED BY MigrationStarts, MigrationKept, PTL DEF Migration

\* Whatever crashes and restarts it took, the server serves the rows the manual
\* script 0003_proctor_dedup.sql would have kept, with their buckets, under the
\* index, which is never refused (migrateLegacyProctorEvents, AutoMigrate).
THEOREM MigrationKeepsSqlRows == Migration => []ServesWhatSqlKeeps
<1>1. ASSUME MigrationInv PROVE ServesWhatSqlKeeps
  <2>0. MigrationTypeOK /\ Survivors /\ Progress
    BY <1>1 DEF MigrationInv
  <2>1. IndexCreatable
    BY <2>0 DEF Progress, IndexCreatable
  <2>2. ASSUME stage = "serving"
        PROVE  index /\ rows = SqlResult /\ \A i \in rows : bucket[i] = BucketOf[i]
    <3>1. index /\ ~Collision /\ \A i \in rows : bucket[i] = BucketOf[i]
      BY <2>0, <2>2 DEF Progress, Bucketed
    <3>2. ASSUME NEW i \in rows PROVE i \in SqlResult
      <4> DEFINE m == SqlKeep(SqlGroup(i))
      <4>1. i \in legacy.rows /\ m \in SqlResult
        BY <2>0 DEF Survivors, SqlResult
      <4>2. m \in SqlGroup(i) /\ m \in rows
        BY <2>0, <4>1, SqlKeeps DEF Survivors
      <4>3. GroupOf(m) = GroupOf(i)
        BY <3>1, <4>2 DEF SqlGroup, GroupOf
      <4>4. m = i
        BY <3>1, <4>2, <4>3 DEF Collision
      <4> QED BY <4>1, <4>4
    <3> QED BY <2>0, <3>1, <3>2 DEF Survivors
  <2> QED BY <2>0, <2>1, <2>2 DEF ServesWhatSqlKeeps
<1> QED BY <1>1, MigrationInvariant, PTL

\* Where a window held a decided event it holds a decided event at any time, in
\* the middle of the merge and after a crash too (chooseProctorEventToKeep).
THEOREM WindowsStayDecided == Migration => []WindowStaysDecided
<1>1. ASSUME MigrationInv PROVE WindowStaysDecided
  <2> SUFFICES ASSUME NEW i \in legacy.rows, legacy.status[i] # "pending"
               PROVE  \E j \in rows : KindOf[j] = KindOf[i] /\ BucketOf[j] = BucketOf[i]
                                      /\ status[j] # "pending"
    BY DEF WindowStaysDecided
  <2> DEFINE m == SqlKeep(SqlGroup(i))
  <2>0. MigrationTypeOK /\ Survivors /\ Conclusions
    BY <1>1 DEF MigrationInv
  <2>1. m \in SqlResult /\ m \in SqlGroup(i) /\ legacy.status[m] # "pending"
    BY <2>0, SqlKeeps DEF SqlResult
  <2>2. m \in rows /\ m \in Ids
    BY <2>0, <2>1 DEF Survivors, MigrationTypeOK
  <2>3. status[m] # "pending"
    BY <2>0, <2>1, <2>2 DEF Conclusions
  <2> QED BY <2>1, <2>2, <2>3 DEF SqlGroup
<1> QED BY <1>1, MigrationInvariant, PTL
=============================================================================
