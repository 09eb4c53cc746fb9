------------------------------- MODULE Proctor -------------------------------
(***************************************************************************)
(* The proctor review center: students report anti-cheating events of an   *)
(* attempt (ProctorService.Report), teachers and admins decide them        *)
(* (ProctorService.Review).  Every request runs in a goroutine of its own  *)
(* and talks to the database in autocommitted statements, so one action    *)
(* here is one statement (or the local code up to the next one) of one     *)
(* request and any other request may run in between.  A request may fail   *)
(* at each statement: the query errs, the client's context is cancelled or *)
(* the process dies; what it had written stays.                            *)
(*                                                                         *)
(* The clock counts ticks; Window is proctorEventDedupWindow in ticks.     *)
(***************************************************************************)
EXTENDS Integers, Sequences, FiniteSets

CONSTANTS Exams, Attempts, Types,
          Students, Teachers, Admins,
          ExamOf,       \* ExamOf[a]: the exam attempt a sits
          StudentOf,    \* StudentOf[a]: the student sitting attempt a
          CreatedBy,    \* CreatedBy[x]: the teacher who created exam x
          Reports,      \* report requests
          Reviews,      \* review requests
          NoReview,     \* the conclusion columns of a pending row
          Window,       \* length of the deduplication window
          MaxTime       \* bound on the clock, for model checking

Users == Teachers \cup Admins

ASSUME ConstantsAssumption ==
    /\ ExamOf \in [Attempts -> Exams]
    /\ StudentOf \in [Attempts -> Students]
    /\ CreatedBy \in [Exams -> Teachers]
    /\ NoReview \notin Reviews
    /\ Window \in Nat \ {0}
    /\ MaxTime \in Nat

VARIABLES
    now,            \* the clock of the server
    exams,          \* table exams: the exams not deleted
    attemptStatus,  \* table exam_attempts, column status
    events,         \* table proctor_events; the id of a row is its index
    report,         \* report[r]: the local state of report request r
    review          \* review[v]: the local state of review request v

vars == <<now, exams, attemptStatus, events, report, review>>

-----------------------------------------------------------------------------
(* The two kinds of requests.  What a client sends is fixed in Init.       *)

ReportSteps == {"stamp", "check", "insert", "lookup", "answer"}
ReportEnds == {"done", "forbidden", "bad_request", "not_found", "failed"}

ReviewSteps == {"scope", "write", "reread"}
ReviewEnds == {"done", "forbidden", "already_reviewed", "not_found", "failed"}

Verdicts == {"confirmed", "ignored"}

\* A row; `by` names the review whose status, note, reviewer and time it holds.
Event == [attempt : Attempts, type : Types, at : Nat, bucket : Nat,
          status : {"pending"} \cup Verdicts,
          by : Reviews \cup {NoReview},
          from : Reports]   \* the request that inserted it (history)

Report == [pc : {"idle"} \cup ReportSteps \cup ReportEnds,
           student : Students, attempt : Attempts, type : Types,
           at : Nat,        \* now := time.Now()
           seen : Nat,      \* rows the pre-check ran over (history)
           id : Nat,
           as : {"none", "stored", "merged"}]   \* Deduplicated: as = "merged"

Review == [pc : {"idle"} \cup ReviewSteps \cup ReviewEnds,
           user : Users, verdict : Verdicts,
           id : Nat,
           status : {"pending"} \cup Verdicts]   \* row.Status as it was read

TypeOK == /\ now \in Nat
          /\ exams \subseteq Exams
          /\ attemptStatus \in [Attempts -> {"in_progress", "submitted"}]
          /\ events \in Seq(Event)
          /\ report \in [Reports -> Report]
          /\ review \in [Reviews -> Review]

Init ==
    /\ now = 0
    /\ exams = Exams
    /\ attemptStatus \in [Attempts -> {"in_progress", "submitted"}]
    /\ events = << >>
    /\ report \in [Reports -> [pc : {"idle"}, student : Students,
                               attempt : Attempts, type : Types,
                               at : {0}, seen : {0}, id : {0},
                               as : {"none"}]]
    /\ review \in [Reviews -> [pc : {"idle"}, user : Users,
                               verdict : Verdicts, id : {0},
                               status : {"pending"}]]

-----------------------------------------------------------------------------
(* Queries over proctor_events.                                            *)

\* Mutant of Bucket: the timestamp itself, not divided.
BucketUndivided(t) == t

\* The event's window_bucket: seconds divided by the window.
Bucket(t) == t \div Window

\* The row and the request are of one attempt and one type.
Matches(i, r) == /\ events[i].attempt = report[r].attempt
                 /\ events[i].type = report[r].type

\* proctorEventBaseQuery: the inner join hides rows whose exam was deleted.
Joined(i) == i \in DOMAIN events /\ ExamOf[events[i].attempt] \in exams

\* ListProctorEvents: what a caller of GET /proctor-events is shown.
Listed(u) == {i \in DOMAIN events :
                 /\ Joined(i)
                 /\ u \in Admins \/ CreatedBy[ExamOf[events[i].attempt]] = u}

\* Mutants of Recent: `>` for `>=`; no `since` at all.
RecentAfter(r) == {i \in DOMAIN events :
                      Matches(i, r) /\ events[i].at > report[r].at - Window}
RecentEver(r) == {i \in DOMAIN events : Matches(i, r)}

\* FindRecentProctorEvent: the newest row from `since` on, if any.
Recent(r) == {i \in DOMAIN events :
                 Matches(i, r) /\ events[i].at >= report[r].at - Window}

Newest(S) == {i \in S : \A j \in S : events[j].at <= events[i].at}

\* The rows that collide with the request's row in index uk_proctor_dedup.
SameDedupKey(r) == {i \in DOMAIN events :
                       Matches(i, r) /\ events[i].bucket = Bucket(report[r].at)}

-----------------------------------------------------------------------------
(* POST /proctor-events                                                    *)

ReportGoto(r, pc) == report' = [report EXCEPT ![r] = [@ EXCEPT !.pc = pc]]

\* Load the attempt; only its student may report, and only before submission.
ReportLoad(r) ==
    /\ report[r].pc = "idle"
    /\ LET a == report[r].attempt
       IN  ReportGoto(r, IF StudentOf[a] # report[r].student THEN "forbidden"
                         ELSE IF attemptStatus[a] # "in_progress"
                              THEN "bad_request"
                         ELSE "stamp")
    /\ UNCHANGED <<now, exams, attemptStatus, events, review>>

\* Take the time of the event.
ReportStamp(r) ==
    /\ report[r].pc = "stamp"
    /\ report' = [report EXCEPT ![r] = [@ EXCEPT !.pc = "check", !.at = now]]
    /\ UNCHANGED <<now, exams, attemptStatus, events, review>>

\* Pre-check: an event of the window up to the time taken absorbs the report.
ReportCheck(r) ==
    /\ report[r].pc = "check"
    /\ \/ /\ Recent(r) = {}
          /\ report' = [report EXCEPT ![r] =
                [@ EXCEPT !.pc = "insert", !.seen = Len(events)]]
       \/ \E i \in Newest(Recent(r)) :
             report' = [report EXCEPT ![r] =
                [@ EXCEPT !.pc = "answer", !.id = i, !.as = "merged"]]
    /\ UNCHANGED <<now, exams, attemptStatus, events, review>>

NewEvent(r) == [attempt |-> report[r].attempt, type |-> report[r].type,
                at |-> report[r].at, bucket |-> Bucket(report[r].at),
                status |-> "pending", by |-> NoReview, from |-> r]

\* INSERT under the unique index; a collision turns into a lookup.
ReportInsert(r) ==
    /\ report[r].pc = "insert"
    /\ \/ /\ SameDedupKey(r) # {}
          /\ ReportGoto(r, "lookup")
          /\ UNCHANGED events
       \/ /\ SameDedupKey(r) = {}
          /\ events' = Append(events, NewEvent(r))
          /\ report' = [report EXCEPT ![r] =
                [@ EXCEPT !.pc = "answer", !.id = Len(events) + 1,
                          !.as = "stored"]]
    /\ UNCHANGED <<now, exams, attemptStatus, review>>

\* Mutant of ReportLookup: nothing is done when the row cannot be read.
ReportLookupWaits(r) ==
    /\ report[r].pc = "lookup"
    /\ \E i \in SameDedupKey(r) :
          /\ Joined(i)
          /\ report' = [report EXCEPT ![r] =
                [@ EXCEPT !.pc = "done", !.id = i, !.as = "merged"]]
    /\ UNCHANGED <<now, exams, attemptStatus, events, review>>

\* deduplicatedReport: answer with the row that won the insert race.
ReportLookup(r) ==
    /\ report[r].pc = "lookup"
    /\ \/ \E i \in SameDedupKey(r) :
             /\ Joined(i)
             /\ report' = [report EXCEPT ![r] =
                   [@ EXCEPT !.pc = "done", !.id = i, !.as = "merged"]]
       \/ /\ ~ \E i \in SameDedupKey(r) : Joined(i)
          /\ ReportGoto(r, "not_found")
    /\ UNCHANGED <<now, exams, attemptStatus, events, review>>

\* reportResponse: read the row back through the joins.
ReportAnswer(r) ==
    /\ report[r].pc = "answer"
    /\ ReportGoto(r, IF Joined(report[r].id) THEN "done" ELSE "not_found")
    /\ UNCHANGED <<now, exams, attemptStatus, events, review>>

ReportFail(r) ==
    /\ report[r].pc \in ReportSteps
    /\ ReportGoto(r, "failed")
    /\ UNCHANGED <<now, exams, attemptStatus, events, review>>

ReportStep(r) == \/ ReportLoad(r) \/ ReportStamp(r) \/ ReportCheck(r)
                 \/ ReportInsert(r) \/ ReportLookup(r) \/ ReportAnswer(r)

-----------------------------------------------------------------------------
(* POST /proctor-events/:id/review                                         *)

ReviewGoto(v, pc) == review' = [review EXCEPT ![v] = [@ EXCEPT !.pc = pc]]

\* Load the row through the joins; its status is kept for the check below.
ReviewLoad(v) ==
    /\ review[v].pc = "idle"
    /\ \E i \in 1..(Len(events) + 1) :
          IF Joined(i)
          THEN review' = [review EXCEPT ![v] =
                  [@ EXCEPT !.pc = "scope", !.id = i,
                            !.status = events[i].status]]
          ELSE review' = [review EXCEPT ![v] =
                  [@ EXCEPT !.pc = "not_found", !.id = i]]
    /\ UNCHANGED <<now, exams, attemptStatus, events, report>>

\* Mutant of ReviewScope: any teacher may review.
ReviewScopeAnyTeacher(v) ==
    /\ review[v].pc = "scope"
    /\ ReviewGoto(v, IF review[v].status # "pending"
                     THEN "already_reviewed" ELSE "write")
    /\ UNCHANGED <<now, exams, attemptStatus, events, report>>

\* checkExamScope, then the status check on the row as it was loaded.
ReviewScope(v) ==
    /\ review[v].pc = "scope"
    /\ LET u == review[v].user
           x == ExamOf[events[review[v].id].attempt]
       IN  ReviewGoto(v, IF u \notin Admins /\ x \notin exams THEN "not_found"
                         ELSE IF u \notin Admins /\ CreatedBy[x] # u
                              THEN "forbidden"
                         ELSE IF review[v].status # "pending"
                              THEN "already_reviewed"
                         ELSE "write")
    /\ UNCHANGED <<now, exams, attemptStatus, events, report>>

\* Mutant of Decided: the time of the event is overwritten.
DecidedNow(e, v) == [e EXCEPT !.status = review[v].verdict, !.by = v, !.at = now]

Decided(e, v) == [e EXCEPT !.status = review[v].verdict, !.by = v]

\* Mutant of ReviewWrite: the UPDATE does not compare the status.
ReviewWriteBlind(v) ==
    /\ review[v].pc = "write"
    /\ events' = [events EXCEPT ![review[v].id] = Decided(@, v)]
    /\ ReviewGoto(v, "reread")
    /\ UNCHANGED <<now, exams, attemptStatus, report>>

\* UPDATE ... WHERE id = ? AND status = 'pending': one statement, so the
\* status is compared and written at once.  No row changed: the row was
\* decided in the meantime (rows are never deleted while the server runs).
ReviewWrite(v) ==
    /\ review[v].pc = "write"
    /\ LET i == review[v].id
       IN  \/ /\ events[i].status = "pending"
              /\ events' = [events EXCEPT ![i] = Decided(@, v)]
              /\ ReviewGoto(v, "reread")
           \/ /\ events[i].status # "pending"
              /\ ReviewGoto(v, "already_reviewed")
              /\ UNCHANGED events
    /\ UNCHANGED <<now, exams, attemptStatus, report>>

\* Read the decided row back; the exam may be gone by now.
ReviewReread(v) ==
    /\ review[v].pc = "reread"
    /\ ReviewGoto(v, IF Joined(review[v].id) THEN "done" ELSE "not_found")
    /\ UNCHANGED <<now, exams, attemptStatus, events, report>>

ReviewFail(v) ==
    /\ review[v].pc \in ReviewSteps
    /\ ReviewGoto(v, "failed")
    /\ UNCHANGED <<now, exams, attemptStatus, events, report>>

ReviewStep(v) == \/ ReviewLoad(v) \/ ReviewScope(v)
                 \/ ReviewWrite(v) \/ ReviewReread(v)

-----------------------------------------------------------------------------
(* What the rest of the server does to the tables read here.               *)

\* AttemptService.Submit sets the attempt's status.
SubmitAttempt(a) ==
    /\ attemptStatus[a] = "in_progress"
    /\ attemptStatus' = [attemptStatus EXCEPT ![a] = "submitted"]
    /\ UNCHANGED <<now, exams, events, report, review>>

\* ExamService.Delete removes the exam; attempts and events stay behind.
DeleteExam(x) ==
    /\ x \in exams
    /\ exams' = exams \ {x}
    /\ UNCHANGED <<now, attemptStatus, events, report, review>>

Tick == /\ now < MaxTime
        /\ now' = now + 1
        /\ UNCHANGED <<exams, attemptStatus, events, report, review>>

Next == \/ \E r \in Reports : ReportStep(r) \/ ReportFail(r)
        \/ \E v \in Reviews : ReviewStep(v) \/ ReviewFail(v)
        \/ \E a \in Attempts : SubmitAttempt(a)
        \/ \E x \in Exams : DeleteExam(x)
        \/ Tick

\* A request that was accepted runs on: goroutines are scheduled and queries
\* return.  Nothing forces a client to send one, an exam to be deleted or a
\* query to err.
Fairness == /\ \A r \in Reports : WF_vars(report[r].pc # "idle" /\ ReportStep(r))
            /\ \A v \in Reviews : WF_vars(review[v].pc # "idle" /\ ReviewStep(v))

Spec == Init /\ [][Next]_vars

FairSpec == Spec /\ Fairness

-----------------------------------------------------------------------------
(* Safety.                                                                 *)

SameKind(i, j) == /\ events[i].attempt = events[j].attempt
                  /\ events[i].type = events[j].type

\* Index uk_proctor_dedup holds one row per attempt, type and bucket, however
\* the pre-checks and the inserts of concurrent reports interleave.
DedupKeyUnique ==
    \A i, j \in DOMAIN events :
        SameKind(i, j) /\ events[i].bucket = events[j].bucket => i = j

\* What pre-check and index give together: of three events of one attempt and
\* type, two are more than a window apart.
AtMostTwoPerWindow ==
    \A i, j, k \in DOMAIN events :
        (SameKind(i, j) /\ SameKind(j, k)
             /\ events[i].at <= events[j].at /\ events[j].at <= events[k].at
             /\ i # j /\ j # k /\ i # k)
        => events[k].at - events[i].at > Window

\* Two events of one attempt and type less than a window apart come from
\* overlapping requests: the later row's report ran its pre-check before the
\* earlier row was inserted.  Reports that follow each other never do that.
CloseEventsOverlapped ==
    \A i, j \in DOMAIN events :
        (i < j /\ SameKind(i, j)
             /\ events[j].at - events[i].at <= Window)
        => report[events[j].from].seen < i

\* The event a report is answered with, its own or the one it was merged into,
\* is of its attempt and type and not older than one window.
AnswerCovers ==
    \A r \in Reports :
        report[r].pc = "done" =>
            /\ report[r].id \in DOMAIN events
            /\ Matches(report[r].id, r)
            /\ events[report[r].id].at >= report[r].at - Window

\* Exactly one caller gets deduplicated=false for an event: the one whose
\* report was stored.
OneFreshAnswerPerEvent ==
    \A r \in Reports :
        report[r].pc = "done" =>
            (report[r].as = "stored" <=> events[report[r].id].from = r)

\* Of all reviews of an event at most one is told it succeeded, and the row
\* holds that review's conclusion from then on.
WinnerStands ==
    \A v \in Reviews :
        review[v].pc \in {"reread", "done"} =>
            /\ events[review[v].id].by = v
            /\ events[review[v].id].status = review[v].verdict

\* A review refused with 409 was refused because of someone's conclusion.
RefusedOnlyWhenDecided ==
    \A v \in Reviews :
        review[v].pc = "already_reviewed" =>
            events[review[v].id].status # "pending"

\* Conclusions come from admins and from the creator of the event's exam.
ReviewedByEntitled ==
    \A i \in DOMAIN events :
        events[i].status # "pending" =>
            LET u == review[events[i].by].user
            IN  u \in Admins \/ u = CreatedBy[ExamOf[events[i].attempt]]

(* Action properties.                                                      *)

\* A conclusion is final and a row, once stored, keeps everything else: no
\* step changes a decided row, removes a row or rewrites what was reported.
ConclusionFinal ==
    [][\A i \in DOMAIN events :
          /\ i \in DOMAIN events'
          /\ events[i].status # "pending" => events'[i] = events[i]
          /\ events'[i].attempt = events[i].attempt
          /\ events'[i].at = events[i].at]_vars

(* Liveness.                                                               *)

\* A report that got past its first query is answered or fails; losing the
\* insert race never leaves it without an answer.
EveryReportEnds ==
    \A r \in Reports :
        report[r].pc \in ReportSteps ~> report[r].pc \in ReportEnds

-----------------------------------------------------------------------------
(* The register of ProctorRegister.tla: the row of a key, if there is one. *)

Keys == [attempt : Attempts, type : Types, bucket : 0..Bucket(MaxTime)]

KeyOf(e) == [attempt |-> e.attempt, type |-> e.type, bucket |-> e.bucket]

RowsOf(k) == {i \in DOMAIN events : KeyOf(events[i]) = k}

Verdict(e) == IF e.status = "pending" THEN "pending" ELSE e.by

Entries == [k \in Keys |->
               IF RowsOf(k) = {} THEN "absent"
               ELSE Verdict(events[CHOOSE i \in RowsOf(k) : TRUE])]

Register == INSTANCE ProctorRegister
                WITH Key <- Keys, Conclusion <- Reviews, entry <- Entries

\* The review center is a register in which a report records a key once and a
\* review decides a recorded entry once.
ImplementsRegister == Register!RegisterSpec

-----------------------------------------------------------------------------
(* What the documentation says and the code does not do.                   *)

\* README.md:19: within a window of 30 seconds only the first event of an
\* attempt and type is kept.
OneEventPerWindow ==
    \A i, j \in DOMAIN events :
        (SameKind(i, j) /\ i # j) =>
            \/ events[i].at - events[j].at >= Window
            \/ events[j].at - events[i].at >= Window

\* README.md:14: an admin can see every handling record.
AdminSeesEveryRecord ==
    \A u \in Admins : \A i \in DOMAIN events :
        events[i].status # "pending" => i \in Listed(u)
=============================================================================
