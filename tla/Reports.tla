------------------------------ MODULE Reports ------------------------------
(***************************************************************************)
(* Reading the results of one exam: AttemptService.Detail, Report and      *)
(* ListGrading and StatsService.ExamStats, while attempts are started,     *)
(* submitted and graded, and while questions and the exam are deleted.     *)
(* One action is one query of one request with the local code around it: a *)
(* report reads the attempt, the paper, the answers, the questions one by  *)
(* one and all attempts of the exam one after the other.                   *)
(*                                                                         *)
(* Scores are natural numbers.  An answer is its score, that of an         *)
(* objective item the item's or 0; an item without an answer adds nothing, *)
(* as one with none of its points.                                         *)
(***************************************************************************)
EXTENDS Integers, Sequences, FiniteSets, Functions

CONSTANTS Paper, ItemScore, Kind,   \* the items of the exam, their scores and types
          Callers, Role,            \* users
          Owner,                    \* the teacher who created the exam
          Details, Reportings, Gradings, Statistics,   \* requests
          MaxAttempts, MaxTime      \* bounds

AutoGraded == {it \in Paper : Kind[it] = "objective"}
Kinds == {"objective", "subjective"}
Students == {u \in Callers : Role[u] = "student"}
Queries == Details \cup Reportings \cup Gradings \cup Statistics

ASSUME ReportAssumption ==
    /\ IsFiniteSet(Paper) /\ Paper # {}
    /\ ItemScore \in [Paper -> Nat \ {0}]
    /\ Kind \in [Paper -> Kinds]
    /\ Role \in [Callers -> {"student", "teacher", "admin"}]
    /\ Owner \in Callers /\ Role[Owner] # "student"
    /\ (Details \cup Reportings) \cap (Gradings \cup Statistics) = {}
    /\ Details \cap Reportings = {} /\ Gradings \cap Statistics = {}
    /\ MaxAttempts \in Nat /\ MaxTime \in Nat \ {0}

ExamTotal == SumFunctionOnSet(ItemScore, Paper)

VARIABLES
    attempts,   \* rows of exam_attempts with the scores of their answers
    exam,       \* are the exam and its exam_questions stored?
    bank,       \* table questions: the items whose question is not deleted
    now,        \* clock
    pc, caller, \* of each request
    reading,    \* of each request: the attempt it is about and what it has read
    stale       \* requests since whose beginning an attempt was written (history)

reportsVars == <<attempts, exam, bank, now, pc, caller, reading, stale>>

Attempt == [student : Students, status : {"in_progress", "submitted"},
            objective : Nat, total : Nat,
            at : Nat,                        \* submitted_at, 0 before
            scores : [Paper -> Nat]]

Ids == DOMAIN attempts
Submitted == {i \in Ids : attempts[i].status = "submitted"}

\* What has been read so far; rank 0 is no rank.
Nothing == [attempt |-> 0, total |-> 0, submitted |-> FALSE,
            scores |-> [it \in Paper |-> 0], todo |-> {}, seen |-> {}, missed |-> {},
            rank |-> 0, participants |-> 0, listed |-> {},
            order |-> <<>>, pass |-> 0, buckets |-> <<>>, average |-> 0]

Reading == [attempt : Nat, total : Nat, submitted : BOOLEAN,
            scores : [Paper -> Nat],   \* answerMap
            todo : SUBSET Paper,       \* items still to look up
            seen : SUBSET Paper,       \* items whose question was found
            missed : SUBSET Paper,     \* those whose look-up failed (history)
            rank : Nat, participants : Nat, listed : SUBSET Nat,
            order : Seq([attempt : Nat, total : Nat]), pass : Nat, buckets : Seq(Nat),
            average : Nat]

Places == {"idle", "items", "answers", "questions", "rank", "list",
           "done", "missing", "refused", "failed"}

ReportsTypeOK ==
    /\ attempts \in Seq(Attempt)
    /\ exam \in BOOLEAN /\ bank \subseteq Paper
    /\ now \in 0..MaxTime
    /\ pc \in [Queries -> Places]
    /\ caller \in [Queries -> Callers]
    /\ reading \in [Queries -> Reading]
    /\ \A r \in Queries : /\ reading[r].attempt \in 0..Len(attempts)
                          /\ reading[r].rank \in 0..Len(attempts)
    /\ stale \subseteq Queries

ReportsInit ==
    /\ attempts = <<>>
    /\ exam = TRUE /\ bank = Paper
    /\ now = 1
    /\ pc = [r \in Queries |-> "idle"]
    /\ caller \in [Queries -> Callers]
    /\ reading = [r \in Queries |-> Nothing]
    /\ stale = {}

-----------------------------------------------------------------------------
(* The attempts, as Start, Submit and Grade leave them.  A request that    *)
(* found the exam and its questions writes even after they are deleted, so *)
(* no step here depends on them.                                           *)

Sum(i, S) == SumFunctionOnSet(attempts[i].scores, S)
Touch == stale' = {r \in Queries : pc[r] # "idle"}

Start(st) ==
    /\ Len(attempts) < MaxAttempts
    /\ \A i \in Ids : attempts[i].student = st => attempts[i].status = "submitted"
    /\ attempts' = Append(attempts, [student |-> st, status |-> "in_progress", objective |-> 0,
                                     total |-> 0, at |-> 0, scores |-> [it \in Paper |-> 0]])
    /\ UNCHANGED <<exam, bank, now, pc, caller, reading, stale>>

\* The objective items of the set right are, of those whose question is found.
SubmitAttempt(i, right) ==
    LET points == SumFunctionOnSet(ItemScore, right)
    IN  /\ attempts[i].status = "in_progress"
        /\ attempts' = [attempts EXCEPT ![i] = [@ EXCEPT
              !.status = "submitted", !.objective = points, !.total = points, !.at = now,
              !.scores = [it \in Paper |-> IF it \in right THEN ItemScore[it] ELSE 0]]]
        /\ Touch
        /\ UNCHANGED <<exam, bank, now, pc, caller, reading>>

\* Grade writes the answers, then the total; in between a report may read.  An
\* answer whose question is not found is not added.
GradeAnswer(i, it, s) ==
    /\ attempts[i].status = "submitted" /\ it \notin AutoGraded
    /\ attempts' = [attempts EXCEPT ![i].scores[it] = s]
    /\ Touch
    /\ UNCHANGED <<exam, bank, now, pc, caller, reading>>
GradeTotal(i, found) ==
    /\ attempts[i].status = "submitted"
    /\ attempts' = [attempts EXCEPT ![i].total = attempts[i].objective + Sum(i, found)]
    /\ attempts' # attempts
    /\ Touch
    /\ UNCHANGED <<exam, bank, now, pc, caller, reading>>

Tick == /\ now < MaxTime /\ now' = now + 1
        /\ UNCHANGED <<attempts, exam, bank, pc, caller, reading, stale>>

\* DELETE /questions/:id asks for no references, DELETE /exams/:id takes the
\* paper along; the attempts stay.
RemoveQuestion(it) ==
    /\ it \in bank /\ bank' = bank \ {it}
    /\ UNCHANGED <<attempts, exam, now, pc, caller, reading, stale>>
RemoveExam == /\ exam /\ exam' = FALSE
              /\ UNCHANGED <<attempts, bank, now, pc, caller, reading, stale>>

-----------------------------------------------------------------------------
(* Requests.                                                               *)

\* RequireRole: attempts are read by students, the exam's by its staff.
RouteOpen(r) == IF r \in Details \cup Reportings THEN Role[caller[r]] = "student"
                ELSE Role[caller[r]] \in {"teacher", "admin"}

\* A student's own attempt, a teacher's own exam, or an admin.
InScope(u, i) == /\ Role[u] = "student" => i # 0 /\ attempts[i].student = u
                 /\ Role[u] = "teacher" => u = Owner

Begin(r, to, read) == /\ pc[r] = "idle"
                      /\ pc' = [pc EXCEPT ![r] = to]
                      /\ reading' = [reading EXCEPT ![r] = read]
                      /\ UNCHANGED <<attempts, exam, bank, now, caller, stale>>
Read(r, from, to, read) == /\ pc[r] = from
                           /\ pc' = [pc EXCEPT ![r] = to]
                           /\ reading' = [reading EXCEPT ![r] = read]
                           /\ UNCHANGED <<attempts, exam, bank, now, caller, stale>>

\* GET /attempts/:id and /attempts/:id/report read the attempt and the exam.
AttemptLoad(r) ==
    \E i \in Ids :
        LET a == attempts[i]
        IN  IF ~RouteOpen(r) \/ (exam /\ ~InScope(caller[r], i)) THEN Begin(r, "refused", Nothing)
            ELSE IF ~exam THEN Begin(r, "missing", Nothing)
            ELSE Begin(r, "items", [Nothing EXCEPT !.attempt = i, !.total = a.total,
                                        !.submitted = (a.status = "submitted")])

\* After its last question a detail is done, and a report goes on to rank.
After(r, todo) == IF todo # {} THEN "questions" ELSE IF r \in Details THEN "done" ELSE "rank"

ItemsRead(r) ==
    Read(r, "items", "answers", [reading[r] EXCEPT !.todo = IF exam THEN Paper ELSE {}])

AnswersRead(r) ==
    Read(r, "answers", After(r, reading[r].todo),
         [reading[r] EXCEPT !.scores = attempts[reading[r].attempt].scores])

\* Mutant of QuestionRead: the first question not found ends the reading.
QuestionReadBreak(r) ==
    \E it \in reading[r].todo :
        LET rest == reading[r].todo \ {it}
            step(d, todo) == Read(r, "questions", After(r, todo), [d EXCEPT !.todo = todo])
        IN  \/ it \in bank /\ step([reading[r] EXCEPT !.seen = @ \cup {it}], rest)
            \/ it \notin bank /\ step(reading[r], {})
            \/ step([reading[r] EXCEPT !.missed = @ \cup {it}], rest)

\* buildDetail, and the first half of Report: an item is left out if its question
\* is deleted, and also if findQuestion fails.
QuestionRead(r) ==
    \E it \in reading[r].todo :
        LET rest == reading[r].todo \ {it}
            step(d) == Read(r, "questions", After(r, rest), [d EXCEPT !.todo = rest])
        IN  \/ it \in bank /\ step([reading[r] EXCEPT !.seen = @ \cup {it}])
            \/ it \notin bank /\ step(reading[r])
            \/ step([reading[r] EXCEPT !.missed = @ \cup {it}])

\* The breakdown by type: the points for the items of kind k.
Part(d, k) == SumFunctionOnSet(d.scores, {it \in d.seen : Kind[it] = k})

\* The order of both rankings: a higher score, or the same one submitted earlier.
Ahead(i, j) ==
    \/ attempts[i].total > attempts[j].total
    \/ attempts[i].total = attempts[j].total /\ attempts[i].at < attempts[j].at

\* sort.Slice: some order of the submitted attempts in which none is behind one
\* it is ahead of.
Orders == {s \in [1..Cardinality(Submitted) -> Submitted] :
              \A m, n \in DOMAIN s : m < n => s[m] # s[n] /\ ~Ahead(s[n], s[m])}

\* Mutant of ReportRank: only higher scores count.
ReportRankByScore(r) ==
    /\ r \in Reportings
    /\ LET mine == attempts[reading[r].attempt].total
           better == {i \in Submitted : attempts[i].total > mine}
       IN  Read(r, "rank", "done", [reading[r] EXCEPT
               !.participants = Cardinality(Submitted),
               !.rank = IF reading[r].attempt \in Submitted THEN Cardinality(better) + 1 ELSE 0])

\* ranking: the position among those submitted by now; an error is no rank of
\* none.
ReportRank(r) ==
    /\ r \in Reportings
    /\ \/ \E s \in Orders :
             Read(r, "rank", "done", [reading[r] EXCEPT
                 !.participants = Len(s),
                 !.rank = IF reading[r].attempt \in Submitted
                          THEN CHOOSE n \in DOMAIN s : s[n] = reading[r].attempt ELSE 0])
       \/ Read(r, "rank", "done", reading[r])

\* GET /exams/:id/attempts and /exams/:id/stats read the exam.
ExamLoad(r) ==
    Begin(r, IF ~RouteOpen(r) \/ (exam /\ ~InScope(caller[r], 0)) THEN "refused"
             ELSE IF exam THEN "list" ELSE "missing", Nothing)

GradingList(r) ==
    r \in Gradings /\ Read(r, "list", "done", [reading[r] EXCEPT !.listed = Submitted])

\* Mutant of Bucket: 60 percent is among those who failed.
BucketFrom60(i) ==
    LET percent == 100 * attempts[i].total
    IN  Cardinality({edge \in {60, 70, 80, 90} : percent > edge * ExamTotal}) + 1

\* buildScoreBuckets: 0-59, 60-69, 70-79, 80-89, 90-100 percent of the exam.
Bucket(i) ==
    LET percent == 100 * attempts[i].total
    IN  Cardinality({edge \in {60, 70, 80, 90} : percent >= edge * ExamTotal}) + 1

\* round2, in hundredths.
Average(S) == IF S = {} THEN 0
              ELSE LET n == Cardinality(S)
                   IN  (200 * SumFunctionOnSet([i \in S |-> attempts[i].total], S) + n) \div (2 * n)

ExamStats(r) ==
    /\ r \in Statistics
    /\ \E s \in Orders :
          Read(r, "list", "done", [reading[r] EXCEPT
              !.listed = Submitted,
              !.participants = Len(s),
              !.order = [n \in DOMAIN s |-> [attempt |-> s[n], total |-> attempts[s[n]].total]],
              !.pass = Cardinality({i \in Submitted : 10 * attempts[i].total >= 6 * ExamTotal}),
              !.buckets = [b \in 1..5 |-> Cardinality({i \in Submitted : Bucket(i) = b})],
              !.average = Average(Submitted)])

Fail(r) == /\ pc[r] \in {"items", "answers", "list"}
           /\ Read(r, pc[r], "failed", reading[r])

ReportsNext ==
    \/ \E st \in Students : Start(st)
    \/ \E i \in Ids : \/ \E right \in SUBSET AutoGraded : SubmitAttempt(i, right)
                      \/ \E it \in Paper : \E s \in 0..ItemScore[it] : GradeAnswer(i, it, s)
                      \/ \E found \in SUBSET (Paper \ AutoGraded) : GradeTotal(i, found)
    \/ Tick
    \/ \E it \in Paper : RemoveQuestion(it)
    \/ RemoveExam
    \/ \E r \in Details \cup Reportings :
          AttemptLoad(r) \/ ItemsRead(r) \/ AnswersRead(r) \/ QuestionRead(r)
    \/ \E r \in Gradings \cup Statistics : ExamLoad(r)
    \/ \E r \in Queries : ReportRank(r) \/ GradingList(r) \/ ExamStats(r) \/ Fail(r)

ReportsSpec == ReportsInit /\ [][ReportsNext]_reportsVars

-----------------------------------------------------------------------------
(* Safety.                                                                 *)

\* Results are read by the student whose they are, by the exam's teacher and
\* by admins; students never see those of others.
ReadersEntitled ==
    \A r \in Queries : pc[r] = "done" =>
        LET u == caller[r]
        IN  \/ Role[u] = "student" /\ reading[r].attempt # 0
                                   /\ attempts[reading[r].attempt].student = u
            \/ u = Owner \/ Role[u] = "admin"

\* The items whose question or exam is deleted.
Gone == IF exam THEN Paper \ bank ELSE Paper

\* Those entitled to it read a report or a detail whose numbers fit together
\* although it reads them one after the other: an item is left out only if its
\* question or the exam was deleted or its look-up failed; the parts and the
\* points of what is left out add up to the total, unless an attempt was written
\* meanwhile or a grading was under way; a rank is one of those of the
\* participants.
ReportCoherent ==
    /\ ReportsTypeOK
    /\ ReadersEntitled
    /\ \A r \in Details \cup Reportings : pc[r] = "done" =>
          LET d == reading[r]
              i == d.attempt
              out == Paper \ d.seen
          IN  /\ out \subseteq d.missed \cup Gone
              /\ (d.submitted /\ r \notin stale /\ attempts[i].total = Sum(i, Paper)) =>
                    Part(d, "objective") + Part(d, "subjective") + Sum(i, out) = d.total
              /\ d.rank <= d.participants
              /\ (d.submitted /\ d.participants > 0) => d.rank > 0

\* The statistics agree with themselves: the ranking goes down in scores, its
\* ends are the highest and the lowest score and bound the average, the buckets
\* add up to the participants and all but the lowest have passed.
StatsCoherent ==
    \A r \in Statistics : pc[r] = "done" =>
        LET d == reading[r]
            n == d.participants
        IN  /\ \A k, l \in 1..n : k < l => d.order[k].total >= d.order[l].total
            /\ n > 0 => /\ 100 * d.order[n].total <= d.average
                        /\ d.average <= 100 * d.order[1].total
            /\ SumFunctionOnSet(d.buckets, 1..5) = n
            /\ d.pass = n - d.buckets[1]
            /\ {d.order[k].attempt : k \in 1..n} = d.listed

\* A report and the statistics give an attempt the same rank, if nothing was
\* written meanwhile and no two attempts tie in score and time.
RanksAgree ==
    \A r \in Reportings, q \in Statistics :
        (/\ pc[r] = "done" /\ pc[q] = "done" /\ reading[r].rank > 0
         /\ r \notin stale /\ q \notin stale
         /\ \A i, j \in Submitted : i # j => Ahead(i, j) \/ Ahead(j, i)) =>
            reading[q].order[reading[r].rank].attempt = reading[r].attempt

-----------------------------------------------------------------------------
(* What the documents say and the code does not do.                        *)

\* README.md, the table of attempts: the detail of an attempt is for students,
\* teachers and admins, whose grading page asks for it.
StaffSeeDetail ==
    \A r \in Details : pc[r] = "refused" => Role[caller[r]] # "admin" /\ caller[r] # Owner

\* ExamList.vue:100 and :104 count persons who took part and who passed.
ParticipantsArePersons ==
    \A r \in Statistics : pc[r] = "done" =>
        reading[r].participants = Cardinality({attempts[i].student : i \in reading[r].listed})
=============================================================================
