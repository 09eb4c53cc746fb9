# Verification of the gbexam online exam platform

TLA+ models of gbexam's Go backend and of its exam page, TLC configurations that
check them on small instances and TLAPS proofs for every instance.  All paths are
relative to the repository; `internal/` is `backend/internal/`.

## 1. The system

A Vue single page application talks JSON over HTTP to one Go process
(gin + GORM), which keeps everything but the session tokens in MySQL.  Each
request runs in a goroutine of its own.  Except for two operations on exams
(delete, store paper) no service opens a transaction: a request is a series of
autocommitted statements, and what it read in one may be stale in the next.
GORM passes the request's context to every query, so a client that goes away can
cut a request off between any two statements, as an error of the database or the
end of the process can.  Those interleavings and partial failures are what the
models are about.

| Component | State | Operations | What makes it correct |
| --- | --- | --- | --- |
| Proctor review center (`service/service_proctor.go`, `repository/repository_proctor_event.go`) | table `proctor_events` with unique index (attempt, type, window bucket) | Report (student), List, Get, Review (teacher of the exam, admin) | few events per window, every reporter gets the right event back, one final conclusion per event, by someone entitled |
| Startup migration (`migrateLegacyProctorEvents`) | column, buckets, index and rows of a legacy `proctor_events` | runs before the server listens; restarted by docker-compose | ends, whatever crashes, in the table the documented SQL gives; no conclusion of a window lost |
| Answering, submission, grading (`service/service_attempt.go`) | tables `exam_attempts`, `answers` (unique on attempt, exam question) | Start, Current, SaveAnswer, Submit, Grade; Detail, Report, ListGrading read | saved answers are graded, scores are those of the answers, a submitted attempt stays submitted, wrong answers are collected |
| Exams and papers (`service/service_exam.go`) | tables `exams`, `exam_questions` | Create, Publish, Close, Delete | no publication without questions, a closed exam takes no new attempts |
| Question bank (`service/service_question.go`) | table `questions` | create, update, delete, two imports | what is in it can be answered, and is graded as its key says |
| Wrong-question book (`service/service_wrong_question.go`) | table `wrong_questions` (no unique index) | upsert by Submit and practice, practice set, resolve, delete | counts are not lost, one record per question, what is wrong is offered |
| Authentication and sessions (`service/service_auth.go`, `middleware/`) | table `users`; in memory, the current token id of each user | Register, Login, Logout, ParseToken, SeedAdmin, UpdateStatus | one account per name, one session per user, the last login wins |
| Statistics (`service/service_stats.go`) | none | ExamStats, Overview | buckets, averages and ranks agree with the attempts |
| Exam page (`frontend/src/views/ExamTake.vue`) | answers, `submitted`, throttle, countdown | save on change, submit by button, deadline or leaving, report events | one submission, of what the page shows |
| Everything else (handlers, router, configuration, other views) | none | binding, routing, rendering | – |

How they interact.  Submit and Grade read the paper (exams) and the questions
(bank) and write the book; Report and the statistics read attempts that Submit
and Grade write; Report of the review center reads the attempt's status, Review
and the list of events join the exams; deleting an exam or a question touches
none of the tables that refer to it.  The exam page is the client of Start,
SaveAnswer, Submit and Report; it waits for none of its saves, and may have a
save, an event and a submission under way at the same time.

The places where this bites are listed, line by line, in `PROJECT.json` under
"hazards", with the properties that watch them.

## 2. Modules

| Model | What it is about | Instances | Theorems |
| --- | --- | --- | --- |
| `ProctorRegister` | What the review center promises: one entry per attempt, type and bucket, absent, then pending, then with one conclusion for good. | – | – |
| `Proctor` | The review center, one action per statement; implements `ProctorRegister`. | `MCProctor` | `ProctorProofs` |
| `ProctorMigration` | The startup migration with crashes and restarts. | `MCProctorMigration` | `ProctorProofs` |
| `Attempt` | SaveAnswer, Submit and Grade of one attempt. | `MCAttempt` | `AttemptProofs` |
| `Exams` | One exam from creation to deletion, and Start and Current. | `MCExams` | `ExamsProofs` |
| `SingleSession` | What AuthService promises: a user has at most one token in force and a token that lost its force stays so. | – | – |
| `Sessions` | Accounts, sessions, restarts; implements `SingleSession`. | `MCSessions` | `SessionsProofs` |
| `QuestionBank` | What gets into the bank, and how objective answers are judged. | `MCQuestionBank` | `QuestionBankProofs` |
| `WrongBook` | The book of one student under overlapping upserts, practices and deletions. | `MCWrongBook` | `WrongBookProofs` |
| `Reports` | Reports, rankings and statistics read while attempts are written. | `MCReports` | `AttemptProofs` (second part) |
| `ExamTake` | The exam page and its messages to the server. | `MCExamTake` | `ExamTakeProofs` |

Each model takes the part of its neighbours it depends on as an environment: the
exam and its questions may disappear under `Attempt` and `Reports` (what makes them
do so is `Exams` and `QuestionBank`), an attempt is submitted in one step and
graded in two under `Reports` (all the steps are in `Attempt`), and under
`ExamTake` saves and submissions check, read and write in steps of their own, while
a start or a report is one step of the server (their steps are in `Exams` and
`Proctor`).

Definitions introduced by a comment "Mutant of ..." are used by no specification.
They replace the definition they stand before, to show that a property notices.

Conventions.  A request has a program counter; "idle" is before it is sent, each
other value names the query it is about to make, and it ends "done" (answered
with success), "refused" or "failed" (a query erred, the context was cancelled or
the process died).  Who sends what is chosen in `Init`, so every combination of
inputs is checked.  `before` is history: the requests that had ended when one
began.  Two requests of which neither is in the other's `before` overlapped.

### Proctor

| TLA+ | Code |
| --- | --- |
| `events`, `Event` | rows of `proctor_events`; the id is the index in the sequence (rows are only appended while the server runs); `by` stands for reviewer, note and time, written together; `from` is history |
| `attemptStatus`, `exams` | the columns of other tables the center reads |
| `report[r].pc`: stamp, check, insert, lookup, answer | the points of `Report` between `FindAttemptByID`, `time.Now`, `FindRecentProctorEvent`, `CreateProctorEvent`, `FindProctorEventByDedupKey`, `FindProctorEventByID` |
| `review[v].pc`: scope, write, reread | the points of `Review` between its queries |
| `SubmitAttempt`, `DeleteExam`, `Tick` | the rest of the server and the clock |

Time counts ticks and `Window` is the 30 seconds in ticks; `MaxTime` bounds the
clock.  `ReviewProctorEvent` counts rows when its UPDATE changed none; as rows are
never deleted while the server runs the count is never 0 and the step is part of
`ReviewWrite`.  The join with `users` never hides a row because users are never
deleted.

### ProctorMigration

One action per statement of `migrateLegacyProctorEvents`; reading a group's rows
and deleting the losers is one action, because nobody else uses the database
before the server listens.  `stage` is the statement about to be made.  `Crash`
sends the process back to `down` at any point, `Boot` restarts it
(`restart: unless-stopped`, docker-compose.yml:32).  `Decide` lets decided rows
appear while serving.  Buckets are positive, as for
every time after January 1970: a row whose bucket is 0 counts as not backfilled.
`chooseProctorEventToKeep` is the loop of the code as a fold over the group in the
order of ids; `SqlResult` is the script `migrations/0003_proctor_dedup.sql` in one
piece.  `Migration` is the specification without fairness, which the theorems are
about, `FairMigration` the one the run checks.

### Attempt

| TLA+ | Code |
| --- | --- |
| `attempt` | status, objective_score, total_score of the `exam_attempts` row |
| `stored`, `rows` | the rows of `answers`: their text, is_correct, score, graded_by |
| `paper`, `questions`, `late` | `exam_questions` (empty once the exam is deleted), the questions not deleted, the deadline |
| `book` | the questions in `wrong_questions`; counts and removal are in `WrongBook` |
| `save`, `submit`, `grade` | local variables of the requests: the loaded attempt, `answerMap`, `objectiveTotal`, `wrongItems`, the item the loop is at |
| `QuestionMissed` | `findQuestion`, which reads an error of the database as a missing question; `MaxGlitches` bounds how often that happens |
| `crossed`, `unsummed`, `glitches` | history: requests that overlapped, row scores written since the total was, swallowed errors |

An item stands for its row of `exam_questions` and its question (two items of a
paper do not share one here).  `Init` is any attempt in progress with some answers
saved.  An answer to an objective item is "right" or "wrong"; how that is decided
is in `QuestionBank`.  Scores are natural numbers; the code uses float64.
`Repository.SaveAnswer` looks for the row and then updates or inserts it in a
second statement; Grade only writes rows it has read and rows are never deleted,
so its look-up always finds the row and is part of `GradeWrite`.

### Exams

| TLA+ | Code |
| --- | --- |
| `exam`, `paper` | the row of `exams` (its status, or none) and its `exam_questions` as pairs of a question_config entry and a question drawn for it |
| `bank`, `attempts`, `clock` | questions not deleted; `exam_attempts` with `question_order`; before, within or after the exam's times |
| `CreateBegin`, `CreateInsert`, `CreateStore` | drawing, the transaction that inserts the exam, the one that stores the paper with the count for the answer, which may fail after it |
| `pc` "count", "update" | `Publish` and `Close` between reading the exam, counting its paper and writing the whole row back |
| `visit`, `past` | local state of a `Start` or `Current`: the attempt found or created, the items and questions read so far |

The random draw is any choice of `Count[k]` questions of `Pool[k]`; two entries of
a configuration that ask for the same type and difficulty draw from disjoint
choices only by luck in the code, and a question may be in the paper twice.

### Sessions

| TLA+ | Code |
| --- | --- |
| `phase`, `seed` | the process: down, seeding the admin before it listens, serving |
| `accounts` | rows of `users` by name (role, status) |
| `tokens`, `expired` | `AuthService.tokens` with its mutex; the age of a token |
| `pc` "store" | `Login` between building its token and taking the lock |
| `pc` "act" | a request between `RequireAuth`/`ParseToken` and its handler |

Passwords are not kept: whether one matches is part of the choice of `LoginLoad`.
A token is named after the login that built it; its id carries nanoseconds.

### QuestionBank

`Create`, `Update`, `Delete`, `BatchImport` (from a body or a JSON file) and
`ImportExcel`, each with the binding rules that apply to it and
`validateQuestion`; the page's widgets (`PageAnswers`:
what a student can send) and `isCorrectObjective`.  A text is any string: the
model needs of it only `Trim` (strings.TrimSpace) and `Fold` (EqualFold), constants
with the laws those functions have.  An import keeps, in order, the entries that
pass (`Imported`).  `Grade` looks the question up with `findQuestion`: an answer
stays without verdict if the question is gone ("none") or the look-up fails
("unread").

### WrongBook

`UpsertFind` and `UpsertWrite` are the two statements of `UpsertWrongQuestion`,
for both callers: a `Collect` is one call by Submit, a practice makes one for each
wrong answer.  `PracticeList` is `recordByQuestion`: `ListWrongQuestions` cut to a
page (`PageCap`, 100 in `NormalizePage`) and turned into a map, in which of two
rows the older counts.  `PracticeMark` is `MarkWrongQuestionResolved` and ends the
request at a deleted row.  `recorded` and `marked` are history.

### Reports

| TLA+ | Code |
| --- | --- |
| `attempts` | rows of `exam_attempts`, each with the scores of its answers |
| `exam`, `bank` | is the exam (and its `exam_questions`) stored; the items whose question is not deleted |
| `pc`: items, answers, questions, rank | the points of `Report` and `buildDetail` before `ListExamQuestions`, `ListAnswersByAttempt`, each `findQuestion`, and `ranking` |
| `reading` | what a request has read: total, `answerMap`, the items found (`seen`), rank, lists |
| `missed`, `stale` | history: look-ups that failed, requests since whose beginning an attempt was written |
| `RemoveQuestion`, `RemoveExam` | `DELETE /questions/:id`, which asks for no references, and `DELETE /exams/:id` |

`AttemptLoad` is the first query of `Detail` and `Report` with the checks that
follow, `ExamLoad`, `GradingList` and `ExamStats` are the teacher's requests.
`QuestionRead` looks up one question; like the code it leaves the item out of the
breakdown (or the detail) if the question is gone or the look-up fails, while the
attempt's total keeps the item's points.  `GradeTotal` sums over the answers whose
question it finds.  `RouteOpen` is the role group of the route, `InScope` the check
in the service.  `Orders` are the orders `sort.Slice` may return: it is not stable.
`Average` is `round2` in hundredths.

### ExamTake

| TLA+ | Code |
| --- | --- |
| `phase` | the page: `loading`, `taking`, `leaving` (it has sent its submission), `away`, `elsewhere` |
| `attempt`, `shown`, `typing` | `paper.attempt_id`, `answers`, the field that has changed and kept the focus |
| `net` | messages under way, in no order, and the requests the server is working on |
| `SaveCheck`, `SaveWrite` | `SaveAnswer` up to its checks, and its write |
| `SubmitCheck`, `SubmitRead`, `GradeRow`, `SubmitFinish` | `Submit`: the status check, `ListAnswersByAttempt`, one turn of its loop, `UpdateAttempt` |
| `Unload`, `Leave`, `Navigate`, `Reopen`, `Refuse` | a refresh, the `finally` of `doSubmit`, another page of the application, the exam opened once more, a start that is not answered with a paper |
| `FailMessage`, `Timeout`, `MissRow` | a request that fails at any of its steps, one the page no longer waits for (axios, 15 s) while the server goes on, a `findQuestion` that fails |

An answer is the number of the edit that gave it, so that "what was shown" can be
told from older answers; `saved` is the text of a row and `graded` the one its mark
belongs to.  `final` and `careful` are history: what the page showed when it
submitted an attempt, and the attempts none of whose saves was late, refused or
lost when it mattered, none of whose questions was missed and which no page
resumed.  A 401 makes the page go to the login: to the server that is a request
that failed and a page that has gone elsewhere (`FailMessage`, then `Navigate`).

## 3. What is checked

`tlc -config X.cfg M` in this directory, with the module and configuration below.

| Run (configuration) | Instance | Properties |
| --- | --- | --- |
| `proctor` (`MCProctor`) | 3 reports of one kind over several windows, or 2 reports of any kind and caller, or 2 reports and 2 reviews; `Window` 2, clock to 4; submission and deletion of the exam | `AtMostTwoPerWindow`, `CloseEventsOverlapped`, `AnswerCovers`, `WinnerStands`, `ReviewedByEntitled`, `ConclusionFinal` |
| `proctor_live` (`MCProctorLive`) | 2 reports, 2 reviews, fairness | `ImplementsRegister`, `EveryReportEnds` |
| `proctor_window` (`MCProctorWindow`, violation) | 2 reports | `OneEventPerWindow` |
| `migration` (`MCProctorMigration`) | 5 ids, all subsets and statuses, 2 crashes, fairness | `ServesWhatSqlKeeps`, `WindowStaysDecided`, `EventuallyServes` |
| `attempt` (`MCAttempt`) | an objective and a subjective item; 2 submissions with a save, or with swallowed errors, or with a grading, or one with a stranger's request; deletion of exam and questions | `RowsCoherent`, `TotalsPossible`, `SettledScores`, `SubmitComplete`, `SubmissionStands`, `StrangersKeptOut` |
| `attempt_late` (`MCAttemptLate`, violation) | a save and a submission | `NoAnswerAfterSubmit` |
| `sessions` (`MCSessions`) | 2 users; 2 registrations and 2 logins, or 3 logins and a logout, with a change of status, expiry, a restart | `LastLoginWins`, `OneAccountPerName`, `RolesStand`, `SessionEnds`, `ImplementsLedger` |
| `exams` (`MCExams`) | 2 questions, 2 entries, 2 publications, a close, a deletion; 2 starts and a current of 2 students | `PaperSound`, `CloseSticks`, `ClosedToNewStarts`, `DoubleOnlyByOverlap`, `ServedWhole`, `PastIsPast` |
| `book` (`MCWrongBook`) | 2 questions, 2 wrong answers submitted, a practice, a deletion, a read; pages of 2 | `CountsPossible`, `DuplicateOnlyByOverlap`, `ResolvedByRightAnswer`, `WrongIsOffered` |
| `bank` (`MCQuestionBank`) | 14 requests over 8 texts that differ in case, spaces and emptiness; a creation, an update, a deletion, an import of up to two entries, a taker, a look-up that fails | `WellFormed`, `FairVerdict` |
| `reports` (`MCReports`) | 2 attempts of up to 2 students, a detail, a report, a list, statistics; 5 callers; or one attempt and one request, with questions and exam deleted and look-ups that fail | `ReportCoherent`, `StatsCoherent`, `RanksAgree` |
| `take` (`MCExamTake`) | 2 questions, 2 edits, a refresh or second visit, a failed request or look-up, fairness | `GradedAsShown`, `SettledForGood`, `TakenIsSubmitted` |

What the groups mean.

- *Proctor.*  At most two events per window are stored, two only if their reports
  overlapped; a reporter is answered with an event that covers his; of two reviews
  the first stands.
- *Migration.*  Whatever crashes, the server ends up serving exactly the rows the
  documented script keeps.
- *Attempt.*  However requests cross, no row is half graded and the totals shown
  are possible; where nothing crossed, scores are those of the answers and a
  submission answered with success is complete.
- *Exams.*  A published exam has its whole paper; a close stands; what goes wrong
  (an attempt after a close, two attempts at once, a missing question, a paper
  without an exam) is traced to requests that overlapped or to a deletion.
- *Sessions.*  The later of two logins wins and a session that ended never comes
  back, over restarts too.
- *Book.*  Counts never exceed the wrong answers and fall short only by overlaps
  or deletions; resolved means answered right, and no wrong answer went into the
  record since.
- *Bank.*  Whatever way a question gets in, it can be answered on the page, and an
  answer is judged as its key says, unless options or key are ambiguous, the
  question was edited or deleted, or its look-up failed.
- *Reports.*  Numbers read one after the other fit together if nothing was written
  meanwhile, and in part even if something was.  A breakdown is not always
  complete: a deleted question or a failed look-up takes its item out while the
  total stays.  `ReportCoherent` says that nothing else takes an item out, and that
  the points of what is left out are just what is missing to the total.
- *Exam page.*  What was shown is what is graded, unless a save was under way, late
  or lost, and an attempt on the page is submitted in the end.  A submission is
  never taken back.  Its answers may still be written by saves and submissions
  that had passed their checks before (the run `attempt_late`); when those have
  ended, everything the page sends again is refused and the attempt stays as it is
  (`SettledForGood`).

### Bounds

Each `MaxXxx` constant bounds a counter: time, crashes, swallowed errors, edits,
refreshes and visits, failed requests, attempts.  Everything else is bounded by the
requests, each of which is sent at most once.  Several requests would be too many
to interleave all at once, so a CONSTRAINT `MCTraffic` names, in each MC module,
the mixes of requests in play; a request that is not part of a mix carries one
fixed input, so that states do not differ in what nobody sends.  Behaviours are
cut only where nothing can come of them any more: `book` does not follow a read
past its answer (no step depends on it), `reports` not past the end of its
requests (and while nothing is deleted it follows one order of look-ups, which then
makes no difference), `attempt` lets the deadline pass only where saves look at it.

Why they are enough.  Three reports are needed for three events in a window, and
for two losers of one insert race; a window of two ticks and a clock to four cover
two bucket boundaries, events exactly one window apart and one tick more.  Two
reviews make the race; a third would meet the row in a state one of the first two
left.  The legacy table holds three duplicates, a row of another type and one of
another window; two crashes interrupt a migration and the one that repairs it.
A paper of an objective and a subjective item has each kind of row; two
submissions give the duplicate and the retry after a failure.  Two publications
and a close give the three-way race of read-modify-write; two starts the
duplicate attempt.  Three logins are needed for one that is replaced between two
others.  One refresh lets a page resume an attempt whose submission is still under
way, and submit it again, so that two submissions and the saves of two pages are
inside the server at once; a third page would meet an attempt in a state one of the
first two left.  In `Reports` more students of one score would
only make longer ties, which `Orders` treats as it treats ties of two.  Where a theorem exists (section 4) the
bounds do not matter: it was the proof of `ResolvedByRightAnswer` that asked for
the case of a second record deleted later, which three submissions of one
question are needed to reach.

Deadlock checking is off: every request is sent at most once, so a behaviour may
end when all are answered, and after its last possible crash a migrated server
has nothing left to decide.

### Fairness

`EveryReportEnds` assumes weak fairness of a request that got past its first
query: goroutines are scheduled and queries return.  Nothing makes a client send a
request, a query fail or an exam go away.  `EventuallyServes` assumes that the
process runs on and is restarted by docker-compose; the number of crashes is
bounded.  `TakenIsSubmitted` assumes that starts and submissions arrive, run on in
the server and are answered (axios and the browser send them; saves and events
need not), that the interval of the countdown ticks on a page that is open, and that time
reaches the deadline of each attempt.  Nothing makes the student do anything;
his going elsewhere in the application is the exception the property states, as is
a request that was lost.

### Where documents and code disagree

Two of these are runs (and "findings" in `PROJECT.json`); the others have a
configuration that shows the counterexample, to be run by hand.

| Property (configuration) | Document | Code | What holds instead |
| --- | --- | --- | --- |
| `OneEventPerWindow` (`MCProctorWindow`, run) | README.md:19: one event per 30 seconds | overlapping reports on both sides of a bucket boundary are both stored | `AtMostTwoPerWindow`, `CloseEventsOverlapped` |
| `NoAnswerAfterSubmit` (`MCAttemptLate`, run) | service_attempt.go:141 refuses answers after submission | a save past the check overwrites the graded row | `RowsCoherent`, `SubmissionStands` |
| `AdminSeesEveryRecord` (`MCProctorAdmin`) | README.md:14: admins see every record | the inner join with `exams` hides those of a deleted exam | `ConclusionFinal`: the rows stay |
| `AllConclusionsKept` (`MCProctorMigrationKept`) | README.md:69: conclusions are kept | of two decided rows of a window one is deleted | `WindowStaysDecided` |
| `WrongAnswersCollected` (`MCAttemptBook`) | service_attempt.go:172, README.md:12: wrong answers are collected | a submission that fails after `UpdateAttempt` cannot be repeated | `SubmitComplete` |
| `CloseStopsAttempts` (`MCExamsClose`) | service_exam.go:152: Close stops new attempts | a start past its check creates one after the close | `ClosedToNewStarts` |
| `OneUnfinishedAttempt` (`MCExamsDouble`) | service_attempt.go:49 and :118: creates or resumes, *the* unfinished attempt | two overlapping starts create two | `DoubleOnlyByOverlap` |
| `EveryWrongAnswerCounts` (`MCWrongBookCount`) | repository_wrong_question.go:10: increments the count | overlapping upserts lose increments | `CountsPossible` |
| `PracticeOffersAll` (`MCWrongBookPage`) | service_wrong_question.go:66: a set of unresolved wrong questions | a page of 100 rows, resolved ones included | `WrongIsOffered` |
| `MultipleExactSet` (`MCQuestionBankSet`) | service_attempt_test.go:17: multiple exact set | a key that repeats an option is matched by no answer | `FairVerdict` |
| `BankKeepsRules` (`MCQuestionBankRules`) | dto_question.go:13 to :20: binding rules | files are not bound, `validateQuestion` does not check them | `WellFormed` |
| `StaffSeeDetail` (`MCReportsStaff`) | README.md:211: detail for students, teachers, admins | the route is in the group of students | `ReadersEntitled` |
| `ParticipantsArePersons` (`MCReportsPersons`) | ExamList.vue:100 and :104: persons | attempts are counted | `StatsCoherent` |
| `DeadlineSubmits` (`MCExamTakeDeadline`) | README.md:10: the countdown submits | a failed submission is not sent again | `TakenIsSubmitted` |
| `LeaveEventFirst` (`MCExamTakeLeave`) | ExamTake.vue:319: sent in order | nothing waits for the first request | – |
| `RefreshEndsAttempt` (`MCExamTakeRefresh`) | README.md:10: a refresh counts as submission | the refreshed page may resume the attempt before the submission arrives | `SettledForGood` |

## 4. What is proved

TLAPS checks every theorem below for any sets of requests, users, questions and
attempts and any value of the bounds.  The assumptions are the named ASSUMEs of
the models (types of the constants; that requests of different kinds are
different; the laws of `Trim` and `Fold`), which TLC evaluates in the runs.

| Module | Theorems (property) |
| --- | --- |
| `ProctorProofs` | `TypeCorrect`, `DedupUnique`, `AtMostTwo`, `OnlyOverlapsDouble`, `AnswersCorrect`, `ReviewsCorrect`, `ReviewersEntitled`, `ConclusionsFinal`, `RegisterImplemented` (`ImplementsRegister`); `MigrationKeepsSqlRows` (`ServesWhatSqlKeeps`), `WindowsStayDecided` |
| `AttemptProofs` | `TypeCorrect`, `RowsAreCoherent`, `StrangersStayOut`, `SubmissionsStand`, `SubmissionsComplete`, `TotalsStayPossible` (`TotalsPossible`), `ScoresSettle` (`SettledScores`); of `Reports`: `ReportsStayCoherent` (`ReportCoherent`), `StatsStayCoherent` (`StatsCoherent`), `RanksStayEqual` (`RanksAgree`) |
| `ExamsProofs` | `TypeCorrect`, `PapersSound`, `ClosesStick`, `ClosedForStarts`, `AttemptsServedWhole`, `DoublesOverlap`, `SubmittedNotServed` (`PastIsPast`) |
| `SessionsProofs` | `TypeCorrect`, `RegistrationsUnique`, `RolesCorrect`, `LoginsReplace`, `SessionsEndByTheirUser`, `SessionsRefine` (`ImplementsLedger`) |
| `QuestionBankProofs` | `TypeCorrect`, `BankWellFormed`, `VerdictsFair` |
| `WrongBookProofs` | `TypeCorrect`, `DuplicatesOverlap`, `ResolvedRightly`, `WrongAnswersOffered`, `CountsStayPossible` (`CountsPossible`) |
| `ExamTakeProofs` | `TypeCorrect`, `SubmittedForGood`, `ShownIsGraded` |

Almost none of the properties is inductive: a step that would break one is
excluded by what the requests in flight have read, which the property does not
mention.  The strengthenings say what a request in flight still knows.

- *Proctor.*  `ReportInv`: a row's bucket is the bucket of its time
  (`BucketsRight`); a row belongs to the request that inserted it, which has left
  the insert (`RowsFromReports`); a request past its pre-check still knows that
  none of the rows it saw is recent (`NothingRecentSeen`) – the key to
  `CloseEventsOverlapped`, since it holds of old rows while new ones arrive; and
  the row a request is answered with is the right one.  `ReviewInv`: a review past
  its first query refers to a stored row, what it read as decided is decided, and
  who gets to the UPDATE is entitled.  `AtMostTwo` follows by arithmetic on
  buckets: three events within a window would need three buckets.  `RegisterStep`
  maps each step to a step of `ProctorRegister` or a stutter, given that a key has
  at most one row.
- *Attempt.*  `CoherentInv`: what a submission or grading has read and computed is
  a coherent row (`GradesRight`) and who is past its first query is entitled
  (`Admitted`).  `StandInv`: requests that are in flight together have crossed
  (`Crossing`) and one that has not crossed holds fresh copies (`Fresh`).
  `Thorough` follows the loop of a submission nothing crossed: what it has left
  behind is graded, and what it graded wrong is noted.  `Bounded`: whatever crosses,
  every partial sum a request carries and every total stored lies within the sum of
  the items behind it.  `Summed`: where nothing crossed, a submission's running
  total is the sum of the rows it has graded, and what a grading is about to write
  is the sum of the rows as they will then be.
- *Reports.*  `ReportsInv` says what each request knows (`Knows`).  Who got past the
  first query was let in by route and scope, and attempts keep their student
  (`LetIn`).  What a report has read still is what the attempt holds unless the
  request is stale; an item that is neither to be looked up nor found is one whose
  look-up failed or whose question or exam is gone; and a rank is a place in one of
  the orders of the attempts as they are (`ReportReads`).  `KnowsKept` carries this
  over the steps of others, deletions among them.  That parts and left-out points
  make the total is then a matter of splitting a sum.
  Statistics are coherent when they are computed (`StatsRead`) and not touched
  again: an order lists every submitted attempt once (`OrderIs`, by counting), so
  its ends bound all totals, hence the sum and, through the rounding, the average
  (`SumBetween`, `RoundBounds`); each attempt is in one bucket, so the buckets add
  up (`CountByValue`), and the pass mark is the edge of the second (`BucketIs`).
  `RanksAgree` is not about values kept but about the sorts: without ties an
  attempt's place is the number of those ahead of it plus one (`PlaceIs`), the same
  in any two orders.
- *Migration.*  `MigrationInv`: the rows there are are what is left of the legacy
  table (`Survivors`) and hold a conclusion wherever the window had one
  (`Conclusions`); a bucket, once backfilled, is the one of its time (`Buckets`); at
  each stage, groups already visited have their one row (`Progress`).  A crash keeps
  the first three, and the last is earned again from the start.  That two runs of
  the deduplication keep the same row as one run of the script rests on `ChosenIs`:
  the loop of the code returns the first decided row in the order of ids, or the
  first row.
- *Exams.*  `ExamInv` adds to the properties what the requests carry: what
  `Publish` counted (`PaperInv`), that a status written back is one of a request
  that overlapped (`CloseSticks`), that a start past its checks began before the
  close (`ByBegun`, `Admitted`), that what it looked up was so when it began
  (`LookedUp`), and how far a response has got (`ViewsWhole`).
- *Sessions.*  `SessionInv`: a process that is down has no request and no token
  (`Quiet`), the reserved name is taken before the server listens (`Reserved`), a
  login that was replaced is not in the map (`Replaced`) and logins answered before
  another began have stored their token (`OldAnswered`).
- *Question bank.*  `BankInv`: every question in the bank or on its way there is
  `Answerable`; `MarkInv` relates what a taker was served to what is stored unless
  it was edited, and a verdict to that unless the look-up failed.  `SameMembers` is the counting argument of the set comparison:
  lists without repetition of equal length, one within the other, have the same
  members.
- *Wrong-question book.*  `FoundNone`: a writer that found no record has begun
  before the requests ended that wrote those there are now – so two records of a
  question overlap.  `StillThere` and `Resolved` say the same of the record a wrong
  answer went into.  `CountInv`: there is an account of how many wrong answers went
  into each record (`Tally`) that no count exceeds and that adds up, over the
  records, to no more than the wrong answers recorded; each of these went in once
  (`Once`); and where nothing overlapped and nothing was deleted the count is
  exactly that (`Steady`, `Exact`).
- *Exam page.*  `PageInv`: messages are about attempts there are, and one attempt
  at most is unfinished.  `ShownInv`: of an attempt none of whose saves went wrong,
  every answer not being typed is saved or under way (`UpToDate`), and once its
  submission is sent no save of it is under way, so that what submissions have read
  of it, and the rows they have written, are the answers shown (`Frozen`).
  `SettledForGood` needs only that a request in the server is about a stored attempt
  and that none gets past its check once the attempt is submitted (`SettledWork`).

Proofs have one step per action, or per group of actions that leave the invariant's
variables alone (the lemmas named `...Frame`, `Moves`, `Writes`).

Sums and loops.  The scores of an attempt, the counts of the book and the survivor
of a window are sums or folds over a finite set.  `SetTheorems` has what the proofs
need of them.  The prover cannot instantiate an induction principle, so its lemmas
reason by a minimal counterexample: if a sum law failed for some subset of a
function's domain, it would fail for one of least size (`MinimalSet`), and taking
one element out of that gives a contradiction.  `SumStep` (a sum grows by the
element that joins) carries the rest: bounds (`SumAtMost`), the effect of changing
one value (`SumChange`), sums of disjoint and smaller sets, and counting a set by
the value of a function (`CountByValue`).

Only model-checked: liveness (`EveryReportEnds`, `EventuallyServes`,
`TakenIsSubmitted`), which is out of the prover's reach.  Every invariant, action
property and refinement a passing run checks has a theorem.

## 5. Not modelled

- Other views, routing, logging, error texts, configuration, HTTP codes and the
  layout of responses: no state, no order.  Where binding rules or role groups of
  routes decide something, `QuestionBank` and `Reports` have them.
- Lists with pages, filters and joins for display, and `Overview` (four
  independent counts): one query each, and nothing to be inconsistent with.
- Floating point: scores and totals are natural numbers.  `Create` compares the
  total asked for with a float sum (service_exam.go:56), the pass mark and buckets
  multiply and divide; decimal scores that are no binary fractions may round.
- Two entries of a question_config for one type and difficulty may draw the same
  question (service_exam.go:36); in `Exams` such rows differ by entry, in `Attempt`
  two items have different questions.
- Edits of questions outside `QuestionBank`: in `Attempt` and `Reports` a question
  keeps its type and key until it is deleted.
- Of a report: accuracy, and the maximum and the number of items of each part.
- An answer list of a practice that names a question twice: in `WrongBook` a
  practice answers a set of questions.
- Texts: their contents, notes, details, marks, options' texts.  The spreadsheet
  reader and the shape of a JSON file; an empty row of a workbook makes
  `ImportExcel` fail at service_question.go:118.
- Precision of the database's clock, with which an UPDATE may find nothing
  changed: `UpdateExam` and others do not look at the rows affected, and where the
  review center does it counts again.
- Passwords, JWT signatures and their strength.  Expiry is a step of its own.
- On the page: marks, `pagehide` without `beforeunload`, the reports sent before the
  page is left (whose life in the server is `Proctor`), and several tabs of one
  student, whose requests are those of `Exams` and `Attempt`.  A start is one step
  in `ExamTake`, so that two starts of one page do not overlap; those that do are
  in `Exams`.
