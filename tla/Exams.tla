-------------------------------- MODULE Exams --------------------------------
(***************************************************************************)
(* One exam from its creation to its deletion: ExamService.Create, Publish *)
(* Close and Delete, and AttemptService.Start and Current, by which        *)
(* students get at it.  Only the deletion and the storing of the paper are *)
(* transactions; otherwise one action is one query of one request with the *)
(* local code that follows it.                                             *)
(*                                                                         *)
(* A row of the paper (table exam_questions) is a pair <<k, q>>: question  *)
(* q drawn for entry k of the request's question_config, whose Pool[k] are *)
(* the questions of its type and difficulty.                               *)
(***************************************************************************)
EXTENDS Naturals, Sequences, FiniteSets

CONSTANTS Questions, Students,
          Configs, Pool, Count,    \* entries of question_config
          Creator,                 \* the request that creates the exam
          Publishes, Closes, Deletes, Starts, Currents,   \* requests
          Entitled,   \* those of the exam's teacher, or of an admin
          MaxGlitches \* bound on the errors findQuestion swallows

Visits == Starts \cup Currents
Requests == {Creator} \cup Publishes \cup Closes \cup Deletes \cup Visits
Rows == Configs \X Questions

ASSUME ExamAssumption ==
    /\ Pool \in [Configs -> SUBSET Questions]
    /\ Count \in [Configs -> Nat \ {0}]
    /\ IsFiniteSet(Questions)
    /\ Configs # {} /\ IsFiniteSet(Configs)
    /\ MaxGlitches \in Nat
    /\ Creator \notin Publishes \cup Closes \cup Deletes \cup Visits
    /\ Publishes \cap (Closes \cup Deletes \cup Visits) = {}
    /\ Closes \cap (Deletes \cup Visits) = {}
    /\ Deletes \cap Visits = {}
    /\ Starts \cap Currents = {}

VARIABLES
    exam,      \* status of the row in table exams; "none" without one
    paper,     \* rows of table exam_questions
    bank,      \* questions in table questions
    attempts,  \* rows of table exam_attempts, by id
    clock,     \* before start_time, in between, after end_time
    pc,        \* of each request
    drawn,     \* Create: items
    left,      \* Create: entries of question_config not drawn for yet
    visit,     \* local state of a Start or Current
    before,    \* requests answered when this one began (history)
    glitches   \* (history, bound)

vars == <<exam, paper, bank, attempts, clock, pc, drawn, left, visit, before,
          glitches>>

-----------------------------------------------------------------------------
Attempt == [student : Students, status : {"in_progress", "submitted"},
            items : SUBSET Rows,   \* question_order
            by : Starts]           \* the start that created it (history)

Visit == [student : Students,
          attempt : Nat,           \* the attempt found or created, 0 before
          past : SUBSET Nat,       \* attempts submitted when it began (history)
          todo : SUBSET Rows,      \* items of the paper or of the response
          views : SUBSET Rows]     \* questions put in the response

Running == {"draw", "insert", "store", "count", "update", "delete", "find",
            "paper", "create", "exam", "items", "read"}
Ended == {"done", "refused", "failed"}

TypeOK == /\ exam \in {"none", "draft", "published", "closed"}
          /\ paper \subseteq Rows
          /\ bank \subseteq Questions
          /\ attempts \in Seq(Attempt)
          /\ clock \in {"early", "open", "over"}
          /\ pc \in [Requests -> {"idle"} \cup Running \cup Ended]
          /\ drawn \subseteq Rows
          /\ left \subseteq Configs
          /\ visit \in [Visits -> Visit]
          /\ before \in [Requests -> SUBSET Requests]
          /\ glitches \in 0..MaxGlitches

\* A choice of questions as the configuration asks for.
Complete(S) == \A k \in Configs : LET qs == {q \in Questions : <<k, q>> \in S}
                                  IN  qs \subseteq Pool[k] /\ Cardinality(qs) = Count[k]

\* The exam is yet to be created, or is there with its paper.
Init == /\ bank = Questions
        /\ \/ exam = "none" /\ paper = {} /\ pc = [q \in Requests |-> "idle"]
           \/ /\ exam \in {"draft", "published", "closed"}
              /\ paper \in {S \in SUBSET Rows : Complete(S)}
              /\ pc = [q \in Requests |-> IF q = Creator THEN "done" ELSE "idle"]
        /\ attempts = <<>>
        /\ clock \in {"early", "open"}
        /\ drawn = {} /\ left = Configs
        /\ visit \in [Visits -> [student : Students, attempt : {0}, past : {{}},
                                 todo : {{}}, views : {{}}]]
        /\ before = [q \in Requests |-> {}]
        /\ glitches = 0

Goto(q, to) == pc' = [pc EXCEPT ![q] = to]
Begin(q, to) == /\ pc[q] = "idle"
                /\ Goto(q, to)
                /\ before' = [before EXCEPT ![q] = {p \in Requests : pc[p] = "done"}]
Step(q, from, to) == pc[q] = from /\ Goto(q, to) /\ UNCHANGED before

tables == <<exam, paper, bank, attempts, clock>>
locals == <<drawn, left, visit, glitches>>

-----------------------------------------------------------------------------
(* POST /exams                                                             *)

CreateBegin == Begin(Creator, "draw") /\ UNCHANGED <<tables, locals>>

\* The questions of one entry are listed and some of them taken at random; the
\* entries are drawn for independently, in the order of the request.
CreateDraw(k) ==
    /\ k \in left
    /\ \/ /\ \E S \in SUBSET (Pool[k] \cap bank) :
                /\ Cardinality(S) = Count[k]
                /\ drawn' = drawn \cup ({k} \X S)
          /\ left' = left \ {k}
          /\ Step(Creator, "draw", IF left = {k} THEN "insert" ELSE "draw")
       \/ /\ Cardinality(Pool[k] \cap bank) < Count[k]
          /\ Step(Creator, "draw", "refused")
          /\ UNCHANGED <<drawn, left>>
    /\ UNCHANGED <<tables, visit, glitches>>

\* Unless the total asked for is another one, the row is created as a draft.
CreateInsert ==
    /\ \/ Step(Creator, "insert", "store") /\ exam' = "draft"
       \/ Step(Creator, "insert", "refused") /\ UNCHANGED exam
    /\ UNCHANGED <<paper, bank, attempts, clock, locals>>

\* ReplaceExamQuestions: a transaction of its own, without a look at the exam.
\* The questions are then counted for the answer, which may fail.
CreateStore ==
    /\ \E to \in {"done", "failed"} : Step(Creator, "store", to)
    /\ paper' = drawn
    /\ UNCHANGED <<exam, bank, attempts, clock, locals>>

-----------------------------------------------------------------------------
(* POST /exams/:id/publish and /close, DELETE /exams/:id                   *)

Found(q) == exam # "none" /\ q \in Entitled

ManageLoad(q) ==
    /\ Begin(q, IF ~Found(q) THEN "refused"
                ELSE IF q \in Publishes THEN "count"
                ELSE IF q \in Closes THEN "update" ELSE "delete")
    /\ UNCHANGED <<tables, locals>>

PublishCount(p) ==
    /\ Step(p, "count", IF paper = {} THEN "refused" ELSE "update")
    /\ UNCHANGED <<tables, locals>>

\* Mutant of StatusUpdate: closing makes the exam a draft again.
StatusUpdateReopens(q) ==
    /\ IF exam = "none"
       THEN Step(q, "update", "refused") /\ UNCHANGED exam
       ELSE /\ Step(q, "update", "done")
            /\ exam' = IF q \in Publishes THEN "published" ELSE "draft"
    /\ UNCHANGED <<paper, bank, attempts, clock, locals>>

\* UpdateExam writes the status whatever it is by now; the other columns never
\* change.  No row is affected when the exam is gone.
StatusUpdate(q) ==
    /\ IF exam = "none"
       THEN Step(q, "update", "refused") /\ UNCHANGED exam
       ELSE /\ Step(q, "update", "done")
            /\ exam' = IF q \in Publishes THEN "published" ELSE "closed"
    /\ UNCHANGED <<paper, bank, attempts, clock, locals>>

\* Mutant of DeleteExam: the paper is left behind.
DeleteExamRowOnly(d) ==
    /\ Step(d, "delete", IF exam = "none" THEN "refused" ELSE "done")
    /\ exam' = "none"
    /\ UNCHANGED <<paper, bank, attempts, clock, locals>>

\* One transaction, rolled back when the exam is gone already.
DeleteExam(d) ==
    /\ IF exam = "none"
       THEN Step(d, "delete", "refused") /\ UNCHANGED <<exam, paper>>
       ELSE Step(d, "delete", "done") /\ exam' = "none" /\ paper' = {}
    /\ UNCHANGED <<bank, attempts, clock, locals>>

-----------------------------------------------------------------------------
(* POST /exams/:id/attempts and GET /exams/:id/attempts/current            *)

\* The attempts FindInProgressAttempt picks the newest of.
Unfinished(st) == {i \in DOMAIN attempts : /\ attempts[i].student = st
                                           /\ attempts[i].status = "in_progress"}

\* A visit begins; attempts submitted by then are its past.
VisitBegin(v, to) ==
    /\ Begin(v, to)
    /\ visit' = [visit EXCEPT ![v].past =
          {i \in DOMAIN attempts : attempts[i].status = "submitted"}]
    /\ UNCHANGED <<tables, drawn, left, glitches>>

\* Mutant of StartLoad: only drafts cannot be started.
StartLoadNotDraft(s) ==
    VisitBegin(s, IF exam \in {"published", "closed"} /\ clock = "open"
                  THEN "find" ELSE "refused")

\* A Start reads the exam first.
StartLoad(s) ==
    VisitBegin(s, IF exam = "published" /\ clock = "open" THEN "find" ELSE "refused")

CurrentBegin(v) == VisitBegin(v, "find")

\* Mutant of VisitFind: a start does not look for an unfinished attempt.
VisitFindNone(v) ==
    /\ Step(v, "find", IF v \in Starts THEN "paper" ELSE "refused")
    /\ UNCHANGED <<tables, locals>>
\* Mutant of VisitFind: finished attempts are found too.
VisitFindAny(v) ==
    LET found == {i \in DOMAIN attempts : attempts[i].student = visit[v].student}
    IN  /\ IF found = {}
           THEN /\ Step(v, "find", IF v \in Starts THEN "paper" ELSE "refused")
                /\ UNCHANGED visit
           ELSE /\ Step(v, "find", IF v \in Starts THEN "items" ELSE "exam")
                /\ \E i \in found : /\ \A j \in found : j <= i
                                    /\ visit' = [visit EXCEPT ![v].attempt = i]
        /\ UNCHANGED <<tables, drawn, left, glitches>>

VisitFind(v) ==
    LET found == Unfinished(visit[v].student)
    IN  /\ IF found = {}
           THEN /\ Step(v, "find", IF v \in Starts THEN "paper" ELSE "refused")
                /\ UNCHANGED visit
           ELSE /\ Step(v, "find", IF v \in Starts THEN "items" ELSE "exam")
                /\ \E i \in found : /\ \A j \in found : j <= i
                                    /\ visit' = [visit EXCEPT ![v].attempt = i]
        /\ UNCHANGED <<tables, drawn, left, glitches>>

\* The paper is listed and shuffled, and the options of its questions are; a
\* question that is missing keeps its place.
StartPaper(s) == /\ Step(s, "paper", IF paper = {} THEN "refused" ELSE "create")
                 /\ visit' = [visit EXCEPT ![s].todo = paper]
                 /\ UNCHANGED <<tables, drawn, left, glitches>>

StartCreate(s) ==
    /\ Step(s, "create", "items")
    /\ attempts' = Append(attempts,
          [student |-> visit[s].student, status |-> "in_progress",
           items |-> visit[s].todo, by |-> s])
    /\ visit' = [visit EXCEPT ![s].attempt = Len(attempts')]
    /\ UNCHANGED <<exam, paper, bank, clock, drawn, left, glitches>>

CurrentExam(v) == /\ Step(v, "exam", IF exam = "none" THEN "refused" ELSE "items")
                  /\ UNCHANGED <<tables, locals>>

\* startResponse: the rows of the paper that are in the attempt's order.
VisitItems(v) ==
    /\ Step(v, "items", "read")
    /\ visit' = [visit EXCEPT ![v].todo = paper \cap attempts[visit[v].attempt].items]
    /\ UNCHANGED <<tables, drawn, left, glitches>>

\* Mutant of VisitRead: the last question is left out.
VisitReadButLast(v) ==
    LET todo == visit[v].todo
    IN  /\ IF Cardinality(todo) <= 1
           THEN Step(v, "read", "done") /\ UNCHANGED <<visit, glitches>>
           ELSE /\ Step(v, "read", "read")
                /\ \E r \in todo :
                      /\ visit' = [visit EXCEPT ![v].todo = @ \ {r},
                                                ![v].views = @ \cup {r}]
                      /\ r[2] \in bank
                /\ UNCHANGED glitches
        /\ UNCHANGED <<tables, drawn, left>>

\* Its questions are read one by one, in the shuffled order; one that is
\* missing, or whose query errs, is left out.
VisitRead(v) ==
    LET todo == visit[v].todo
    IN  /\ IF todo = {}
           THEN Step(v, "read", "done") /\ UNCHANGED <<visit, glitches>>
           ELSE /\ Step(v, "read", "read")
                /\ \E r \in todo :
                      \/ /\ r[2] \in bank
                         /\ visit' = [visit EXCEPT ![v].todo = @ \ {r},
                                                   ![v].views = @ \cup {r}]
                         /\ UNCHANGED glitches
                      \/ /\ visit' = [visit EXCEPT ![v].todo = @ \ {r}]
                         /\ IF r[2] \in bank
                            THEN glitches < MaxGlitches /\ glitches' = glitches + 1
                            ELSE UNCHANGED glitches
        /\ UNCHANGED <<tables, drawn, left>>

\* A query errs, the client goes away or the process ends.
Fail(q) == /\ pc[q] \in Running
           /\ Goto(q, "failed")
           /\ UNCHANGED <<tables, locals, before>>

-----------------------------------------------------------------------------
(* The rest of the server and the clock.                                   *)

others == <<pc, before, locals>>

SubmitAttempt(i) == /\ attempts[i].status = "in_progress"
                    /\ attempts' = [attempts EXCEPT ![i].status = "submitted"]
                    /\ UNCHANGED <<exam, paper, bank, clock, others>>

DeleteQuestion(q) == /\ q \in bank
                     /\ bank' = bank \ {q}
                     /\ UNCHANGED <<exam, paper, attempts, clock, others>>

Tick == /\ clock # "over"
        /\ clock' = IF clock = "early" THEN "open" ELSE "over"
        /\ UNCHANGED <<exam, paper, bank, attempts, others>>

Next == \/ CreateBegin \/ CreateInsert \/ CreateStore
        \/ \E k \in Configs : CreateDraw(k)
        \/ \E q \in Publishes \cup Closes \cup Deletes : ManageLoad(q)
        \/ \E p \in Publishes : PublishCount(p)
        \/ \E q \in Publishes \cup Closes : StatusUpdate(q)
        \/ \E d \in Deletes : DeleteExam(d)
        \/ \E s \in Starts : StartLoad(s) \/ StartPaper(s) \/ StartCreate(s)
        \/ \E v \in Currents : CurrentBegin(v) \/ CurrentExam(v)
        \/ \E v \in Visits : VisitFind(v) \/ VisitItems(v) \/ VisitRead(v)
        \/ \E q \in Requests : Fail(q)
        \/ \E i \in DOMAIN attempts : SubmitAttempt(i)
        \/ \E q \in Questions : DeleteQuestion(q)
        \/ Tick

Spec == Init /\ [][Next]_vars

-----------------------------------------------------------------------------
(* Safety.                                                                 *)

\* An exam students can start has questions, although it is created and its
\* paper stored in two transactions (service_exam.go:76) and others publish,
\* close and delete it at any point.
PublishedHasPaper == exam = "published" => paper # {}

\* The paper is stored whole or not at all, as the configuration asks for it
\* (repository_exam.go:100 "atomically").
PaperWhole == paper # {} => Complete(paper)

\* Questions of an exam that does not exist are left behind only when the
\* deletion began before the creation was answered.
OrphansOnlyByOverlap ==
    exam = "none" /\ paper # {} =>
        \E d \in Deletes : pc[d] = "done" /\ Creator \notin before[d]

\* What creation, publication and deletion guarantee together.
PaperSound == PublishedHasPaper /\ PaperWhole /\ OrphansOnlyByOverlap

\* A close that was answered stands, although requests write back what they
\* read before (service_exam.go:145), unless a publication overlapped with it
\* or came later.
CloseSticks ==
    \A c \in Closes : pc[c] = "done" /\ exam # "none" =>
        \/ exam = "closed"
        \/ \E p \in Publishes : pc[p] = "done" /\ p \notin before[c]

\* After a close attempts are created only by starts that had begun before it
\* was answered, unless a publication overlapped with it or came later.
ClosedToNewStarts ==
    \A i \in DOMAIN attempts :
        \A c \in Closes \cap before[attempts[i].by] :
            \E p \in Publishes : pc[p] = "done" /\ p \notin before[c]

\* Every attempt is of the whole paper, and of one question at least, although
\* the exam may go away while it is created.
AttemptsWhole ==
    \A i \in DOMAIN attempts : /\ Complete(attempts[i].items)
                               /\ exam # "none" => attempts[i].items = paper

\* Two unfinished attempts of one student come from starts that overlapped
\* (service_attempt.go:66): later starts resume.
DoubleOnlyByOverlap ==
    \A i, j \in DOMAIN attempts :
        (/\ i < j /\ attempts[i].student = attempts[j].student
         /\ attempts[i].status = "in_progress") =>
            attempts[i].by \notin before[attempts[j].by]

\* Attempts are whole, and a start or current answered with success serves one
\* of its own student, with every question, unless the exam or a question was
\* deleted or an error was swallowed.
ServedWhole ==
    /\ AttemptsWhole
    /\ \A v \in Visits : pc[v] = "done" =>
          LET a == attempts[visit[v].attempt]
          IN  /\ a.student = visit[v].student
              /\ (exam # "none" /\ bank = Questions /\ glitches = 0) =>
                    visit[v].views = a.items

\* An attempt that was submitted before a start or current began is not served
\* again: who comes back after submission gets a new paper, or none.
PastIsPast == \A v \in Visits : pc[v] = "done" => visit[v].attempt \notin visit[v].past

-----------------------------------------------------------------------------
(* What the comments say and the code does not do.                         *)

\* service_exam.go:152 "Close stops new attempts for an exam": as long as
\* nobody publishes again, no attempt is created once a close is answered.
CloseStopsAttempts ==
    [][(\E c \in Closes : /\ pc[c] = "done"
                          /\ \A p \in Publishes : pc[p] = "idle" \/ p \in before[c])
          => Len(attempts') = Len(attempts)]_vars

\* service_attempt.go:49 "creates or resumes a student attempt", :118 "the
\* student's current unfinished attempt": a student has one at most.
OneUnfinishedAttempt == \A st \in Students : Cardinality(Unfinished(st)) <= 1
=============================================================================
