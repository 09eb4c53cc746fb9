------------------------------- MODULE Attempt -------------------------------
(***************************************************************************)
(* One exam attempt from its first saved answer to its graded score:       *)
(* AttemptService.SaveAnswer and Submit of the student, Grade of a         *)
(* teacher.  None of them opens a transaction: each reads the attempt, its *)
(* paper and its answers into local variables and writes rows back one     *)
(* statement at a time, so any other request may run between two steps and *)
(* a failure leaves what was already written.  One action is one query of  *)
(* one request with the local code that follows it.                        *)
(*                                                                         *)
(* Item i of the paper stands for its row of exam_questions and for the    *)
(* question it refers to; items are numbered by sort_order.  What a        *)
(* student wrote for an objective item is "right" or "wrong".  The answer  *)
(* key, type and score of an item do not change while it is graded.        *)
(***************************************************************************)
EXTENDS Integers, FiniteSetsExt, Functions

CONSTANTS Items,        \* items of the paper
          Objective,    \* those of a type graded automatically
          Full,         \* Full[i]: the score of item i
          Saves, Submits, Grades,   \* requests
          Entitled,     \* requests of the attempt's student, or of a teacher
                        \* or admin in charge of the exam
          NoGrade,      \* graded_by of a row nobody graded
          MaxGlitches   \* bound on the errors findQuestion swallows

Requests == Saves \cup Submits \cup Grades

ASSUME ConstantsAssumption ==
    /\ Items \subseteq Nat /\ Items # {} /\ IsFiniteSet(Items)
    /\ Objective \subseteq Items
    /\ Full \in [Items -> Nat \ {0}]
    /\ Entitled \subseteq Requests
    /\ Saves \cap Submits = {} /\ Grades \cap (Saves \cup Submits) = {}
    /\ NoGrade \notin Grades
    /\ MaxGlitches \in Nat

VARIABLES
    paper,      \* table exam_questions; empty once the exam is deleted
    questions,  \* table questions: the items whose question is not deleted
    late,       \* is the deadline over?
    attempt,    \* the row of exam_attempts
    stored,     \* the items with a row in table answers
    rows,       \* those rows; Blank for an item without one
    book,       \* table wrong_questions: the items put in it
    save, submit, grade,    \* local state of the requests
    glitches,   \* errors findQuestion swallowed so far (history, bound)
    crossed,    \* requests that overlapped with another one (history)
    unsummed    \* row scores changed since total_score was written (history)

tables == <<paper, questions, late, attempt, stored, rows, book>>
vars == <<tables, save, submit, grade, glitches, crossed, unsummed>>

-----------------------------------------------------------------------------
Texts == {"none", "right", "wrong", "written"}

\* What a student may write for item i.
TextsFor(i) == IF i \in Objective THEN {"right", "wrong"} ELSE {"written"}

Row == [text : Texts, correct : {"nil", "yes", "no"}, score : Nat,
        by : Grades \cup {NoGrade}]

\* The zero model.Answer: what answerMap yields for an item without a row.
Blank == [text |-> "none", correct |-> "nil", score |-> 0, by |-> NoGrade]

SaveSteps == {"find_item", "find_row", "update", "insert"}
SubmitSteps == {"items", "answers", "question", "find_row", "update",
                "insert", "finish", "collect"}
GradeSteps == {"exam", "items", "answers", "question", "update", "add", "finish"}

Save == [pc : {"idle"} \cup SaveSteps \cup {"done", "refused", "failed"},
         item : Nat, text : Texts \ {"none"}]

Submit == [pc : {"idle"} \cup SubmitSteps \cup {"done", "refused", "failed"},
           todo : SUBSET Items,          \* items still to grade
           text : [Items -> Texts],      \* answerMap
           sum : Nat,                    \* objectiveTotal
           wrong : SUBSET Items]         \* wrongItems

Grade == [pc : {"idle"} \cup GradeSteps \cup {"done", "refused", "failed"},
          todo : SUBSET Items,           \* items still to grade, then to add
          score : [Items -> Nat],        \* the scores sent for them
          paper : SUBSET Items,          \* questionMap
          have : SUBSET Items,           \* the keys of answerMap
          rows : [Items -> Row],         \* answerMap
          objective : Nat,               \* attempt.ObjectiveScore as loaded
          status : {"in_progress", "submitted"},  \* attempt.Status as loaded
          sum : Nat,                     \* total
          item : Nat]                    \* the item being written

TypeOK == /\ paper \subseteq Items /\ questions \subseteq Items
          /\ late \in BOOLEAN
          /\ attempt \in [status : {"in_progress", "submitted"},
                          objective : Nat, total : Nat]
          /\ stored \subseteq Items
          /\ rows \in [Items -> Row]
          /\ book \subseteq Items
          /\ save \in [Saves -> Save]
          /\ submit \in [Submits -> Submit]
          /\ grade \in [Grades -> Grade]
          /\ glitches \in 0..MaxGlitches
          /\ crossed \subseteq Requests
          /\ unsummed \in BOOLEAN

\* The scores a teacher may send for the items of S; all above Full[i] are
\* refused alike and all for objective items are ignored.
ScoresFor(S) == {f \in [Items -> UNION {0..(Full[i] + 1) : i \in Items}] :
                    \A i \in Items : f[i] <= IF i \in S \ Objective
                                            THEN Full[i] + 1 ELSE 0}

\* An attempt in progress, with the answers saved so far.

Init ==
    /\ paper = Items /\ questions = Items
    /\ late = FALSE
    /\ attempt = [status |-> "in_progress", objective |-> 0, total |-> 0]
    /\ rows \in [Items -> {[Blank EXCEPT !.text = t] : t \in Texts}]
    /\ \A i \in Items : rows[i].text \in TextsFor(i) \cup {"none"}
    /\ stored = {i \in Items : rows[i].text # "none"}
    /\ book = {}
    /\ save \in [Saves -> [pc : {"idle"}, item : Items, text : Texts]]
    /\ \A s \in Saves : save[s].text \in TextsFor(save[s].item)
    /\ submit = [b \in Submits |->
          [pc |-> "idle", todo |-> {}, text |-> [i \in Items |-> "none"],
           sum |-> 0, wrong |-> {}]]
    /\ \E sent \in [Grades -> SUBSET Items \ {{}}] :
          \E scores \in [Grades -> UNION {ScoresFor(sent[g]) : g \in Grades}] :
             /\ \A g \in Grades : scores[g] \in ScoresFor(sent[g])
             /\ grade = [g \in Grades |->
                   [pc |-> "idle", todo |-> sent[g], score |-> scores[g],
                    paper |-> {}, have |-> {}, rows |-> [i \in Items |-> Blank],
                    objective |-> 0, status |-> "in_progress", sum |-> 0,
                    item |-> 0]]
    /\ glitches = 0
    /\ crossed = {}
    /\ unsummed = FALSE

-----------------------------------------------------------------------------
InFlight == {q \in Saves : save[q].pc \in SaveSteps}
                \cup {q \in Submits : submit[q].pc \in SubmitSteps}
                \cup {q \in Grades : grade[q].pc \in GradeSteps}

\* Request q starts while the requests in flight run.  Two saves do not count:
\* the client sends one per change and the last one written wins.
Overlap(q) ==
    LET others == {p \in InFlight : ~(p \in Saves /\ q \in Saves)}
    IN  crossed' = IF others = {} THEN crossed ELSE crossed \cup others \cup {q}

\* findQuestion: an error reads as a missing question.
QuestionFound(i) == i \in questions /\ UNCHANGED glitches
QuestionMissed(i) == \/ i \notin questions /\ UNCHANGED glitches
                     \/ /\ i \in questions
                        /\ glitches < MaxGlitches
                        /\ glitches' = glitches + 1

\* Repository.SaveAnswer first looks for the row; the index idx_attempt_question
\* refuses a second one, and the request can then only fail.
Updates(i, row) == /\ rows' = [rows EXCEPT ![i] = row]
                   /\ UNCHANGED stored
Inserts(i, row) == /\ i \notin stored
                   /\ stored' = stored \cup {i}
                   /\ rows' = [rows EXCEPT ![i] = row]

-----------------------------------------------------------------------------
(* POST /attempts/:id/answers                                              *)

SaveGoto(s, pc) == save' = [save EXCEPT ![s].pc = pc]

\* Only the student, before submission and deadline.
SaveLoad(s) ==
    /\ save[s].pc = "idle"
    /\ \/ /\ s \in Entitled /\ attempt.status = "in_progress" /\ ~late
          /\ SaveGoto(s, "find_item")
          /\ Overlap(s)
       \/ /\ s \notin Entitled \/ attempt.status # "in_progress" \/ late
          /\ SaveGoto(s, "refused")
          /\ UNCHANGED crossed
    /\ UNCHANGED <<tables, submit, grade, glitches, unsummed>>

SaveFindItem(s) ==
    /\ save[s].pc = "find_item"
    /\ SaveGoto(s, IF save[s].item \in paper THEN "find_row" ELSE "refused")
    /\ UNCHANGED <<tables, submit, grade, glitches, crossed, unsummed>>

SaveFindRow(s) ==
    /\ save[s].pc = "find_row"
    /\ SaveGoto(s, IF save[s].item \in stored THEN "update" ELSE "insert")
    /\ UNCHANGED <<tables, submit, grade, glitches, crossed, unsummed>>

\* The row is written whole: ungraded, whatever it was before.
SavedRow(s) == [Blank EXCEPT !.text = save[s].text]

SaveWrite(s) ==
    /\ \/ save[s].pc = "update" /\ Updates(save[s].item, SavedRow(s))
       \/ save[s].pc = "insert" /\ Inserts(save[s].item, SavedRow(s))
    /\ SaveGoto(s, "done")
    /\ UNCHANGED <<paper, questions, late, attempt, book, submit, grade,
                   glitches, crossed, unsummed>>

SaveFail(s) ==
    /\ save[s].pc \in SaveSteps
    /\ SaveGoto(s, "failed")
    /\ UNCHANGED <<tables, submit, grade, glitches, crossed, unsummed>>

SaveStep(s) == SaveLoad(s) \/ SaveFindItem(s) \/ SaveFindRow(s) \/ SaveWrite(s)

-----------------------------------------------------------------------------
(* POST /attempts/:id/submit                                               *)

SubmitGoto(b, pc) == submit' = [submit EXCEPT ![b].pc = pc]

\* Only the student, and only once; the deadline is not looked at.
SubmitLoad(b) ==
    /\ submit[b].pc = "idle"
    /\ \/ /\ b \in Entitled /\ attempt.status = "in_progress"
          /\ SubmitGoto(b, "items")
          /\ Overlap(b)
       \/ /\ b \notin Entitled \/ attempt.status # "in_progress"
          /\ SubmitGoto(b, "refused")
          /\ UNCHANGED crossed
    /\ UNCHANGED <<tables, save, grade, glitches, unsummed>>

SubmitItems(b) ==
    /\ submit[b].pc = "items"
    /\ submit' = [submit EXCEPT ![b].pc = "answers", ![b].todo = paper]
    /\ UNCHANGED <<tables, save, grade, glitches, crossed, unsummed>>

\* Where the loop over the items stands when S is left to do.
Onwards(S) == IF S = {} THEN "finish" ELSE "question"

\* The answers as they are now are graded, and written back, from here on.
SubmitAnswers(b) ==
    /\ submit[b].pc = "answers"
    /\ submit' = [submit EXCEPT ![b].pc = Onwards(submit[b].todo),
                                ![b].text = [i \in Items |-> rows[i].text]]
    /\ UNCHANGED <<tables, save, grade, glitches, crossed, unsummed>>

\* The item the loop is at: the first in sort order.
Current(b) == Min(submit[b].todo)

IsRight(b, i) == submit[b].text[i] = "right"

\* Mutant of SubmitQuestion: any answer scores.
SubmitQuestionAnyAnswer(b) ==
    /\ submit[b].pc = "question"
    /\ LET i == Current(b)
       IN  /\ QuestionFound(i)
           /\ submit' = [submit EXCEPT
                 ![b].pc = "find_row",
                 ![b].sum = @ + IF submit[b].text[i] # "none" THEN Full[i] ELSE 0]
    /\ UNCHANGED <<tables, save, grade, crossed, unsummed>>

\* The item's question is read; an item without one is left out altogether.
SubmitQuestion(b) ==
    /\ submit[b].pc = "question"
    /\ LET i == Current(b)
       IN  \/ /\ QuestionFound(i)
              /\ submit' = [submit EXCEPT
                    ![b].pc = "find_row",
                    ![b].sum = @ + IF i \in Objective /\ IsRight(b, i)
                                THEN Full[i] ELSE 0,
                    ![b].wrong = @ \cup IF i \in Objective /\ ~IsRight(b, i)
                                     THEN {i} ELSE {}]
           \/ /\ QuestionMissed(i)
              /\ submit' = [submit EXCEPT
                    ![b].pc = Onwards(submit[b].todo \ {i}), ![b].todo = @ \ {i}]
    /\ UNCHANGED <<tables, save, grade, crossed, unsummed>>

SubmitFindRow(b) ==
    /\ submit[b].pc = "find_row"
    /\ SubmitGoto(b, IF Current(b) \in stored THEN "update" ELSE "insert")
    /\ UNCHANGED <<tables, save, grade, glitches, crossed, unsummed>>

\* Mutant of GradedRow: a subjective answer is stored without its text.
GradedRowNoText(b, i) ==
    IF i \in Objective
    THEN [text |-> submit[b].text[i], by |-> NoGrade,
          correct |-> IF IsRight(b, i) THEN "yes" ELSE "no",
          score |-> IF IsRight(b, i) THEN Full[i] ELSE 0]
    ELSE Blank

\* The row as graded; an item without a row gets one.
GradedRow(b, i) ==
    IF i \in Objective
    THEN [text |-> submit[b].text[i], by |-> NoGrade,
          correct |-> IF IsRight(b, i) THEN "yes" ELSE "no",
          score |-> IF IsRight(b, i) THEN Full[i] ELSE 0]
    ELSE [Blank EXCEPT !.text = submit[b].text[i]]

SubmitWrite(b) ==
    /\ LET i == Current(b)
       IN  /\ \/ submit[b].pc = "update" /\ Updates(i, GradedRow(b, i))
              \/ submit[b].pc = "insert" /\ Inserts(i, GradedRow(b, i))
           /\ submit' = [submit EXCEPT
                 ![b].pc = Onwards(submit[b].todo \ {i}), ![b].todo = @ \ {i}]
    /\ UNCHANGED <<paper, questions, late, attempt, book, save, grade,
                   glitches, crossed, unsummed>>

\* Mutants of SubmitFinish: nothing is collected; the total is not written.
SubmitFinishOnly(b) ==
    /\ submit[b].pc = "finish"
    /\ attempt' = [status |-> "submitted", objective |-> submit[b].sum,
                   total |-> submit[b].sum]
    /\ SubmitGoto(b, "done")
    /\ unsummed' = FALSE
    /\ UNCHANGED <<paper, questions, late, stored, rows, book, save, grade,
                   glitches, crossed>>

SubmitFinishNoTotal(b) ==
    /\ submit[b].pc = "finish"
    /\ attempt' = [attempt EXCEPT !.status = "submitted", !.objective = submit[b].sum]
    /\ SubmitGoto(b, IF submit[b].wrong = {} THEN "done" ELSE "collect")
    /\ unsummed' = FALSE
    /\ UNCHANGED <<paper, questions, late, stored, rows, book, save, grade,
                   glitches, crossed>>

\* UpdateAttempt writes the attempt whatever its row holds by now.
SubmitFinish(b) ==
    /\ submit[b].pc = "finish"
    /\ attempt' = [status |-> "submitted", objective |-> submit[b].sum,
                   total |-> submit[b].sum]
    /\ SubmitGoto(b, IF submit[b].wrong = {} THEN "done" ELSE "collect")
    /\ unsummed' = FALSE
    /\ UNCHANGED <<paper, questions, late, stored, rows, book, save, grade,
                   glitches, crossed>>

\* UpsertWrongQuestion, one wrong item after the other.
SubmitCollect(b) ==
    /\ submit[b].pc = "collect"
    /\ LET i == Min(submit[b].wrong)
       IN  /\ book' = book \cup {i}
           /\ submit' = [submit EXCEPT
                 ![b].wrong = @ \ {i},
                 ![b].pc = IF submit[b].wrong = {i} THEN "done" ELSE "collect"]
    /\ UNCHANGED <<paper, questions, late, attempt, stored, rows, save, grade,
                   glitches, crossed, unsummed>>

SubmitFail(b) ==
    /\ submit[b].pc \in SubmitSteps
    /\ SubmitGoto(b, "failed")
    /\ UNCHANGED <<tables, save, grade, glitches, crossed, unsummed>>

SubmitStep(b) == \/ SubmitLoad(b) \/ SubmitItems(b) \/ SubmitAnswers(b)
                 \/ SubmitQuestion(b) \/ SubmitFindRow(b) \/ SubmitWrite(b)
                 \/ SubmitFinish(b) \/ SubmitCollect(b)

-----------------------------------------------------------------------------
(* PUT /attempts/:id/grade                                                 *)

GradeGoto(g, pc) == grade' = [grade EXCEPT ![g].pc = pc]

\* The attempt as it is now is what UpdateAttempt writes back at the end.
GradeLoad(g) ==
    /\ grade[g].pc = "idle"
    /\ \/ /\ attempt.status = "submitted"
          /\ grade' = [grade EXCEPT
                ![g].pc = "exam", ![g].status = attempt.status,
                ![g].objective = attempt.objective]
          /\ Overlap(g)
       \/ /\ attempt.status # "submitted"
          /\ GradeGoto(g, "refused")
          /\ UNCHANGED crossed
    /\ UNCHANGED <<tables, save, submit, glitches, unsummed>>

\* Mutant of GradeExam: any teacher may grade.
GradeExamAnyTeacher(g) ==
    /\ grade[g].pc = "exam"
    /\ GradeGoto(g, IF paper # {} THEN "items" ELSE "refused")
    /\ UNCHANGED <<tables, save, submit, glitches, crossed, unsummed>>

\* The exam must exist and, for a teacher, be his own.
GradeExam(g) ==
    /\ grade[g].pc = "exam"
    /\ GradeGoto(g, IF paper # {} /\ g \in Entitled THEN "items" ELSE "refused")
    /\ UNCHANGED <<tables, save, submit, glitches, crossed, unsummed>>

GradeItems(g) ==
    /\ grade[g].pc = "items"
    /\ grade' = [grade EXCEPT ![g].pc = "answers", ![g].paper = paper]
    /\ UNCHANGED <<tables, save, submit, glitches, crossed, unsummed>>

GradeAnswers(g) ==
    /\ grade[g].pc = "answers"
    /\ grade' = [grade EXCEPT
          ![g].pc = "question", ![g].have = stored, ![g].rows = rows]
    /\ UNCHANGED <<tables, save, submit, glitches, crossed, unsummed>>

\* Mutant of Skips: objective items are not skipped.
SkipsUnanswered(g, i) == i \notin grade[g].have

Skips(g, i) == i \in Objective \/ i \notin grade[g].have

\* One item of the request, which lists them in any order.  A missing
\* question, an objective item and an item without an answer are skipped; an
\* item off the paper or a score too high ends the request half done.
GradeQuestion(g) ==
    /\ grade[g].pc = "question"
    /\ \E i \in grade[g].todo :
          \/ /\ i \notin grade[g].paper
             /\ GradeGoto(g, "refused")
             /\ UNCHANGED glitches
          \/ /\ i \in grade[g].paper
             /\ \/ QuestionMissed(i)
                \/ QuestionFound(i) /\ Skips(g, i)
             /\ grade' = [grade EXCEPT ![g].todo = @ \ {i}]
          \/ /\ i \in grade[g].paper /\ QuestionFound(i) /\ ~Skips(g, i)
             /\ IF grade[g].score[i] > Full[i]
                THEN GradeGoto(g, "refused")
                ELSE grade' = [grade EXCEPT
                        ![g].pc = "update", ![g].item = i]
    /\ UNCHANGED <<tables, save, submit, crossed, unsummed>>

\* The answer as it was read, with the score; its row is there for good.
ScoredRow(g) == LET i == grade[g].item
                IN  [grade[g].rows[i] EXCEPT !.score = grade[g].score[i], !.by = g]

GradeWrite(g) ==
    /\ grade[g].pc = "update"
    /\ LET i == grade[g].item
       IN  /\ Updates(i, ScoredRow(g))
           /\ grade' = [grade EXCEPT
                 ![g].pc = "question", ![g].todo = @ \ {i},
                 ![g].rows = [@ EXCEPT ![i] = ScoredRow(g)]]
    /\ unsummed' = TRUE
    /\ UNCHANGED <<paper, questions, late, attempt, book, save, submit,
                   glitches, crossed>>

\* All items done: the total starts from the objective score as loaded.
GradeSum(g) ==
    /\ grade[g].pc = "question"
    /\ grade[g].todo = {}
    /\ grade' = [grade EXCEPT
          ![g].pc = "add", ![g].todo = grade[g].have, ![g].sum = grade[g].objective]
    /\ UNCHANGED <<tables, save, submit, glitches, crossed, unsummed>>

\* One entry of answerMap; questionTypeByAnswer takes the answer to a missing
\* question for an objective one and its score is not added.
GradeAdd(g) ==
    /\ grade[g].pc = "add"
    /\ \/ \E i \in grade[g].todo :
             /\ \/ /\ QuestionFound(i) /\ i \notin Objective
                   /\ grade' = [grade EXCEPT
                         ![g].todo = @ \ {i}, ![g].sum = @ + grade[g].rows[i].score]
                \/ /\ QuestionMissed(i) \/ (QuestionFound(i) /\ i \in Objective)
                   /\ grade' = [grade EXCEPT ![g].todo = @ \ {i}]
       \/ /\ grade[g].todo = {}
          /\ GradeGoto(g, "finish")
          /\ UNCHANGED glitches
    /\ UNCHANGED <<tables, save, submit, crossed, unsummed>>

\* UpdateAttempt writes status and objective score back as they were loaded.
GradeFinish(g) ==
    /\ grade[g].pc = "finish"
    /\ attempt' = [status |-> grade[g].status, objective |-> grade[g].objective,
                   total |-> grade[g].sum]
    /\ GradeGoto(g, "done")
    /\ unsummed' = FALSE
    /\ UNCHANGED <<paper, questions, late, stored, rows, book, save, submit,
                   glitches, crossed>>

GradeFail(g) ==
    /\ grade[g].pc \in GradeSteps
    /\ GradeGoto(g, "failed")
    /\ UNCHANGED <<tables, save, submit, glitches, crossed, unsummed>>

GradeStep(g) == \/ GradeLoad(g) \/ GradeExam(g) \/ GradeItems(g)
                \/ GradeAnswers(g) \/ GradeQuestion(g) \/ GradeWrite(g)
                \/ GradeSum(g) \/ GradeAdd(g) \/ GradeFinish(g)

-----------------------------------------------------------------------------
(* The rest of the server and the clock.                                   *)

locals == <<save, submit, grade, glitches, crossed, unsummed>>

\* ExamService.Delete: exam and paper go in one transaction, at any time.
DeleteExam == /\ paper # {}
              /\ paper' = {}
              /\ UNCHANGED <<questions, late, attempt, stored, rows, book, locals>>

\* QuestionService.Delete: nothing holds on to the question.
DeleteQuestion(i) == /\ i \in questions
                     /\ questions' = questions \ {i}
                     /\ UNCHANGED <<paper, late, attempt, stored, rows, book, locals>>

DeadlinePasses == /\ ~late
                  /\ late' = TRUE
                  /\ UNCHANGED <<paper, questions, attempt, stored, rows, book, locals>>

Next == \/ \E s \in Saves : SaveStep(s) \/ SaveFail(s)
        \/ \E b \in Submits : SubmitStep(b) \/ SubmitFail(b)
        \/ \E g \in Grades : GradeStep(g) \/ GradeFail(g)
        \/ DeleteExam
        \/ \E i \in Items : DeleteQuestion(i)
        \/ DeadlinePasses

Spec == Init /\ [][Next]_vars

-----------------------------------------------------------------------------
(* Safety.                                                                 *)

Points(S) == SumFunctionOnSet([i \in Items |-> rows[i].score], S)
FullPoints(S) == SumFunctionOnSet(Full, S)

\* A row is never half graded, whichever requests wrote it and in whatever
\* order: an objective answer is ungraded or carries the mark and the points
\* of the text stored with it; points of a subjective one come from a teacher
\* in charge and stay within the item's score.
RowsCoherent ==
    /\ TypeOK
    /\ \A i \in Items :
          IF i \in Objective
          THEN rows[i] \in {[Blank EXCEPT !.text = rows[i].text],
                            [text |-> "right", correct |-> "yes",
                             score |-> Full[i], by |-> NoGrade],
                            [text |-> rows[i].text, correct |-> "no",
                             score |-> 0, by |-> NoGrade]}
          ELSE /\ rows[i].correct = "nil"
               /\ rows[i].score <= Full[i]
               /\ rows[i].score > 0 => rows[i].by \in Entitled

\* However submissions and gradings cross, the totals a report shows stay
\* possible: the objective part within the objective items, the rest within
\* the subjective ones.
TotalsPossible ==
    /\ attempt.objective <= FullPoints(Objective)
    /\ attempt.objective <= attempt.total
    /\ attempt.total - attempt.objective <= FullPoints(Items \ Objective)

Intact == paper = Items /\ questions = Items /\ glitches = 0

\* At rest, a submitted attempt's scores are those of its answers, after
\* failed and repeated submissions and gradings too, as long as no two
\* requests overlapped and nobody deleted the exam or one of its questions.
SettledScores ==
    (Intact /\ crossed = {} /\ InFlight = {} /\ attempt.status = "submitted") =>
        /\ attempt.objective = Points(Objective)
        /\ ~unsummed => attempt.total = Points(Items)

\* A submission answered with success has graded the whole paper and put each
\* wrong answer in the book of wrong questions, unless it overlapped with
\* another request or the exam or a question went away; and nothing is put in
\* the book before the attempt is submitted.
SubmitComplete ==
    /\ \A b \in Submits :
          (submit[b].pc = "done" /\ b \notin crossed /\ Intact) =>
              /\ attempt.status = "submitted"
              /\ stored = Items
              /\ \A i \in Objective : /\ rows[i].correct # "nil"
                                      /\ rows[i].correct = "no" => i \in book
    /\ book # {} => attempt.status = "submitted"

(* Action properties.                                                      *)

LocalOf(q) == IF q \in Saves THEN save[q]
              ELSE IF q \in Submits THEN submit[q] ELSE grade[q]

\* Answers, scores and the book change only by a step of the attempt's student
\* or of a teacher in charge of its exam, even where a stranger's request got
\* past its first query.
StrangersKeptOut ==
    [][<<attempt, stored, rows, book>>' # <<attempt, stored, rows, book>> =>
          \E q \in Entitled : LocalOf(q)' # LocalOf(q)]_vars

\* A submission stands.  Without overlaps it keeps every answer it found: only a
\* save changes the text of a row.  And whatever overlaps, a submitted attempt is
\* never reopened, although a grading writes back the status it read long
\* before, and only submissions that crossed change its objective score.
SubmissionStands ==
    [][/\ \A i \in stored :
             (rows'[i].text # rows[i].text /\ crossed = {}) =>
                 \E s \in Saves : save[s].item = i /\ save'[s].pc = "done"
                                  /\ save[s].pc # "done"
       /\ attempt.status = "submitted" =>
             /\ attempt'.status = "submitted"
             /\ attempt'.objective # attempt.objective => crossed # {}]_vars

-----------------------------------------------------------------------------
(* What the code's messages and the documentation say and the code does    *)
(* not do.                                                                 *)

\* service_attempt.go:141 "the paper is submitted, answering is over": no
\* answer changes once the attempt is submitted.
NoAnswerAfterSubmit ==
    [][attempt.status = "submitted" => \A i \in Items : rows'[i].text = rows[i].text]_vars

\* README.md:12: wrong answers are collected automatically.  Once an attempt
\* is submitted and nothing runs, each answer graded wrong is in the book.
WrongAnswersCollected ==
    attempt.status = "submitted" /\ InFlight = {} =>
        \A i \in stored : rows[i].correct = "no" => i \in book
=============================================================================
