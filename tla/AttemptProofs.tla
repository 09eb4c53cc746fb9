--------------------------- MODULE AttemptProofs ---------------------------
(***************************************************************************)
(* Theorems about Attempt.tla, for any paper, any number of requests and   *)
(* any callers, and, in the second part, about Reports.tla, which reads    *)
(* what attempts leave, for any paper, users and numbers of requests and   *)
(* attempts.                                                               *)
(***************************************************************************)
EXTENDS Attempt, Reports, SequenceTheorems, SetTheorems

USE ConstantsAssumption

-----------------------------------------------------------------------------
(* Types.                                                                  *)

\* Where a request is, it is with something: a save with an item of the paper,
\* a submission with an item left to grade or to collect, a grading with an item.
Busy ==
    /\ \A s \in Saves : save[s].item \in Items
    /\ \A b \in Submits :
          /\ submit[b].pc \in {"question", "find_row", "update", "insert"} =>
                submit[b].todo # {}
          /\ submit[b].pc = "collect" => submit[b].wrong # {}
    /\ \A g \in Grades : grade[g].pc = "update" => grade[g].item \in Items

Typed == TypeOK /\ Busy

\* The item a submission is at is one it has still to do.
LEMMA AtItem ==
    ASSUME Typed, NEW b \in Submits
    PROVE  /\ submit[b].pc \in {"question", "find_row", "update", "insert"} =>
                 Current(b) \in submit[b].todo /\ Current(b) \in Items
           /\ submit[b].pc = "collect" =>
                 Min(submit[b].wrong) \in submit[b].wrong /\ Min(submit[b].wrong) \in Items
<1>1. submit[b].todo \subseteq Items /\ submit[b].wrong \subseteq Items
  BY DEF Typed, TypeOK, Submit
<1>2. submit[b].todo # {} => Min(submit[b].todo) \in submit[b].todo
  BY <1>1, MinIs
<1>3. submit[b].wrong # {} => Min(submit[b].wrong) \in submit[b].wrong
  BY <1>1, MinIs
<1> QED BY <1>1, <1>2, <1>3 DEF Typed, Busy, Current

\* The first state is typed.
LEMMA TypedInit == Init => Typed
<1> SUFFICES ASSUME Init PROVE Typed
  OBVIOUS
<1>1. Blank \in Row
  BY DEF Blank, Row, Texts
<1>2. rows \in [Items -> Row]
  BY DEF Init, Blank, Row, Texts
<1>3. save \in [Saves -> Save] /\ \A s \in Saves : save[s].item \in Items
  BY DEF Init, Save, Texts, TextsFor
<1>4. submit \in [Submits -> Submit]
  BY DEF Init, Submit, Texts
<1>5. grade \in [Grades -> Grade]
  <2>0. PICK sent \in [Grades -> SUBSET Items \ {{}}] :
          \E scores \in [Grades -> UNION {ScoresFor(sent[g]) : g \in Grades}] :
             /\ \A g \in Grades : scores[g] \in ScoresFor(sent[g])
             /\ grade = [g \in Grades |->
                   [pc |-> "idle", todo |-> sent[g], score |-> scores[g],
                    paper |-> {}, have |-> {}, rows |-> [i \in Items |-> Blank],
                    objective |-> 0, status |-> "in_progress", sum |-> 0,
                    item |-> 0]]
    BY DEF Init
  <2>1. PICK scores \in [Grades -> UNION {ScoresFor(sent[g]) : g \in Grades}] :
          /\ \A g \in Grades : scores[g] \in ScoresFor(sent[g])
          /\ grade = [g \in Grades |->
                   [pc |-> "idle", todo |-> sent[g], score |-> scores[g],
                    paper |-> {}, have |-> {}, rows |-> [i \in Items |-> Blank],
                    objective |-> 0, status |-> "in_progress", sum |-> 0,
                    item |-> 0]]
    BY <2>0
  <2>2. \A g \in Grades : scores[g] \in [Items -> Nat]
    <3> SUFFICES ASSUME NEW g \in Grades PROVE scores[g] \in [Items -> Nat]
      OBVIOUS
    <3>1. UNION {0..(Full[i] + 1) : i \in Items} \subseteq Nat
      OBVIOUS
    <3> QED BY <2>1, <3>1 DEF ScoresFor
  <2> QED BY <2>1, <2>2, <1>1 DEF Grade
<1>6. /\ paper = Items /\ questions = Items /\ late = FALSE /\ book = {} /\ crossed = {}
      /\ attempt = [status |-> "in_progress", objective |-> 0, total |-> 0]
      /\ stored \subseteq Items /\ glitches = 0 /\ unsummed = FALSE
  BY DEF Init
<1>7. /\ \A b \in Submits : submit[b].pc = "idle"
      /\ \A g \in Grades : grade[g].pc = "idle"
  BY DEF Init
<1>8. attempt \in [status : {"in_progress", "submitted"}, objective : Nat, total : Nat]
  BY <1>6
<1>9. late \in BOOLEAN /\ unsummed \in BOOLEAN
  BY <1>6, Zenon
<1> QED BY <1>2, <1>3, <1>4, <1>5, <1>6, <1>7, <1>8, <1>9 DEF Typed, TypeOK, Busy

\* Steps of a save keep the types.
LEMMA TypedSave ==
    ASSUME Typed, NEW s \in Saves, SaveStep(s) \/ SaveFail(s)
    PROVE  Typed'
<1> USE DEF Typed, TypeOK, Busy
<1>1. /\ save' \in [Saves -> Save]
      /\ \A t \in Saves : save'[t].item = save[t].item
  <2>1. PICK to \in {"find_item", "find_row", "update", "insert", "done", "refused", "failed"} :
           SaveGoto(s, to)
    BY DEF SaveStep, SaveFail, SaveLoad, SaveFindItem, SaveFindRow, SaveWrite
  <2> QED BY <2>1 DEF SaveGoto, Save, SaveSteps
<1>2. UNCHANGED <<paper, questions, late, attempt, book, submit, grade, glitches, unsummed>>
  BY DEF SaveStep, SaveFail, SaveLoad, SaveFindItem, SaveFindRow, SaveWrite, tables
<1>3. crossed' \subseteq Requests
  BY DEF SaveStep, SaveFail, SaveLoad, SaveFindItem, SaveFindRow, SaveWrite,
         Overlap, InFlight, Requests
<1>4. stored' \subseteq Items /\ rows' \in [Items -> Row]
  <2>1. SavedRow(s) \in Row
    BY DEF SavedRow, Blank, Row, Save
  <2>2. /\ rows' = rows \/ rows' = [rows EXCEPT ![save[s].item] = SavedRow(s)]
        /\ stored' = stored \/ stored' = stored \cup {save[s].item}
    BY DEF SaveStep, SaveFail, SaveLoad, SaveFindItem, SaveFindRow, SaveWrite, tables,
           Updates, Inserts
  <2>3. save[s].item \in Items /\ stored \subseteq Items /\ rows \in [Items -> Row]
    OBVIOUS
  <2>4. stored' \subseteq Items
    BY <2>2, <2>3
  <2>5. rows' \in [Items -> Row]
    BY <2>1, <2>2, <2>3
  <2> QED BY <2>4, <2>5
<1> QED BY <1>1, <1>2, <1>3, <1>4

\* Steps of a submission keep the types.
LEMMA TypedSubmit ==
    ASSUME Typed, NEW b \in Submits, SubmitStep(b) \/ SubmitFail(b)
    PROVE  Typed'
<1> USE DEF Typed, TypeOK, Busy
<1> DEFINE w == submit[b]
<1>0. w \in Submit
  OBVIOUS
<1>1. /\ submit' \in [Submits -> Submit]
      /\ \A c \in Submits :
          /\ submit'[c].pc \in {"question", "find_row", "update", "insert"} =>
                submit'[c].todo # {}
          /\ submit'[c].pc = "collect" => submit'[c].wrong # {}
  <2> DEFINE Goal ==
        /\ submit' \in [Submits -> Submit]
        /\ \A c \in Submits :
            /\ submit'[c].pc \in {"question", "find_row", "update", "insert"} =>
                  submit'[c].todo # {}
            /\ submit'[c].pc = "collect" => submit'[c].wrong # {}
      Fits(v) ==
        /\ v \in Submit
        /\ v.pc \in {"question", "find_row", "update", "insert"} => v.todo # {}
        /\ v.pc = "collect" => v.wrong # {}
  <2>0. ASSUME NEW v, submit' = [submit EXCEPT ![b] = v], Fits(v) PROVE Goal
    BY <2>0
  <2>1. CASE SubmitLoad(b)
    <3>1. PICK to \in {"items", "refused"} : submit' = [submit EXCEPT ![b] = [w EXCEPT !.pc = to]]
      BY <2>1 DEF SubmitLoad, SubmitGoto
    <3>2. Fits([w EXCEPT !.pc = to])
      BY <1>0 DEF Submit, SubmitSteps
    <3> QED BY <3>1, <3>2, <2>0
  <2>2. CASE SubmitItems(b)
    <3>1. Fits([w EXCEPT !.pc = "answers", !.todo = paper])
      BY <1>0 DEF Submit, SubmitSteps
    <3> QED BY <3>1, <2>0, <2>2 DEF SubmitItems
  <2>3. CASE SubmitAnswers(b)
    <3>1. [i \in Items |-> rows[i].text] \in [Items -> Texts]
      BY DEF Row
    <3>2. Fits([w EXCEPT !.pc = Onwards(w.todo), !.text = [i \in Items |-> rows[i].text]])
      BY <1>0, <3>1 DEF Submit, SubmitSteps, Onwards
    <3> QED BY <3>2, <2>0, <2>3 DEF SubmitAnswers
  <2>4. CASE SubmitQuestion(b)
    <3>0. Current(b) \in Items /\ w.todo # {}
      BY <2>4, AtItem DEF SubmitQuestion
    <3> DEFINE i == Current(b)
               n == w.sum + IF i \in Objective /\ IsRight(b, i) THEN Full[i] ELSE 0
               S == w.wrong \cup IF i \in Objective /\ ~IsRight(b, i) THEN {i} ELSE {}
    <3>1. n \in Nat /\ S \in SUBSET Items
      <4>1. w.sum \in Nat /\ w.wrong \subseteq Items /\ Full[i] \in Nat
        BY <1>0, <3>0 DEF Submit
      <4> QED BY <3>0, <4>1
    <3>2. Fits([w EXCEPT !.pc = "find_row", !.sum = n, !.wrong = S])
      <4> HIDE DEF n, S
      <4> QED BY <1>0, <3>0, <3>1 DEF Submit, SubmitSteps
    <3>3. Fits([w EXCEPT !.pc = Onwards(w.todo \ {i}), !.todo = w.todo \ {i}])
      <4> HIDE DEF i
      <4> QED BY <1>0 DEF Submit, SubmitSteps, Onwards
    <3>4. \/ submit' = [submit EXCEPT ![b] =
                [w EXCEPT !.pc = "find_row", !.sum = n, !.wrong = S]]
          \/ submit' = [submit EXCEPT ![b] =
                [w EXCEPT !.pc = Onwards(w.todo \ {i}), !.todo = w.todo \ {i}]]
      BY <2>4 DEF SubmitQuestion
    <3> QED BY <3>2, <3>3, <3>4, <2>0
  <2>5. CASE SubmitFindRow(b)
    <3>1. PICK to \in {"update", "insert"} : submit' = [submit EXCEPT ![b] = [w EXCEPT !.pc = to]]
      BY <2>5 DEF SubmitFindRow, SubmitGoto
    <3>2. Fits([w EXCEPT !.pc = to])
      BY <1>0, <2>5 DEF Submit, SubmitSteps, SubmitFindRow
    <3> QED BY <3>1, <3>2, <2>0
  <2>6. CASE SubmitWrite(b)
    <3>1. Fits([w EXCEPT !.pc = Onwards(w.todo \ {Current(b)}), !.todo = w.todo \ {Current(b)}])
      BY <1>0 DEF Submit, SubmitSteps, Onwards
    <3>2. submit' = [submit EXCEPT ![b] = [w EXCEPT
                    !.pc = Onwards(w.todo \ {Current(b)}), !.todo = w.todo \ {Current(b)}]]
      BY <2>6 DEF SubmitWrite
    <3> QED BY <3>1, <3>2, <2>0
  <2>7. CASE SubmitFinish(b)
    <3> DEFINE to == IF w.wrong = {} THEN "done" ELSE "collect"
    <3>1. submit' = [submit EXCEPT ![b] = [w EXCEPT !.pc = to]]
      BY <2>7 DEF SubmitFinish, SubmitGoto
    <3>2. Fits([w EXCEPT !.pc = to])
      BY <1>0 DEF Submit, SubmitSteps
    <3> QED BY <3>1, <3>2, <2>0
  <2>8. CASE SubmitCollect(b)
    <3> DEFINE i == Min(w.wrong)
               v == [w EXCEPT !.wrong = w.wrong \ {i},
                              !.pc = IF w.wrong = {i} THEN "done" ELSE "collect"]
    <3>1. submit' = [submit EXCEPT ![b] = v]
      BY <2>8 DEF SubmitCollect
    <3>2. i \in w.wrong
      BY <2>8, AtItem DEF SubmitCollect
    <3>3. w.wrong # {i} => w.wrong \ {i} # {}
      BY <3>2
    <3>4. Fits(v)
      <4> HIDE DEF i
      <4> QED BY <1>0, <3>3 DEF Submit, SubmitSteps
    <3> QED BY <3>1, <3>4, <2>0
  <2>9. CASE SubmitFail(b)
    <3>1. submit' = [submit EXCEPT ![b] = [w EXCEPT !.pc = "failed"]]
      BY <2>9 DEF SubmitFail, SubmitGoto
    <3>2. Fits([w EXCEPT !.pc = "failed"])
      BY <1>0 DEF Submit
    <3> QED BY <3>1, <3>2, <2>0
  <2> QED BY <2>1, <2>2, <2>3, <2>4, <2>5, <2>6, <2>7, <2>8, <2>9 DEF SubmitStep
<1>2. UNCHANGED <<paper, questions, late, save, grade>>
  BY DEF SubmitStep, SubmitFail, SubmitLoad, SubmitItems, SubmitAnswers, SubmitQuestion,
         SubmitFindRow, SubmitWrite, SubmitFinish, SubmitCollect, tables
<1>3. crossed' \subseteq Requests
  BY DEF SubmitStep, SubmitFail, SubmitLoad, SubmitItems, SubmitAnswers, SubmitQuestion,
         SubmitFindRow, SubmitWrite, SubmitFinish, SubmitCollect, Overlap, InFlight, Requests
<1>4. stored' \subseteq Items /\ rows' \in [Items -> Row]
  <2>1. CASE SubmitWrite(b)
    <3>1. Current(b) \in Items
      BY <2>1, AtItem DEF SubmitWrite
    <3>2. GradedRow(b, Current(b)) \in Row
      BY <1>0, <3>1 DEF GradedRow, Blank, Row, Submit
    <3>3. /\ rows' = [rows EXCEPT ![Current(b)] = GradedRow(b, Current(b))]
          /\ stored' = stored \/ stored' = stored \cup {Current(b)}
      BY <2>1 DEF SubmitWrite, Updates, Inserts
    <3> QED BY <3>1, <3>2, <3>3
  <2>2. CASE ~SubmitWrite(b)
    <3>1. UNCHANGED <<stored, rows>>
      BY <2>2 DEF SubmitStep, SubmitFail, SubmitLoad, SubmitItems, SubmitAnswers,
                  SubmitQuestion, SubmitFindRow, SubmitFinish, SubmitCollect, tables
    <3> QED BY <3>1
  <2> QED BY <2>1, <2>2
<1>5. book' \subseteq Items
  <2>1. CASE SubmitCollect(b)
    <3>1. Min(w.wrong) \in Items
      BY <2>1, AtItem DEF SubmitCollect
    <3> QED BY <3>1, <2>1 DEF SubmitCollect
  <2>2. CASE ~SubmitCollect(b)
    <3>1. UNCHANGED book
      BY <2>2 DEF SubmitStep, SubmitFail, SubmitLoad, SubmitItems, SubmitAnswers,
                  SubmitQuestion, SubmitFindRow, SubmitWrite, SubmitFinish, tables
    <3> QED BY <3>1
  <2> QED BY <2>1, <2>2
<1>6. glitches' \in 0..MaxGlitches
  <2>1. CASE SubmitQuestion(b)
    <3>1. glitches' = glitches \/ (glitches < MaxGlitches /\ glitches' = glitches + 1)
      BY <2>1 DEF SubmitQuestion, QuestionFound, QuestionMissed
    <3> QED BY <3>1
  <2>2. CASE ~SubmitQuestion(b)
    <3>1. UNCHANGED glitches
      BY <2>2 DEF SubmitStep, SubmitFail, SubmitLoad, SubmitItems, SubmitAnswers,
                  SubmitFindRow, SubmitWrite, SubmitFinish, SubmitCollect
    <3> QED BY <3>1
  <2> QED BY <2>1, <2>2
<1>7. attempt' \in [status : {"in_progress", "submitted"}, objective : Nat, total : Nat]
  <2>1. w.sum \in Nat
    BY <1>0 DEF Submit
  <2>2. attempt' = attempt \/ attempt' = [status |-> "submitted", objective |-> w.sum, total |-> w.sum]
    BY DEF SubmitStep, SubmitFail, SubmitLoad, SubmitItems, SubmitAnswers, SubmitQuestion,
           SubmitFindRow, SubmitWrite, SubmitFinish, SubmitCollect, tables
  <2> QED BY <2>1, <2>2
<1>8. unsummed' \in BOOLEAN
  BY Zenon DEF SubmitStep, SubmitFail, SubmitLoad, SubmitItems, SubmitAnswers, SubmitQuestion,
       SubmitFindRow, SubmitWrite, SubmitFinish, SubmitCollect
<1> QED BY <1>1, <1>2, <1>3, <1>4, <1>5, <1>6, <1>7, <1>8

\* A grading's row is scored with the text it was read with.
LEMMA ScoredRowTyped ==
    ASSUME Typed, NEW g \in Grades, grade[g].item \in Items
    PROVE  ScoredRow(g) \in Row
<1>1. grade[g] \in Grade
  BY DEF Typed, TypeOK
<1>2. grade[g].rows[grade[g].item] \in Row /\ grade[g].score[grade[g].item] \in Nat
  BY <1>1 DEF Grade
<1> QED BY <1>2 DEF ScoredRow, Row

\* Steps of a grading keep the types.
LEMMA TypedGrade ==
    ASSUME Typed, NEW g \in Grades, GradeStep(g) \/ GradeFail(g)
    PROVE  Typed'
<1> USE DEF Typed, TypeOK, Busy
<1> DEFINE w == grade[g]
<1>0. w \in Grade
  OBVIOUS
<1>1. /\ grade' \in [Grades -> Grade]
      /\ \A h \in Grades : grade'[h].pc = "update" => grade'[h].item \in Items
  <2> DEFINE Goal == /\ grade' \in [Grades -> Grade]
                     /\ \A h \in Grades : grade'[h].pc = "update" => grade'[h].item \in Items
             Fits(v) == v \in Grade /\ (v.pc = "update" => v.item \in Items)
  <2>0. ASSUME NEW v, grade' = [grade EXCEPT ![g] = v], Fits(v) PROVE Goal
    BY <2>0
  <2>1. CASE GradeLoad(g)
    <3>1. \/ grade' = [grade EXCEPT ![g] = [w EXCEPT !.pc = "exam", !.status = attempt.status,
                                                     !.objective = attempt.objective]]
          \/ grade' = [grade EXCEPT ![g] = [w EXCEPT !.pc = "refused"]]
      BY <2>1 DEF GradeLoad, GradeGoto
    <3>2. Fits([w EXCEPT !.pc = "exam", !.status = attempt.status,
                         !.objective = attempt.objective])
      BY <1>0 DEF Grade, GradeSteps
    <3>3. Fits([w EXCEPT !.pc = "refused"])
      BY <1>0 DEF Grade
    <3> QED BY <3>1, <3>2, <3>3, <2>0
  <2>2. CASE GradeExam(g)
    <3>1. PICK to \in {"items", "refused"} : grade' = [grade EXCEPT ![g] = [w EXCEPT !.pc = to]]
      BY <2>2 DEF GradeExam, GradeGoto
    <3>2. Fits([w EXCEPT !.pc = to])
      BY <1>0 DEF Grade, GradeSteps
    <3> QED BY <3>1, <3>2, <2>0
  <2>3. CASE GradeItems(g)
    <3>1. Fits([w EXCEPT !.pc = "answers", !.paper = paper])
      BY <1>0 DEF Grade, GradeSteps
    <3> QED BY <3>1, <2>3, <2>0 DEF GradeItems
  <2>4. CASE GradeAnswers(g)
    <3>1. Fits([w EXCEPT !.pc = "question", !.have = stored, !.rows = rows])
      BY <1>0 DEF Grade, GradeSteps
    <3> QED BY <3>1, <2>4, <2>0 DEF GradeAnswers
  <2>5. CASE GradeQuestion(g)
    <3>1. PICK i \in w.todo :
             \/ grade' = [grade EXCEPT ![g] = [w EXCEPT !.pc = "refused"]]
             \/ grade' = [grade EXCEPT ![g] = [w EXCEPT !.todo = w.todo \ {i}]]
             \/ grade' = [grade EXCEPT ![g] = [w EXCEPT !.pc = "update", !.item = i]]
      BY <2>5 DEF GradeQuestion, GradeGoto
    <3>2. i \in Items /\ i \in Nat
      BY <1>0 DEF Grade
    <3>3. Fits([w EXCEPT !.pc = "refused"])
      BY <1>0 DEF Grade
    <3>4. Fits([w EXCEPT !.todo = w.todo \ {i}])
      BY <1>0, <2>5 DEF Grade, GradeQuestion
    <3>5. Fits([w EXCEPT !.pc = "update", !.item = i])
      BY <1>0, <3>2 DEF Grade, GradeSteps
    <3> QED BY <3>1, <3>3, <3>4, <3>5, <2>0
  <2>6. CASE GradeWrite(g)
    <3> DEFINE i == w.item
               v == [w EXCEPT !.pc = "question", !.todo = w.todo \ {i},
                              !.rows = [w.rows EXCEPT ![i] = ScoredRow(g)]]
    <3>1. i \in Items /\ ScoredRow(g) \in Row
      BY <2>6, ScoredRowTyped DEF GradeWrite
    <3>2. grade' = [grade EXCEPT ![g] = v]
      BY <2>6 DEF GradeWrite
    <3>3. Fits(v)
      BY <1>0, <3>1 DEF Grade, GradeSteps
    <3> QED BY <3>2, <3>3, <2>0
  <2>7. CASE GradeSum(g)
    <3>1. Fits([w EXCEPT !.pc = "add", !.todo = w.have, !.sum = w.objective])
      BY <1>0 DEF Grade, GradeSteps
    <3> QED BY <3>1, <2>7, <2>0 DEF GradeSum
  <2>8. CASE GradeAdd(g)
    <3>1. \/ \E i \in w.todo :
               \/ grade' = [grade EXCEPT ![g] = [w EXCEPT !.todo = w.todo \ {i}]]
               \/ grade' = [grade EXCEPT ![g] = [w EXCEPT !.todo = w.todo \ {i},
                                                          !.sum = w.sum + w.rows[i].score]]
          \/ grade' = [grade EXCEPT ![g] = [w EXCEPT !.pc = "finish"]]
      BY <2>8 DEF GradeAdd, GradeGoto
    <3>2. ASSUME NEW i \in w.todo
          PROVE  Fits([w EXCEPT !.todo = w.todo \ {i}, !.sum = w.sum + w.rows[i].score])
      <4>1. w.sum + w.rows[i].score \in Nat
        BY <1>0, <3>2 DEF Grade, Row
      <4>2. w.pc = "add"
        BY <2>8 DEF GradeAdd
      <4> QED BY <1>0, <4>1, <4>2 DEF Grade
    <3>3. ASSUME NEW i \in w.todo PROVE Fits([w EXCEPT !.todo = w.todo \ {i}])
      BY <1>0, <2>8 DEF Grade, GradeAdd
    <3>4. Fits([w EXCEPT !.pc = "finish"])
      BY <1>0 DEF Grade, GradeSteps
    <3> QED BY <3>1, <3>2, <3>3, <3>4, <2>0
  <2>9. CASE GradeFinish(g) \/ GradeFail(g)
    <3>1. PICK to \in {"done", "failed"} : grade' = [grade EXCEPT ![g] = [w EXCEPT !.pc = to]]
      BY <2>9 DEF GradeFinish, GradeFail, GradeGoto
    <3>2. Fits([w EXCEPT !.pc = to])
      BY <1>0 DEF Grade
    <3> QED BY <3>1, <3>2, <2>0
  <2> QED BY <2>1, <2>2, <2>3, <2>4, <2>5, <2>6, <2>7, <2>8, <2>9 DEF GradeStep
<1>2. UNCHANGED <<paper, questions, late, stored, book, save, submit>>
  BY DEF GradeStep, GradeFail, GradeLoad, GradeExam, GradeItems, GradeAnswers, GradeQuestion,
         GradeWrite, GradeSum, GradeAdd, GradeFinish, Updates, tables
<1>3. crossed' \subseteq Requests
  BY DEF GradeStep, GradeFail, GradeLoad, GradeExam, GradeItems, GradeAnswers, GradeQuestion,
         GradeWrite, GradeSum, GradeAdd, GradeFinish, Overlap, InFlight, Requests
<1>4. rows' \in [Items -> Row]
  <2>1. CASE GradeWrite(g)
    <3>1. w.item \in Items /\ ScoredRow(g) \in Row
      BY <2>1, ScoredRowTyped DEF GradeWrite
    <3>2. rows' = [rows EXCEPT ![w.item] = ScoredRow(g)]
      BY <2>1 DEF GradeWrite, Updates
    <3> QED BY <3>1, <3>2
  <2>2. CASE ~GradeWrite(g)
    <3>1. UNCHANGED rows
      BY <2>2 DEF GradeStep, GradeFail, GradeLoad, GradeExam, GradeItems, GradeAnswers,
                  GradeQuestion, GradeSum, GradeAdd, GradeFinish, tables
    <3> QED BY <3>1
  <2> QED BY <2>1, <2>2
<1>5. glitches' \in 0..MaxGlitches
  <2>1. glitches' = glitches \/ (glitches < MaxGlitches /\ glitches' = glitches + 1)
    BY DEF GradeStep, GradeFail, GradeLoad, GradeExam, GradeItems, GradeAnswers, GradeQuestion,
           GradeWrite, GradeSum, GradeAdd, GradeFinish, QuestionFound, QuestionMissed
  <2> QED BY <2>1
<1>6. attempt' \in [status : {"in_progress", "submitted"}, objective : Nat, total : Nat]
  <2>1. w.sum \in Nat /\ w.objective \in Nat /\ w.status \in {"in_progress", "submitted"}
    BY <1>0 DEF Grade
  <2>2. \/ attempt' = attempt
        \/ attempt' = [status |-> w.status, objective |-> w.objective, total |-> w.sum]
    BY DEF GradeStep, GradeFail, GradeLoad, GradeExam, GradeItems, GradeAnswers, GradeQuestion,
           GradeWrite, GradeSum, GradeAdd, GradeFinish, tables
  <2> QED BY <2>1, <2>2
<1>7. unsummed' \in BOOLEAN
  BY Zenon DEF GradeStep, GradeFail, GradeLoad, GradeExam, GradeItems, GradeAnswers,
       GradeQuestion, GradeWrite, GradeSum, GradeAdd, GradeFinish
<1> QED BY <1>1, <1>2, <1>3, <1>4, <1>5, <1>6, <1>7

\* What is not a request's.
Surroundings == \/ DeleteExam \/ (\E i \in Items : DeleteQuestion(i)) \/ DeadlinePasses

\* Every step keeps the types.
LEMMA TypedNext == Typed /\ [Next]_vars => Typed'
<1> SUFFICES ASSUME Typed, [Next]_vars PROVE Typed'
  OBVIOUS
<1>1. CASE Surroundings
  <2>1. paper' \subseteq Items /\ questions' \subseteq Items
    BY <1>1 DEF Surroundings, DeleteExam, DeleteQuestion, DeadlinePasses, Typed, TypeOK
  <2>2. late' \in BOOLEAN
    BY <1>1, Zenon DEF Surroundings, DeleteExam, DeleteQuestion, DeadlinePasses, Typed, TypeOK
  <2>3. UNCHANGED <<attempt, stored, rows, book, locals>>
    BY <1>1 DEF Surroundings, DeleteExam, DeleteQuestion, DeadlinePasses
  <2> QED BY <2>1, <2>2, <2>3 DEF Typed, TypeOK, Busy, locals
<1>2. CASE UNCHANGED vars
  BY <1>2 DEF vars, tables, Typed, TypeOK, Busy
<1> QED BY <1>1, <1>2, TypedSave, TypedSubmit, TypedGrade DEF Next, Surroundings

\* Rows, requests, tables and histories keep their types.
THEOREM TypeCorrect == Spec => []TypeOK
<1>1. Typed => TypeOK
  BY DEF Typed
<1> QED BY <1>1, TypedInit, TypedNext, PTL DEF Spec

-----------------------------------------------------------------------------
(* Who writes what.                                                        *)

\* A save is moved by its own steps only.
LEMMA SaveMoves ==
    ASSUME Typed, [Next]_vars, NEW s \in Saves
    PROVE  save'[s] = save[s] \/ SaveStep(s) \/ SaveFail(s)
<1>1. ASSUME NEW t \in Saves, t # s, SaveStep(t) \/ SaveFail(t) PROVE save'[s] = save[s]
  <2>1. PICK to : SaveGoto(t, to)
    BY <1>1 DEF SaveStep, SaveFail, SaveLoad, SaveFindItem, SaveFindRow, SaveWrite
  <2> QED BY <1>1, <2>1 DEF SaveGoto, Typed, TypeOK
<1>2. ASSUME NEW b \in Submits, SubmitStep(b) \/ SubmitFail(b) PROVE UNCHANGED save
  BY <1>2 DEF SubmitStep, SubmitFail, SubmitLoad, SubmitItems, SubmitAnswers, SubmitQuestion,
              SubmitFindRow, SubmitWrite, SubmitFinish, SubmitCollect
<1>3. ASSUME NEW g \in Grades, GradeStep(g) \/ GradeFail(g) PROVE UNCHANGED save
  BY <1>3 DEF GradeStep, GradeFail, GradeLoad, GradeExam, GradeItems, GradeAnswers,
              GradeQuestion, GradeWrite, GradeSum, GradeAdd, GradeFinish
<1>4. Surroundings => UNCHANGED save
  BY DEF Surroundings, DeleteExam, DeleteQuestion, DeadlinePasses, locals
<1>5. UNCHANGED vars => UNCHANGED save
  BY DEF vars
<1> QED BY <1>1, <1>2, <1>3, <1>4, <1>5 DEF Next, Surroundings

\* A submission is moved by its own steps only.
LEMMA SubmitMoves ==
    ASSUME Typed, [Next]_vars, NEW b \in Submits
    PROVE  submit'[b] = submit[b] \/ SubmitStep(b) \/ SubmitFail(b)
<1>1. ASSUME NEW c \in Submits, c # b, SubmitStep(c) \/ SubmitFail(c)
      PROVE  submit'[b] = submit[b]
  <2>1. PICK v : submit' = [submit EXCEPT ![c] = v]
    BY <1>1 DEF SubmitStep, SubmitFail, SubmitLoad, SubmitItems, SubmitAnswers, SubmitQuestion,
                SubmitFindRow, SubmitWrite, SubmitFinish, SubmitCollect, SubmitGoto
  <2> QED BY <1>1, <2>1 DEF Typed, TypeOK
<1>2. ASSUME NEW s \in Saves, SaveStep(s) \/ SaveFail(s) PROVE UNCHANGED submit
  BY <1>2 DEF SaveStep, SaveFail, SaveLoad, SaveFindItem, SaveFindRow, SaveWrite
<1>3. ASSUME NEW g \in Grades, GradeStep(g) \/ GradeFail(g) PROVE UNCHANGED submit
  BY <1>3 DEF GradeStep, GradeFail, GradeLoad, GradeExam, GradeItems, GradeAnswers,
              GradeQuestion, GradeWrite, GradeSum, GradeAdd, GradeFinish
<1>4. Surroundings => UNCHANGED submit
  BY DEF Surroundings, DeleteExam, DeleteQuestion, DeadlinePasses, locals
<1>5. UNCHANGED vars => UNCHANGED submit
  BY DEF vars
<1> QED BY <1>1, <1>2, <1>3, <1>4, <1>5 DEF Next, Surroundings

\* A grading is moved by its own steps only.
LEMMA GradeMoves ==
    ASSUME Typed, [Next]_vars, NEW g \in Grades
    PROVE  grade'[g] = grade[g] \/ GradeStep(g) \/ GradeFail(g)
<1>1. ASSUME NEW h \in Grades, h # g, GradeStep(h) \/ GradeFail(h)
      PROVE  grade'[g] = grade[g]
  <2>1. PICK v : grade' = [grade EXCEPT ![h] = v]
    BY <1>1 DEF GradeStep, GradeFail, GradeLoad, GradeExam, GradeItems, GradeAnswers,
                GradeQuestion, GradeWrite, GradeSum, GradeAdd, GradeFinish, GradeGoto
  <2> QED BY <1>1, <2>1 DEF Typed, TypeOK
<1>2. ASSUME NEW s \in Saves, SaveStep(s) \/ SaveFail(s) PROVE UNCHANGED grade
  BY <1>2 DEF SaveStep, SaveFail, SaveLoad, SaveFindItem, SaveFindRow, SaveWrite
<1>3. ASSUME NEW b \in Submits, SubmitStep(b) \/ SubmitFail(b) PROVE UNCHANGED grade
  BY <1>3 DEF SubmitStep, SubmitFail, SubmitLoad, SubmitItems, SubmitAnswers, SubmitQuestion,
              SubmitFindRow, SubmitWrite, SubmitFinish, SubmitCollect
<1>4. Surroundings => UNCHANGED grade
  BY DEF Surroundings, DeleteExam, DeleteQuestion, DeadlinePasses, locals
<1>5. UNCHANGED vars => UNCHANGED grade
  BY DEF vars
<1> QED BY <1>1, <1>2, <1>3, <1>4, <1>5 DEF Next, Surroundings

\* Only these steps touch an answer, the attempt and the book.
LEMMA TableWriters ==
    ASSUME [Next]_vars
    PROVE  /\ \/ UNCHANGED <<stored, rows>>
              \/ \E s \in Saves : SaveWrite(s)
              \/ \E b \in Submits : SubmitWrite(b)
              \/ \E g \in Grades : GradeWrite(g)
           /\ \/ UNCHANGED attempt
              \/ \E b \in Submits : SubmitFinish(b)
              \/ \E g \in Grades : GradeFinish(g)
           /\ UNCHANGED book \/ \E b \in Submits : SubmitCollect(b)
<1>1. ASSUME NEW s \in Saves, SaveStep(s) \/ SaveFail(s)
      PROVE  (UNCHANGED <<stored, rows>> \/ SaveWrite(s)) /\ UNCHANGED <<attempt, book>>
  BY <1>1 DEF SaveStep, SaveFail, SaveLoad, SaveFindItem, SaveFindRow, SaveWrite, tables
<1>2. ASSUME NEW b \in Submits, SubmitStep(b) \/ SubmitFail(b)
      PROVE  /\ UNCHANGED <<stored, rows>> \/ SubmitWrite(b)
             /\ UNCHANGED attempt \/ SubmitFinish(b)
             /\ UNCHANGED book \/ SubmitCollect(b)
  BY <1>2 DEF SubmitStep, SubmitFail, SubmitLoad, SubmitItems, SubmitAnswers, SubmitQuestion,
              SubmitFindRow, SubmitWrite, SubmitFinish, SubmitCollect, tables
<1>3. ASSUME NEW g \in Grades, GradeStep(g) \/ GradeFail(g)
      PROVE  /\ UNCHANGED <<stored, rows>> \/ GradeWrite(g)
             /\ UNCHANGED attempt \/ GradeFinish(g)
             /\ UNCHANGED book
  BY <1>3 DEF GradeStep, GradeFail, GradeLoad, GradeExam, GradeItems, GradeAnswers,
              GradeQuestion, GradeWrite, GradeSum, GradeAdd, GradeFinish, tables
<1>4. Surroundings \/ UNCHANGED vars => UNCHANGED <<stored, rows, attempt, book>>
  BY DEF Surroundings, DeleteExam, DeleteQuestion, DeadlinePasses, vars, tables
<1> QED BY <1>1, <1>2, <1>3, <1>4 DEF Next, Surroundings

-----------------------------------------------------------------------------
(* Who gets where.                                                         *)

\* Past its first query, or a grading past its second, a request is of the
\* student or of a teacher in charge.
Admitted ==
    /\ \A s \in Saves : save[s].pc \in SaveSteps => s \in Entitled
    /\ \A b \in Submits : submit[b].pc \in SubmitSteps => b \in Entitled
    /\ \A g \in Grades : grade[g].pc \in GradeSteps \ {"exam"} => g \in Entitled

\* A grading is of a submitted attempt, holds unmarked subjective answers, and
\* writes a score within the item's to one of them.
GradesRight ==
    \A g \in Grades :
        /\ grade[g].pc \in GradeSteps => grade[g].status = "submitted"
        /\ \A i \in Items \ Objective : grade[g].rows[i].correct = "nil"
        /\ grade[g].pc = "update" => /\ grade[g].item \in Items \ Objective
                                     /\ grade[g].score[grade[g].item] <= Full[grade[g].item]

\* Initially nobody is anywhere.
LEMMA AdmittedInit == Init => Admitted /\ GradesRight
<1> SUFFICES ASSUME Init PROVE Admitted /\ GradesRight
  OBVIOUS
<1>1. /\ \A s \in Saves : save[s].pc = "idle"
      /\ \A b \in Submits : submit[b].pc = "idle"
      /\ \A g \in Grades : grade[g].pc = "idle" /\ \A i \in Items : grade[g].rows[i] = Blank
  BY DEF Init
<1> QED BY <1>1 DEF Admitted, GradesRight, SaveSteps, SubmitSteps, GradeSteps, Blank

\* Only who is entitled gets past the checks.
LEMMA AdmittedStep == Typed /\ Admitted /\ [Next]_vars => Admitted'
<1> SUFFICES ASSUME Typed, Admitted, [Next]_vars PROVE Admitted'
  OBVIOUS
<1>1. ASSUME NEW s \in Saves, save'[s].pc \in SaveSteps PROVE s \in Entitled
  <2>1. CASE SaveStep(s) \/ SaveFail(s)
    BY <1>1, <2>1 DEF Typed, TypeOK, Save, Admitted, SaveSteps, SaveStep, SaveFail, SaveLoad,
          SaveFindItem, SaveFindRow, SaveWrite, SaveGoto
  <2> QED BY <1>1, <2>1, SaveMoves DEF Admitted
<1>2. ASSUME NEW b \in Submits, submit'[b].pc \in SubmitSteps PROVE b \in Entitled
  <2>1. CASE SubmitLoad(b)
    BY <1>2, <2>1 DEF SubmitLoad, SubmitGoto, SubmitSteps, Typed, TypeOK, Submit
  <2>2. CASE (SubmitStep(b) \/ SubmitFail(b)) /\ ~SubmitLoad(b)
    <3>1. submit[b].pc \in SubmitSteps
      BY <2>2 DEF SubmitStep, SubmitFail, SubmitItems, SubmitAnswers, SubmitQuestion,
             SubmitFindRow, SubmitWrite, SubmitFinish, SubmitCollect, SubmitSteps
    <3> QED BY <3>1 DEF Admitted
  <2> QED BY <1>2, <2>1, <2>2, SubmitMoves DEF Admitted
<1>3. ASSUME NEW g \in Grades, grade'[g].pc \in GradeSteps \ {"exam"} PROVE g \in Entitled
  <2>1. CASE GradeLoad(g) \/ GradeExam(g)
    BY <1>3, <2>1 DEF GradeLoad, GradeExam, GradeGoto, GradeSteps, Typed, TypeOK, Grade
  <2>2. CASE (GradeStep(g) \/ GradeFail(g)) /\ ~GradeLoad(g) /\ ~GradeExam(g)
    <3>1. \/ grade[g].pc \in GradeSteps \ {"exam"}
          \/ GradeFail(g) /\ grade[g].pc = "exam"
      BY <2>2 DEF GradeStep, GradeFail, GradeItems, GradeAnswers, GradeQuestion, GradeWrite,
             GradeSum, GradeAdd, GradeFinish, GradeSteps
    <3>2. ~GradeFail(g)
      BY <1>3 DEF GradeFail, GradeGoto, GradeSteps, Typed, TypeOK, Grade
    <3> QED BY <3>1, <3>2 DEF Admitted
  <2> QED BY <1>3, <2>1, <2>2, GradeMoves DEF Admitted
<1> QED BY <1>1, <1>2, <1>3 DEF Admitted

\* A grading reads unmarked subjective answers and picks one of them.
LEMMA GradesRightStep ==
    Typed /\ RowsCoherent /\ GradesRight /\ [Next]_vars => GradesRight'
<1> SUFFICES ASSUME Typed, RowsCoherent, GradesRight, [Next]_vars,
                    NEW g \in Grades, grade'[g] # grade[g]
             PROVE  /\ grade'[g].pc \in GradeSteps => grade'[g].status = "submitted"
                    /\ \A i \in Items \ Objective : grade'[g].rows[i].correct = "nil"
                    /\ grade'[g].pc = "update" =>
                          /\ grade'[g].item \in Items \ Objective
                          /\ grade'[g].score[grade'[g].item] <= Full[grade'[g].item]
  BY DEF GradesRight
<1> DEFINE w == grade[g]
<1>0. w \in Grade /\ grade \in [Grades -> Grade]
  BY DEF Typed, TypeOK
<1>1. CASE GradeLoad(g)
  BY <1>0, <1>1 DEF GradeLoad, GradeGoto, GradeSteps, Grade, GradesRight
<1>2. CASE GradeExam(g) \/ GradeItems(g) \/ GradeSum(g) \/ GradeFinish(g) \/ GradeFail(g)
  <2>1. /\ grade'[g].pc # "update" /\ grade'[g].rows = w.rows /\ grade'[g].status = w.status
        /\ w.pc \in GradeSteps
    BY <1>0, <1>2 DEF GradeExam, GradeItems, GradeSum, GradeFinish, GradeFail, GradeGoto,
                      GradeSteps, Grade
  <2> QED BY <2>1 DEF GradesRight
<1>3. CASE GradeAnswers(g)
  <2>1. grade'[g].rows = rows /\ grade'[g].pc = "question" /\ grade'[g].status = w.status
        /\ w.pc \in GradeSteps
    BY <1>0, <1>3 DEF GradeAnswers, GradeSteps, Grade
  <2> QED BY <2>1 DEF GradesRight, RowsCoherent
<1>4. CASE GradeQuestion(g)
  <2>1. w.pc = "question" /\ grade'[g].rows = w.rows /\ grade'[g].status = w.status
    BY <1>0, <1>4 DEF GradeQuestion, GradeGoto, Grade
  <2>2. ASSUME grade'[g].pc = "update"
        PROVE  /\ grade'[g].item \in Items \ Objective
               /\ grade'[g].score[grade'[g].item] <= Full[grade'[g].item]
    <3>1. PICK i \in w.todo :
             /\ ~Skips(g, i) /\ ~(w.score[i] > Full[i])
             /\ grade' = [grade EXCEPT ![g].pc = "update", ![g].item = i]
      BY <1>0, <2>1, <2>2, <1>4 DEF GradeQuestion, GradeGoto, Grade
    <3>2. grade'[g].item = i /\ grade'[g].score = w.score
      BY <1>0, <3>1 DEF Grade
    <3>3. i \in Items /\ i \notin Objective
      BY <1>0, <3>1 DEF Skips, Grade
    <3>4. w.score[i] \in Nat /\ Full[i] \in Nat
      BY <1>0, <3>3 DEF Grade
    <3> QED BY <3>1, <3>2, <3>3, <3>4
  <2> QED BY <2>1, <2>2 DEF GradesRight, GradeSteps
<1>5. CASE GradeWrite(g)
  <2>1. /\ w.pc = "update" /\ grade'[g].pc = "question" /\ grade'[g].status = w.status
        /\ grade'[g].rows = [w.rows EXCEPT ![w.item] = ScoredRow(g)]
    BY <1>0, <1>5 DEF GradeWrite, Grade
  <2>2. w.item \in Items \ Objective
    BY <2>1 DEF GradesRight
  <2>3. w.rows[w.item] \in Row /\ w.rows[w.item].correct = "nil"
    BY <1>0, <2>2 DEF Grade, GradesRight
  <2>4. ScoredRow(g).correct = "nil"
    BY <2>3 DEF ScoredRow, Row
  <2>5. \A i \in Items \ Objective : grade'[g].rows[i].correct = "nil"
    BY <1>0, <2>1, <2>4 DEF Grade, GradesRight
  <2> QED BY <2>1, <2>5 DEF GradesRight, GradeSteps
<1>6. CASE GradeAdd(g)
  <2>1. /\ w.pc = "add" /\ grade'[g].pc \in {"add", "finish"}
        /\ grade'[g].rows = w.rows /\ grade'[g].status = w.status
    <3>1. \/ \E i \in w.todo :
               \/ grade' = [grade EXCEPT ![g] = [w EXCEPT !.todo = w.todo \ {i}]]
               \/ grade' = [grade EXCEPT ![g] = [w EXCEPT !.todo = w.todo \ {i},
                                                          !.sum = w.sum + w.rows[i].score]]
          \/ grade' = [grade EXCEPT ![g] = [w EXCEPT !.pc = "finish"]]
      BY <1>6 DEF GradeAdd, GradeGoto
    <3>2. w.pc = "add"
      BY <1>6 DEF GradeAdd
    <3>3. CASE grade' = [grade EXCEPT ![g] = [w EXCEPT !.pc = "finish"]]
      BY <1>0, <3>2, <3>3 DEF Grade
    <3>4. ASSUME NEW i, grade' = [grade EXCEPT ![g] = [w EXCEPT !.todo = w.todo \ {i}]]
          PROVE  /\ w.pc = "add" /\ grade'[g].pc = "add"
                 /\ grade'[g].rows = w.rows /\ grade'[g].status = w.status
      BY <1>0, <3>2, <3>4 DEF Grade
    <3>5. ASSUME NEW i, NEW n,
                 grade' = [grade EXCEPT ![g] = [w EXCEPT !.todo = w.todo \ {i}, !.sum = n]]
          PROVE  /\ w.pc = "add" /\ grade'[g].pc = "add"
                 /\ grade'[g].rows = w.rows /\ grade'[g].status = w.status
      BY <1>0, <3>2, <3>5 DEF Grade
    <3> QED BY <3>1, <3>3, <3>4, <3>5
  <2> QED BY <2>1 DEF GradesRight, GradeSteps
<1> QED BY <1>1, <1>2, <1>3, <1>4, <1>5, <1>6, GradeMoves DEF GradeStep

\* No answer is half graded at first.
LEMMA CoherentInit == Init => RowsCoherent
<1> SUFFICES ASSUME Init PROVE RowsCoherent
  OBVIOUS
<1>1. TypeOK
  BY TypedInit DEF Typed
<1>2. \A i \in Items : \E t \in Texts : rows[i] = [Blank EXCEPT !.text = t]
  BY DEF Init
<1>3. \A i \in Items : /\ rows[i] = [Blank EXCEPT !.text = rows[i].text]
                       /\ rows[i].correct = "nil" /\ rows[i].score = 0
  BY <1>2 DEF Blank
<1>4. \A i \in Items : Full[i] \in Nat /\ 0 <= Full[i]
  OBVIOUS
<1>5. ASSUME NEW i \in Objective
      PROVE  rows[i] \in {[Blank EXCEPT !.text = rows[i].text],
                         [text |-> "right", correct |-> "yes",
                          score |-> Full[i], by |-> NoGrade],
                         [text |-> rows[i].text, correct |-> "no",
                          score |-> 0, by |-> NoGrade]}
  <2>1. rows[i] = [Blank EXCEPT !.text = rows[i].text]
    BY <1>3
  <2> QED BY <2>1, Zenon
<1>6. ASSUME NEW i \in Items
      PROVE  rows[i].score <= Full[i] /\ ~(rows[i].score > 0)
  <2>1. rows[i].score = 0
    BY <1>3, Zenon
  <2>2. Full[i] \in Nat
    OBVIOUS
  <2> HIDE ConstantsAssumption
  <2> QED BY <2>1, <2>2
<1> QED BY <1>1, <1>3, <1>5, <1>6 DEF RowsCoherent

\* What rows may hold.
Coherent(i, row) ==
    IF i \in Objective
    THEN row \in {[Blank EXCEPT !.text = row.text],
                  [text |-> "right", correct |-> "yes", score |-> Full[i], by |-> NoGrade],
                  [text |-> row.text, correct |-> "no", score |-> 0, by |-> NoGrade]}
    ELSE /\ row.correct = "nil"
         /\ row.score <= Full[i]
         /\ row.score > 0 => row.by \in Entitled

\* Each of the three writes a coherent row.
LEMMA CoherentWrites ==
    ASSUME Typed, Admitted, GradesRight
    PROVE  /\ \A s \in Saves : Coherent(save[s].item, SavedRow(s))
           /\ \A b \in Submits : \A i \in Items : Coherent(i, GradedRow(b, i))
           /\ \A g \in Grades : grade[g].pc = "update" =>
                 Coherent(grade[g].item, ScoredRow(g))
<1>1. ASSUME NEW s \in Saves PROVE Coherent(save[s].item, SavedRow(s))
  <2>1. Full[save[s].item] \in Nat
    BY DEF Typed, Busy
  <2> QED BY <2>1 DEF Coherent, SavedRow, Blank
<1>2. ASSUME NEW b \in Submits, NEW i \in Items PROVE Coherent(i, GradedRow(b, i))
  <2>1. Full[i] \in Nat
    OBVIOUS
  <2> QED BY <2>1 DEF Coherent, GradedRow, IsRight, Blank
<1>3. ASSUME NEW g \in Grades, grade[g].pc = "update"
      PROVE  Coherent(grade[g].item, ScoredRow(g))
  <2> DEFINE i == grade[g].item
             r == grade[g].rows[i]
  <2>1. i \in Items \ Objective /\ grade[g].score[i] <= Full[i] /\ r.correct = "nil"
    BY <1>3 DEF GradesRight
  <2>2. r \in Row
    BY <2>1 DEF Typed, TypeOK, Grade
  <2>3. g \in Entitled
    BY <1>3 DEF Admitted, GradeSteps
  <2>4. /\ ScoredRow(g).correct = "nil" /\ ScoredRow(g).by = g
        /\ ScoredRow(g).score = grade[g].score[i]
    BY <2>1, <2>2 DEF ScoredRow, Row
  <2> QED BY <2>1, <2>3, <2>4 DEF Coherent
<1> QED BY <1>1, <1>2, <1>3

\* Rows stay coherent.
LEMMA CoherentStep ==
    Typed /\ Admitted /\ GradesRight /\ RowsCoherent /\ [Next]_vars => RowsCoherent'
<1> SUFFICES ASSUME Typed, Admitted, GradesRight, RowsCoherent, [Next]_vars
             PROVE  RowsCoherent'
  OBVIOUS
<1>1. TypeOK'
  BY TypedNext DEF Typed
<1>2. \A i \in Items : Coherent(i, rows[i])
  BY DEF RowsCoherent, Coherent
<1>3. \/ rows' = rows
      \/ \E j \in Items : \E r : Coherent(j, r) /\ rows' = [rows EXCEPT ![j] = r]
  <2>1. ASSUME NEW s \in Saves, SaveWrite(s)
        PROVE  rows' = [rows EXCEPT ![save[s].item] = SavedRow(s)] /\ save[s].item \in Items
    BY <2>1 DEF SaveWrite, Updates, Inserts, Typed, Busy
  <2>2. ASSUME NEW b \in Submits, SubmitWrite(b)
        PROVE  /\ rows' = [rows EXCEPT ![Current(b)] = GradedRow(b, Current(b))]
               /\ Current(b) \in Items
    BY <2>2, AtItem DEF SubmitWrite, Updates, Inserts
  <2>3. ASSUME NEW g \in Grades, GradeWrite(g)
        PROVE  /\ rows' = [rows EXCEPT ![grade[g].item] = ScoredRow(g)]
               /\ grade[g].item \in Items /\ grade[g].pc = "update"
    BY <2>3 DEF GradeWrite, Updates, Typed, Busy
  <2>4. CASE \E s \in Saves : SaveWrite(s)
    BY <2>1, <2>4, CoherentWrites
  <2>5. CASE \E b \in Submits : SubmitWrite(b)
    BY <2>2, <2>5, CoherentWrites
  <2>6. CASE \E g \in Grades : GradeWrite(g)
    BY <2>3, <2>6, CoherentWrites
  <2> QED BY <2>4, <2>5, <2>6, TableWriters
<1>4. \A i \in Items : Coherent(i, rows'[i])
  <2>1. rows \in [Items -> Row]
    BY DEF Typed, TypeOK
  <2> QED BY <1>2, <1>3, <2>1
<1> QED BY <1>1, <1>4 DEF RowsCoherent, Coherent

\* Who is where, and what rows and gradings hold.
CoherentInv == Typed /\ Admitted /\ GradesRight /\ RowsCoherent

\* It is an invariant.
LEMMA CoherentInvariant == Spec => []CoherentInv
<1>1. Init => CoherentInv
  BY TypedInit, AdmittedInit, CoherentInit DEF CoherentInv
<1>2. CoherentInv /\ [Next]_vars => CoherentInv'
  BY TypedNext, AdmittedStep, GradesRightStep, CoherentStep DEF CoherentInv
<1> QED BY <1>1, <1>2, PTL DEF Spec

\* No row is ever half graded, whichever requests wrote it.
THEOREM RowsAreCoherent == Spec => []RowsCoherent
<1>1. CoherentInv => RowsCoherent
  BY DEF CoherentInv
<1> QED BY <1>1, CoherentInvariant, PTL

\* A step that changes answers, scores or the book is one of someone entitled.
LEMMA EntitledWrites ==
    ASSUME Typed, Admitted, [Next]_vars,
           <<attempt, stored, rows, book>>' # <<attempt, stored, rows, book>>
    PROVE  \E q \in Entitled : LocalOf(q)' # LocalOf(q)
<1>1. ASSUME NEW s \in Saves, SaveWrite(s)
      PROVE  s \in Entitled /\ LocalOf(s)' # LocalOf(s)
  <2>1. save[s].pc \in {"update", "insert"} /\ save'[s].pc = "done"
    BY <1>1 DEF SaveWrite, SaveGoto, Typed, TypeOK, Save
  <2> QED BY <2>1 DEF Admitted, SaveSteps, LocalOf
<1>2. ASSUME NEW b \in Submits, SubmitWrite(b) \/ SubmitFinish(b) \/ SubmitCollect(b)
      PROVE  b \in Entitled /\ LocalOf(b)' # LocalOf(b)
  <2>1. submit[b].pc \in {"update", "insert", "finish", "collect"}
    BY <1>2 DEF SubmitWrite, SubmitFinish, SubmitCollect
  <2>2. submit'[b] # submit[b]
    <3>0. submit \in [Submits -> Submit]
      BY DEF Typed, TypeOK
    <3>1. CASE SubmitWrite(b)
      <4>1. submit'[b].pc = Onwards(submit[b].todo \ {Current(b)})
        BY <3>0, <3>1 DEF SubmitWrite, Submit
      <4>2. submit[b].pc \in {"update", "insert"}
        BY <3>1 DEF SubmitWrite
      <4> QED BY <4>1, <4>2 DEF Onwards
    <3>2. CASE SubmitFinish(b)
      BY <3>0, <3>2 DEF SubmitFinish, SubmitGoto, Submit
    <3>3. CASE SubmitCollect(b)
      <4>1. submit'[b].wrong = submit[b].wrong \ {Min(submit[b].wrong)}
        BY <3>0, <3>3 DEF SubmitCollect, Submit
      <4> QED BY <4>1, <3>3, AtItem DEF SubmitCollect
    <3> QED BY <1>2, <3>1, <3>2, <3>3
  <2>3. b \notin Saves
    OBVIOUS
  <2> QED BY <2>1, <2>2, <2>3 DEF Admitted, SubmitSteps, LocalOf
<1>3. ASSUME NEW g \in Grades, GradeWrite(g) \/ GradeFinish(g)
      PROVE  g \in Entitled /\ LocalOf(g)' # LocalOf(g)
  <2>1. grade[g].pc \in {"update", "finish"} /\ grade'[g].pc \in {"question", "done"}
    BY <1>3 DEF GradeWrite, GradeFinish, GradeGoto, Typed, TypeOK, Grade
  <2>2. g \notin Saves /\ g \notin Submits
    OBVIOUS
  <2> QED BY <2>1, <2>2 DEF Admitted, GradeSteps, LocalOf
<1>4. \/ \E s \in Saves : SaveWrite(s)
      \/ \E b \in Submits : SubmitWrite(b) \/ SubmitFinish(b) \/ SubmitCollect(b)
      \/ \E g \in Grades : GradeWrite(g) \/ GradeFinish(g)
  BY TableWriters
<1> QED BY <1>1, <1>2, <1>3, <1>4

\* Answers, scores and the book are out of reach of strangers.
THEOREM StrangersStayOut == Spec => StrangersKeptOut
<1>1. CoherentInv /\ [Next]_vars =>
         [<<attempt, stored, rows, book>>' # <<attempt, stored, rows, book>> =>
             \E q \in Entitled : LocalOf(q)' # LocalOf(q)]_vars
  BY EntitledWrites DEF CoherentInv
<1> QED BY <1>1, CoherentInvariant, PTL DEF Spec, StrangersKeptOut

-----------------------------------------------------------------------------
(* Requests that overlap, and those that do not.                           *)

\* Of two requests in flight both count as crossed, two saves excepted.
Crossing ==
    \A p, q \in InFlight : \/ p = q
                           \/ p \in Saves /\ q \in Saves
                           \/ p \in crossed /\ q \in crossed

\* A request joins those in flight by noticing the others.
LEMMA Flights ==
    ASSUME Typed, [Next]_vars
    PROVE  /\ crossed \subseteq crossed'
           /\ \/ InFlight' \subseteq InFlight
              \/ \E p \in Requests : Overlap(p) /\ InFlight' \subseteq InFlight \cup {p}
<1> DEFINE Goal == /\ crossed \subseteq crossed'
                   /\ \/ InFlight' \subseteq InFlight
                      \/ \E p \in Requests : /\ Overlap(p)
                                             /\ InFlight' \subseteq InFlight \cup {p}
<1>0. ASSUME NEW p \in Requests, Overlap(p) PROVE crossed \subseteq crossed'
  BY <1>0 DEF Overlap
<1>1. ASSUME NEW s \in Saves, SaveStep(s) \/ SaveFail(s) PROVE Goal
  <2>1. /\ \A t \in Saves : t # s => save'[t] = save[t]
        /\ UNCHANGED <<submit, grade>>
        /\ \/ Overlap(s)
           \/ UNCHANGED crossed /\ (save'[s].pc \in SaveSteps => save[s].pc \in SaveSteps)
    BY <1>1 DEF SaveStep, SaveFail, SaveLoad, SaveFindItem, SaveFindRow, SaveWrite, SaveGoto,
                SaveSteps, Typed, TypeOK, Save
  <2>2. InFlight' \subseteq InFlight \cup {s}
    BY <2>1 DEF InFlight
  <2>3. (save'[s].pc \in SaveSteps => save[s].pc \in SaveSteps) => InFlight' \subseteq InFlight
    BY <2>1 DEF InFlight
  <2>4. s \in Requests
    BY DEF Requests
  <2> QED BY <2>1, <2>2, <2>3, <2>4, <1>0
<1>2. ASSUME NEW b \in Submits, SubmitStep(b) \/ SubmitFail(b) PROVE Goal
  <2>1. /\ \A c \in Submits : c # b => submit'[c] = submit[c]
        /\ UNCHANGED <<save, grade>>
    <3>1. PICK v : submit' = [submit EXCEPT ![b] = v]
      BY <1>2 DEF SubmitStep, SubmitFail, SubmitLoad, SubmitItems, SubmitAnswers,
            SubmitQuestion, SubmitFindRow, SubmitWrite, SubmitFinish, SubmitCollect, SubmitGoto
    <3>2. UNCHANGED <<save, grade>>
      BY <1>2 DEF SubmitStep, SubmitFail, SubmitLoad, SubmitItems, SubmitAnswers,
            SubmitQuestion, SubmitFindRow, SubmitWrite, SubmitFinish, SubmitCollect
    <3> QED BY <3>1, <3>2 DEF Typed, TypeOK
  <2>2. \/ Overlap(b)
        \/ UNCHANGED crossed /\ (submit'[b].pc \in SubmitSteps => submit[b].pc \in SubmitSteps)
    <3>1. CASE SubmitLoad(b)
      BY <3>1 DEF SubmitLoad, SubmitGoto, SubmitSteps, Typed, TypeOK, Submit
    <3>2. CASE ~SubmitLoad(b)
      BY <1>2, <3>2 DEF SubmitStep, SubmitFail, SubmitItems, SubmitAnswers, SubmitQuestion,
            SubmitFindRow, SubmitWrite, SubmitFinish, SubmitCollect, SubmitSteps
    <3> QED BY <3>1, <3>2
  <2>3. InFlight' \subseteq InFlight \cup {b}
    BY <2>1 DEF InFlight
  <2>4. (submit'[b].pc \in SubmitSteps => submit[b].pc \in SubmitSteps) =>
           InFlight' \subseteq InFlight
    BY <2>1 DEF InFlight
  <2>5. b \in Requests
    BY DEF Requests
  <2> QED BY <2>2, <2>3, <2>4, <2>5, <1>0
<1>3. ASSUME NEW g \in Grades, GradeStep(g) \/ GradeFail(g) PROVE Goal
  <2>1. /\ \A h \in Grades : h # g => grade'[h] = grade[h]
        /\ UNCHANGED <<save, submit>>
    <3>1. PICK v : grade' = [grade EXCEPT ![g] = v]
      BY <1>3 DEF GradeStep, GradeFail, GradeLoad, GradeExam, GradeItems, GradeAnswers,
            GradeQuestion, GradeWrite, GradeSum, GradeAdd, GradeFinish, GradeGoto
    <3>2. UNCHANGED <<save, submit>>
      BY <1>3 DEF GradeStep, GradeFail, GradeLoad, GradeExam, GradeItems, GradeAnswers,
            GradeQuestion, GradeWrite, GradeSum, GradeAdd, GradeFinish
    <3> QED BY <3>1, <3>2 DEF Typed, TypeOK
  <2>2. \/ Overlap(g)
        \/ UNCHANGED crossed /\ (grade'[g].pc \in GradeSteps => grade[g].pc \in GradeSteps)
    <3>1. CASE GradeLoad(g)
      BY <3>1 DEF GradeLoad, GradeGoto, GradeSteps, Typed, TypeOK, Grade
    <3>2. CASE ~GradeLoad(g)
      BY <1>3, <3>2 DEF GradeStep, GradeFail, GradeExam, GradeItems, GradeAnswers,
            GradeQuestion, GradeWrite, GradeSum, GradeAdd, GradeFinish, GradeSteps
    <3> QED BY <3>1, <3>2
  <2>3. InFlight' \subseteq InFlight \cup {g}
    BY <2>1 DEF InFlight
  <2>4. (grade'[g].pc \in GradeSteps => grade[g].pc \in GradeSteps) =>
           InFlight' \subseteq InFlight
    BY <2>1 DEF InFlight
  <2>5. g \in Requests
    BY DEF Requests
  <2> QED BY <2>2, <2>3, <2>4, <2>5, <1>0
<1>4. Surroundings \/ UNCHANGED vars => UNCHANGED <<save, submit, grade, crossed>>
  BY DEF Surroundings, DeleteExam, DeleteQuestion, DeadlinePasses, locals, vars
<1>5. UNCHANGED <<save, submit, grade, crossed>> => Goal
  BY DEF InFlight
<1> QED BY <1>1, <1>2, <1>3, <1>4, <1>5 DEF Next, Surroundings

\* Nobody is in flight at first.
LEMMA CrossingInit == Init => Crossing
<1> SUFFICES ASSUME Init PROVE InFlight = {}
  BY DEF Crossing
<1>1. /\ \A s \in Saves : save[s].pc = "idle"
      /\ \A b \in Submits : submit[b].pc = "idle"
      /\ \A g \in Grades : grade[g].pc = "idle"
  BY DEF Init
<1> QED BY <1>1 DEF InFlight, SaveSteps, SubmitSteps, GradeSteps

\* Whoever overlaps is noticed.
LEMMA CrossingStep == Typed /\ Crossing /\ [Next]_vars => Crossing'
<1> SUFFICES ASSUME Typed, Crossing, [Next]_vars,
                    NEW p \in InFlight', NEW q \in InFlight', p # q,
                    ~(p \in Saves /\ q \in Saves)
             PROVE  p \in crossed' /\ q \in crossed'
  BY DEF Crossing
<1>1. CASE p \in InFlight /\ q \in InFlight
  BY <1>1, Flights DEF Crossing
<1>2. CASE ~(p \in InFlight /\ q \in InFlight)
  <2>1. PICK r \in Requests : Overlap(r) /\ InFlight' \subseteq InFlight \cup {r}
    BY <1>2, Flights
  <2>2. \/ r = p /\ q \in InFlight
        \/ r = q /\ p \in InFlight
    BY <1>2, <2>1
  <2> QED BY <2>1, <2>2 DEF Overlap
<1> QED BY <1>1, <1>2

-----------------------------------------------------------------------------
(* What is stale and what is not.                                          *)

\* The steps of a submission that has graded, and those that has yet to finish.
Grading == {"question", "find_row", "update", "insert"}
Unfinished == {"items", "answers", "finish"} \cup Grading

\* A request nobody crossed works on the tables as they are: a submission on an
\* attempt in progress and on the answers' texts, a grading on the objective
\* score and the answers' texts.
Fresh ==
    /\ \A b \in Submits \ crossed :
          /\ submit[b].pc \in Unfinished => attempt.status = "in_progress"
          /\ submit[b].pc \in Grading =>
                \A i \in Items : submit[b].text[i] = rows[i].text
    /\ \A g \in Grades \ crossed :
          /\ grade[g].pc \in GradeSteps => grade[g].objective = attempt.objective
          /\ grade[g].pc \in {"question", "update"} =>
                \A i \in Items : grade[g].rows[i].text = rows[i].text

\* While a request nobody crossed is in flight only its own steps, and nobody
\* else's, write the tables.
LEMMA AloneWrites ==
    ASSUME Typed, Crossing, [Next]_vars,
           NEW p \in Submits \cup Grades, p \in InFlight, p \notin crossed
    PROVE  /\ \A s \in Saves : ~SaveWrite(s)
           /\ \A b \in Submits : SubmitWrite(b) \/ SubmitFinish(b) \/ SubmitCollect(b) => b = p
           /\ \A g \in Grades : GradeWrite(g) \/ GradeFinish(g) => g = p
<1>1. \A q \in InFlight : q = p
  BY DEF Crossing
<1>2. ASSUME NEW s \in Saves, SaveWrite(s) PROVE s \in InFlight
  BY <1>2 DEF SaveWrite, InFlight, SaveSteps
<1>3. ASSUME NEW b \in Submits, SubmitWrite(b) \/ SubmitFinish(b) \/ SubmitCollect(b)
      PROVE  b \in InFlight
  <2>1. submit[b].pc \in {"update", "insert", "finish", "collect"}
    BY <1>3 DEF SubmitWrite, SubmitFinish, SubmitCollect
  <2> QED BY <2>1 DEF InFlight, SubmitSteps
<1>4. ASSUME NEW g \in Grades, GradeWrite(g) \/ GradeFinish(g) PROVE g \in InFlight
  <2>1. grade[g].pc \in {"update", "finish"}
    BY <1>4 DEF GradeWrite, GradeFinish
  <2> QED BY <2>1 DEF InFlight, GradeSteps
<1> QED BY <1>1, <1>2, <1>3, <1>4

\* How far the step of a submission itself takes it.
LEMMA SubmitTrace ==
    ASSUME Typed, NEW b \in Submits, SubmitStep(b) \/ SubmitFail(b)
    PROVE  /\ submit'[b].pc \in Unfinished =>
                 \/ SubmitLoad(b) /\ attempt.status = "in_progress" /\ UNCHANGED tables
                 \/ submit[b].pc \in Unfinished /\ UNCHANGED attempt
           /\ submit'[b].pc \in Grading =>
                 \/ SubmitAnswers(b)
                 \/ submit[b].pc \in Grading /\ submit'[b].text = submit[b].text
                       /\ (UNCHANGED rows \/ SubmitWrite(b))
<1>0. submit \in [Submits -> Submit] /\ submit[b] \in Submit
  BY DEF Typed, TypeOK
<1>1. CASE SubmitLoad(b)
  <2>1. submit'[b].pc \in {"items", "refused"} /\ UNCHANGED tables
    BY <1>0, <1>1 DEF SubmitLoad, SubmitGoto, Submit
  <2>2. submit'[b].pc = "items" => attempt.status = "in_progress"
    BY <1>0, <1>1 DEF SubmitLoad, SubmitGoto, Submit
  <2> QED BY <1>1, <2>1, <2>2 DEF Unfinished, Grading
<1>2. CASE SubmitItems(b)
  BY <1>0, <1>2 DEF SubmitItems, Submit, Unfinished, Grading, tables
<1>3. CASE SubmitAnswers(b)
  BY <1>0, <1>3 DEF SubmitAnswers, Submit, Unfinished, tables
<1>4. CASE SubmitQuestion(b)
  <2>1. submit[b].pc = "question" /\ UNCHANGED tables
    BY <1>4 DEF SubmitQuestion
  <2>2. submit'[b].text = submit[b].text
    BY <1>0, <1>4 DEF SubmitQuestion, Submit
  <2> QED BY <2>1, <2>2 DEF Unfinished, Grading, tables
<1>5. CASE SubmitFindRow(b)
  BY <1>0, <1>5 DEF SubmitFindRow, SubmitGoto, Submit, Unfinished, Grading, tables
<1>6. CASE SubmitWrite(b)
  <2>1. submit[b].pc \in {"update", "insert"} /\ UNCHANGED attempt
    BY <1>6 DEF SubmitWrite
  <2>2. submit'[b].text = submit[b].text
    BY <1>0, <1>6 DEF SubmitWrite, Submit
  <2> QED BY <1>6, <2>1, <2>2 DEF Unfinished, Grading
<1>7. CASE SubmitFinish(b) \/ SubmitCollect(b) \/ SubmitFail(b)
  <2>1. submit'[b].pc \in {"done", "collect", "failed"}
    BY <1>0, <1>7 DEF SubmitFinish, SubmitCollect, SubmitFail, SubmitGoto, Submit
  <2> QED BY <2>1 DEF Unfinished, Grading
<1> QED BY <1>1, <1>2, <1>3, <1>4, <1>5, <1>6, <1>7 DEF SubmitStep

\* And that of a grading.
LEMMA GradeTrace ==
    ASSUME Typed, NEW g \in Grades, GradeStep(g) \/ GradeFail(g)
    PROVE  /\ grade'[g].pc \in GradeSteps =>
                 \/ GradeLoad(g) /\ grade'[g].objective = attempt.objective /\ UNCHANGED tables
                 \/ /\ grade[g].pc \in GradeSteps /\ grade'[g].objective = grade[g].objective
                    /\ UNCHANGED attempt
           /\ grade'[g].pc \in {"question", "update"} =>
                 \/ grade'[g].rows = rows /\ UNCHANGED tables
                 \/ GradeWrite(g)
                 \/ /\ grade[g].pc \in {"question", "update"} /\ grade'[g].rows = grade[g].rows
                    /\ UNCHANGED tables
<1>0. grade \in [Grades -> Grade] /\ grade[g] \in Grade
  BY DEF Typed, TypeOK
<1>1. CASE GradeLoad(g)
  <2>1. /\ UNCHANGED tables
        /\ \/ grade'[g].pc = "exam" /\ grade'[g].objective = attempt.objective
           \/ grade'[g].pc = "refused"
    BY <1>0, <1>1 DEF GradeLoad, GradeGoto, Grade
  <2> QED BY <1>1, <2>1 DEF GradeSteps
<1>2. CASE GradeExam(g) \/ GradeItems(g) \/ GradeSum(g)
  <2>1. /\ UNCHANGED tables /\ grade'[g].pc \in {"items", "refused", "answers", "add"}
        /\ grade[g].pc \in GradeSteps /\ grade'[g].objective = grade[g].objective
    BY <1>0, <1>2 DEF GradeExam, GradeItems, GradeSum, GradeGoto, Grade, GradeSteps
  <2> QED BY <2>1 DEF tables
<1>3. CASE GradeAnswers(g)
  BY <1>0, <1>3 DEF GradeAnswers, Grade, GradeSteps, tables
<1>4. CASE GradeQuestion(g)
  <2>1. /\ UNCHANGED tables /\ grade[g].pc = "question"
        /\ grade'[g].objective = grade[g].objective /\ grade'[g].rows = grade[g].rows
    BY <1>0, <1>4 DEF GradeQuestion, GradeGoto, Grade
  <2> QED BY <2>1 DEF tables, GradeSteps
<1>5. CASE GradeWrite(g)
  <2>1. /\ UNCHANGED attempt /\ grade[g].pc = "update"
        /\ grade'[g].objective = grade[g].objective
    BY <1>0, <1>5 DEF GradeWrite, Grade
  <2> QED BY <1>5, <2>1 DEF GradeSteps
<1>6. CASE GradeAdd(g)
  <2>1. UNCHANGED tables /\ grade[g].pc = "add"
    BY <1>6 DEF GradeAdd
  <2>2. grade'[g].objective = grade[g].objective /\ grade'[g].pc \in {"add", "finish"}
    <3>1. CASE grade' = [grade EXCEPT ![g].pc = "finish"]
      BY <1>0, <2>1, <3>1 DEF Grade
    <3>2. ASSUME NEW S, grade' = [grade EXCEPT ![g].todo = S]
          PROVE  grade'[g].objective = grade[g].objective /\ grade'[g].pc = "add"
      BY <1>0, <2>1, <3>2 DEF Grade
    <3>3. ASSUME NEW S, NEW n, grade' = [grade EXCEPT ![g].todo = S, ![g].sum = n]
          PROVE  grade'[g].objective = grade[g].objective /\ grade'[g].pc = "add"
      BY <1>0, <2>1, <3>3 DEF Grade
    <3> QED BY <1>6, <3>1, <3>2, <3>3 DEF GradeAdd, GradeGoto
  <2> QED BY <2>1, <2>2 DEF tables, GradeSteps
<1>7. CASE GradeFinish(g) \/ GradeFail(g)
  <2>1. grade'[g].pc \in {"done", "failed"}
    BY <1>0, <1>7 DEF GradeFinish, GradeFail, GradeGoto, Grade
  <2> QED BY <2>1 DEF GradeSteps
<1> QED BY <1>1, <1>2, <1>3, <1>4, <1>5, <1>6, <1>7 DEF GradeStep

\* What is written back is the text that was read.
LEMMA TextsWritten ==
    ASSUME Typed
    PROVE  /\ \A s \in Saves : SaveWrite(s) =>
                 rows' = [rows EXCEPT ![save[s].item] = SavedRow(s)]
           /\ \A b \in Submits : SubmitWrite(b) =>
                 /\ Current(b) \in Items
                 /\ rows' = [rows EXCEPT ![Current(b)] = GradedRow(b, Current(b))]
                 /\ GradedRow(b, Current(b)).text = submit[b].text[Current(b)]
           /\ \A g \in Grades : GradeWrite(g) =>
                 /\ grade[g].item \in Items
                 /\ rows' = [rows EXCEPT ![grade[g].item] = ScoredRow(g)]
                 /\ grade'[g].rows = [grade[g].rows EXCEPT ![grade[g].item] = ScoredRow(g)]
                 /\ ScoredRow(g).text = grade[g].rows[grade[g].item].text
<1>1. ASSUME NEW s \in Saves, SaveWrite(s)
      PROVE  rows' = [rows EXCEPT ![save[s].item] = SavedRow(s)]
  BY <1>1 DEF SaveWrite, Updates, Inserts
<1>2. ASSUME NEW b \in Submits, SubmitWrite(b)
      PROVE  /\ Current(b) \in Items
             /\ rows' = [rows EXCEPT ![Current(b)] = GradedRow(b, Current(b))]
             /\ GradedRow(b, Current(b)).text = submit[b].text[Current(b)]
  <2>1. Current(b) \in Items /\ rows' = [rows EXCEPT ![Current(b)] = GradedRow(b, Current(b))]
    BY <1>2, AtItem DEF SubmitWrite, Updates, Inserts
  <2>2. GradedRow(b, Current(b)).text = submit[b].text[Current(b)]
    BY DEF GradedRow, Blank
  <2> QED BY <2>1, <2>2
<1>3. ASSUME NEW g \in Grades, GradeWrite(g)
      PROVE  /\ grade[g].item \in Items
             /\ rows' = [rows EXCEPT ![grade[g].item] = ScoredRow(g)]
             /\ grade'[g].rows = [grade[g].rows EXCEPT ![grade[g].item] = ScoredRow(g)]
             /\ ScoredRow(g).text = grade[g].rows[grade[g].item].text
  <2>1. grade[g].item \in Items /\ grade[g] \in Grade /\ grade \in [Grades -> Grade]
    BY <1>3 DEF GradeWrite, Typed, TypeOK, Busy
  <2>2. /\ rows' = [rows EXCEPT ![grade[g].item] = ScoredRow(g)]
        /\ grade'[g].rows = [grade[g].rows EXCEPT ![grade[g].item] = ScoredRow(g)]
    BY <1>3, <2>1 DEF GradeWrite, Updates, Grade
  <2>3. grade[g].rows[grade[g].item] \in Row
    BY <2>1 DEF Grade
  <2>4. ScoredRow(g).text = grade[g].rows[grade[g].item].text
    BY <2>3 DEF ScoredRow, Row
  <2> QED BY <2>1, <2>2, <2>4
<1> QED BY <1>1, <1>2, <1>3

\* Nothing runs at first.
LEMMA FreshInit == Init => Fresh
<1> SUFFICES ASSUME Init PROVE Fresh
  OBVIOUS
<1>1. /\ \A b \in Submits : submit[b].pc = "idle"
      /\ \A g \in Grades : grade[g].pc = "idle"
  BY DEF Init
<1> QED BY <1>1 DEF Fresh, Unfinished, Grading, GradeSteps

\* What nobody crossed stays fresh.
LEMMA FreshStep == Typed /\ Crossing /\ Fresh /\ [Next]_vars => Fresh'
<1> SUFFICES ASSUME Typed, Crossing, Fresh, [Next]_vars PROVE Fresh'
  OBVIOUS
<1>0. crossed \subseteq crossed' /\ rows \in [Items -> Row]
  BY Flights DEF Typed, TypeOK
<1>1. ASSUME NEW b \in Submits \ crossed'
      PROVE  /\ submit'[b].pc \in Unfinished => attempt'.status = "in_progress"
             /\ submit'[b].pc \in Grading => \A i \in Items : submit'[b].text[i] = rows'[i].text
  <2>0. b \in Submits \ crossed
    BY <1>0
  <2>1. CASE SubmitStep(b) \/ SubmitFail(b)
    <3>1. submit'[b].pc \in Unfinished => attempt'.status = "in_progress"
      BY <2>0, <2>1, SubmitTrace DEF Fresh, tables
    <3>2. ASSUME SubmitAnswers(b), NEW i \in Items PROVE submit'[b].text[i] = rows'[i].text
      BY <3>2 DEF SubmitAnswers, tables, Typed, TypeOK, Submit
    <3>3. ASSUME submit[b].pc \in Grading, submit'[b].text = submit[b].text,
                 UNCHANGED rows \/ SubmitWrite(b), NEW i \in Items
          PROVE  submit'[b].text[i] = rows'[i].text
      BY <2>0, <3>3, <1>0, TextsWritten DEF Fresh
    <3> QED BY <2>1, <3>1, <3>2, <3>3, SubmitTrace
  <2>2. CASE ~(SubmitStep(b) \/ SubmitFail(b)) /\ submit'[b].pc \in Unfinished
    <3>1. submit'[b] = submit[b]
      BY <2>2, SubmitMoves
    <3>2. b \in InFlight
      BY <2>2, <3>1 DEF InFlight, Unfinished, Grading, SubmitSteps
    <3>3. UNCHANGED <<rows, attempt>>
      BY <2>0, <2>2, <3>2, AloneWrites, TableWriters DEF SubmitStep
    <3> QED BY <2>0, <3>1, <3>3 DEF Fresh
  <2> QED BY <2>1, <2>2, SubmitMoves DEF Unfinished
<1>2. ASSUME NEW g \in Grades \ crossed'
      PROVE  /\ grade'[g].pc \in GradeSteps => grade'[g].objective = attempt'.objective
             /\ grade'[g].pc \in {"question", "update"} =>
                   \A i \in Items : grade'[g].rows[i].text = rows'[i].text
  <2>0. g \in Grades \ crossed
    BY <1>0
  <2>1. CASE GradeStep(g) \/ GradeFail(g)
    <3>1. grade'[g].pc \in GradeSteps => grade'[g].objective = attempt'.objective
      BY <2>0, <2>1, GradeTrace DEF Fresh, tables
    <3>2. ASSUME GradeWrite(g), NEW i \in Items PROVE grade'[g].rows[i].text = rows'[i].text
      <4>1. grade[g].pc = "update" /\ grade[g].rows \in [Items -> Row]
        BY <3>2 DEF GradeWrite, Typed, TypeOK, Grade
      <4>2. \A j \in Items : grade[g].rows[j].text = rows[j].text
        BY <2>0, <4>1 DEF Fresh
      <4>3. /\ rows' = [rows EXCEPT ![grade[g].item] = ScoredRow(g)]
            /\ grade'[g].rows = [grade[g].rows EXCEPT ![grade[g].item] = ScoredRow(g)]
        BY <3>2, TextsWritten
      <4> QED BY <1>0, <4>1, <4>2, <4>3
    <3> QED BY <2>0, <2>1, <3>1, <3>2, GradeTrace DEF Fresh, tables
  <2>2. CASE ~(GradeStep(g) \/ GradeFail(g)) /\ grade'[g].pc \in GradeSteps
    <3>1. grade'[g] = grade[g]
      BY <2>2, GradeMoves
    <3>2. g \in InFlight
      BY <2>2, <3>1 DEF InFlight
    <3>3. UNCHANGED <<rows, attempt>>
      BY <2>0, <2>2, <3>2, AloneWrites, TableWriters DEF GradeStep
    <3> QED BY <2>0, <3>1, <3>3 DEF Fresh
  <2> QED BY <2>1, <2>2, GradeMoves DEF GradeSteps
<1> QED BY <1>1, <1>2 DEF Fresh

\* Only a save changes a text when nothing crosses; a submitted attempt stays
\* submitted and only crossing submissions change its objective score.
LEMMA StandsStep ==
    ASSUME Typed, GradesRight, Crossing, Fresh, [Next]_vars
    PROVE  /\ \A i \in stored :
                 (rows'[i].text # rows[i].text /\ crossed = {}) =>
                     \E s \in Saves : save[s].item = i /\ save'[s].pc = "done"
                                      /\ save[s].pc # "done"
           /\ attempt.status = "submitted" =>
                 /\ attempt'.status = "submitted"
                 /\ attempt'.objective # attempt.objective => crossed # {}
<1>0. rows \in [Items -> Row] /\ stored \subseteq Items
  BY DEF Typed, TypeOK
<1>1. ASSUME NEW i \in stored, rows'[i].text # rows[i].text, crossed = {}
      PROVE  \E s \in Saves : save[s].item = i /\ save'[s].pc = "done" /\ save[s].pc # "done"
  <2>1. CASE \E s \in Saves : SaveWrite(s)
    <3>1. PICK s \in Saves : SaveWrite(s)
      BY <2>1
    <3>2. save[s].item = i
      BY <1>0, <1>1, <3>1, TextsWritten
    <3>3. save'[s].pc = "done" /\ save[s].pc # "done"
      BY <3>1 DEF SaveWrite, SaveGoto, Typed, TypeOK, Save
    <3> QED BY <3>2, <3>3
  <2>2. ASSUME NEW b \in Submits, SubmitWrite(b) PROVE FALSE
    <3>1. submit[b].pc \in Grading
      BY <2>2 DEF SubmitWrite, Grading
    <3> QED BY <1>0, <1>1, <2>2, <3>1, TextsWritten DEF Fresh
  <2>3. ASSUME NEW g \in Grades, GradeWrite(g) PROVE FALSE
    <3>1. grade[g].pc = "update"
      BY <2>3 DEF GradeWrite
    <3>2. \A j \in Items : grade[g].rows[j].text = rows[j].text
      BY <1>1, <3>1 DEF Fresh
    <3>3. /\ grade[g].item \in Items
          /\ rows' = [rows EXCEPT ![grade[g].item] = ScoredRow(g)]
          /\ ScoredRow(g).text = grade[g].rows[grade[g].item].text
      BY <2>3, TextsWritten
    <3> QED BY <1>0, <1>1, <3>2, <3>3
  <2> QED BY <1>1, <2>1, <2>2, <2>3, TableWriters
<1>2. ASSUME attempt.status = "submitted"
      PROVE  /\ attempt'.status = "submitted"
             /\ attempt'.objective # attempt.objective => crossed # {}
  <2>1. ASSUME NEW b \in Submits, SubmitFinish(b)
        PROVE  attempt'.status = "submitted" /\ crossed # {}
    BY <1>2, <2>1 DEF SubmitFinish, Fresh, Unfinished
  <2>2. ASSUME NEW g \in Grades, GradeFinish(g)
        PROVE  /\ attempt'.status = "submitted"
               /\ attempt'.objective # attempt.objective => crossed # {}
    <3>1. /\ grade[g].pc \in GradeSteps
          /\ attempt'.status = grade[g].status /\ attempt'.objective = grade[g].objective
      BY <2>2 DEF GradeFinish, GradeSteps
    <3> QED BY <3>1 DEF GradesRight, Fresh
  <2> QED BY <1>2, <2>1, <2>2, TableWriters
<1> QED BY <1>1, <1>2

\* Together with who runs alone.
StandInv == CoherentInv /\ Crossing /\ Fresh

\* It is an invariant.
LEMMA StandInvariant == Spec => []StandInv
<1>1. Init => CoherentInv /\ Crossing /\ Fresh
  BY TypedInit, AdmittedInit, CoherentInit, CrossingInit, FreshInit DEF CoherentInv
<1>2. Typed /\ Crossing /\ Fresh /\ [Next]_vars => Crossing' /\ Fresh'
  BY CrossingStep, FreshStep
<1>3. StandInv /\ [Next]_vars => StandInv'
  BY <1>2, TypedNext, AdmittedStep, GradesRightStep, CoherentStep DEF StandInv, CoherentInv
<1> QED BY <1>1, <1>3, PTL DEF Spec, StandInv

\* A submission stands: nothing but a save alters an answer, nothing reopens the
\* attempt and only crossing submissions alter its objective score.
THEOREM SubmissionsStand == Spec => SubmissionStands
<1>1. StandInv /\ [Next]_vars =>
        [/\ \A i \in stored :
               (rows'[i].text # rows[i].text /\ crossed = {}) =>
                   \E s \in Saves : save[s].item = i /\ save'[s].pc = "done"
                                    /\ save[s].pc # "done"
         /\ attempt.status = "submitted" =>
               /\ attempt'.status = "submitted"
               /\ attempt'.objective # attempt.objective => crossed # {}]_vars
  BY StandsStep DEF StandInv, CoherentInv
<1> QED BY <1>1, StandInvariant, PTL DEF Spec, SubmissionStands

-----------------------------------------------------------------------------
(* A submission does all it has to do.                                     *)

\* Item i is stored and, if objective, graded, and its question in the book or
\* about to be put there by b if the answer is wrong.
Handled(b, i) ==
    /\ i \in stored
    /\ i \in Objective => /\ rows[i].correct # "nil"
                          /\ rows[i].correct = "no" => i \in submit[b].wrong \cup book

\* How far a submission is with its paper.
Progress(b) ==
    /\ submit[b].pc = "answers" => submit[b].todo = Items
    /\ submit[b].pc = "finish" => submit[b].todo = {}
    /\ submit[b].pc \in Grading \cup {"finish"} =>
          \A i \in Items \ submit[b].todo : Handled(b, i)
    /\ submit[b].pc \in {"find_row", "update", "insert"} =>
          (Current(b) \in Objective /\ ~IsRight(b, Current(b)) => Current(b) \in submit[b].wrong)
    /\ submit[b].pc \in {"collect", "done"} =>
          attempt.status = "submitted" /\ \A i \in Items : Handled(b, i)
    /\ submit[b].pc = "done" =>
          submit[b].wrong = {} /\ InFlight \cap (Saves \cup Submits) = {}

\* Only a submitted attempt fills the book, an update is of a row that is there
\* and what nobody crossed or deleted goes through the whole paper.
Thorough ==
    /\ \A b \in Submits :
          /\ submit[b].pc = "collect" => attempt.status = "submitted"
          /\ submit[b].pc = "update" => Current(b) \in stored
    /\ book # {} => attempt.status = "submitted"
    /\ Intact => \A b \in Submits \ crossed : Progress(b)

\* Nothing runs and nothing is collected at first.
LEMMA ThoroughInit == Init => Thorough
<1> SUFFICES ASSUME Init PROVE Thorough
  OBVIOUS
<1>1. \A b \in Submits : submit[b].pc = "idle"
  BY DEF Init
<1>2. book = {}
  BY DEF Init
<1> QED BY <1>1, <1>2 DEF Thorough, Progress, Grading

\* What is intact has been so all along.
LEMMA IntactBefore ==
    ASSUME Typed, [Next]_vars, Intact'
    PROVE  Intact /\ UNCHANGED <<paper, questions, glitches>>
<1>1. ASSUME NEW s \in Saves, SaveStep(s) \/ SaveFail(s)
      PROVE  UNCHANGED <<paper, questions, glitches>>
  BY <1>1 DEF SaveStep, SaveFail, SaveLoad, SaveFindItem, SaveFindRow, SaveWrite, tables
<1>2. ASSUME NEW b \in Submits, SubmitStep(b) \/ SubmitFail(b)
      PROVE  /\ UNCHANGED <<paper, questions>>
             /\ UNCHANGED glitches \/ glitches' = glitches + 1
  BY <1>2 DEF SubmitStep, SubmitFail, SubmitLoad, SubmitItems, SubmitAnswers, SubmitQuestion,
              SubmitFindRow, SubmitWrite, SubmitFinish, SubmitCollect, tables,
              QuestionFound, QuestionMissed
<1>3. ASSUME NEW g \in Grades, GradeStep(g) \/ GradeFail(g)
      PROVE  /\ UNCHANGED <<paper, questions>>
             /\ UNCHANGED glitches \/ glitches' = glitches + 1
  BY <1>3 DEF GradeStep, GradeFail, GradeLoad, GradeExam, GradeItems, GradeAnswers,
              GradeQuestion, GradeWrite, GradeSum, GradeAdd, GradeFinish, tables,
              QuestionFound, QuestionMissed
<1>4. ~DeleteExam /\ \A i \in Items : ~DeleteQuestion(i)
  BY DEF DeleteExam, DeleteQuestion, Intact, Typed, TypeOK
<1>5. DeadlinePasses \/ UNCHANGED vars => UNCHANGED <<paper, questions, glitches>>
  BY DEF DeadlinePasses, locals, vars, tables
<1>6. glitches' = 0 /\ glitches \in Nat
  BY DEF Intact, Typed, TypeOK
<1>7. UNCHANGED <<paper, questions>> /\ (UNCHANGED glitches \/ glitches' = glitches + 1)
  BY <1>1, <1>2, <1>3, <1>4, <1>5 DEF Next
<1> QED BY <1>6, <1>7 DEF Intact

\* A submission alone in flight that ends leaves nobody in flight.
LEMMA EndsAlone ==
    ASSUME Typed, Crossing, NEW b \in Submits, b \notin crossed, submit[b].pc \in SubmitSteps,
           UNCHANGED <<save, grade>>, \A c \in Submits : c # b => submit'[c] = submit[c],
           submit'[b].pc = "done"
    PROVE  InFlight' = {}
<1>1. InFlight = {b}
  BY DEF Crossing, InFlight
<1> QED BY <1>1 DEF InFlight, SubmitSteps

\* The steps of a submission are progress.
LEMMA ProgressOwn ==
    ASSUME Typed, Crossing, [Next]_vars, NEW b \in Submits, b \notin crossed,
           SubmitStep(b) \/ SubmitFail(b), Intact, Intact', Progress(b),
           submit[b].pc = "update" => Current(b) \in stored
    PROVE  Progress(b)'
<1> DEFINE w == submit[b]
<1>0. /\ submit \in [Submits -> Submit] /\ w \in Submit /\ rows \in [Items -> Row]
      /\ stored \subseteq Items
  BY DEF Typed, TypeOK
<1>1. CASE SubmitLoad(b)
  BY <1>0, <1>1 DEF SubmitLoad, SubmitGoto, Submit, Progress, Grading
<1>2. CASE SubmitItems(b)
  BY <1>0, <1>2 DEF SubmitItems, Submit, Progress, Grading, Intact
<1>3. CASE SubmitAnswers(b)
  <2>1. submit'[b].pc = "question" /\ submit'[b].todo = Items
    BY <1>0, <1>3 DEF SubmitAnswers, Submit, Progress, Onwards
  <2> QED BY <2>1 DEF Progress, Grading
<1>4. CASE SubmitQuestion(b)
  <2> DEFINE i == Current(b)
  <2>1. w.pc = "question" /\ UNCHANGED <<rows, stored, book>>
    BY <1>4 DEF SubmitQuestion, tables
  <2>2. i \in Items
    BY <2>1, AtItem
  <2>3. QuestionFound(i) /\ ~QuestionMissed(i)
    BY <1>4, <2>2, IntactBefore DEF SubmitQuestion, QuestionFound, QuestionMissed, Intact,
       Typed, TypeOK
  <2>4. /\ submit'[b].pc = "find_row" /\ submit'[b].todo = w.todo /\ submit'[b].text = w.text
        /\ submit'[b].wrong = w.wrong \cup IF i \in Objective /\ ~IsRight(b, i) THEN {i} ELSE {}
    BY <1>0, <1>4, <2>3 DEF SubmitQuestion, Submit
  <2>5. Current(b)' = i /\ (IsRight(b, i))' = IsRight(b, i)
    BY <2>4 DEF Current, IsRight
  <2>6. \A j \in Items \ w.todo : Handled(b, j)'
    BY <2>1, <2>4 DEF Progress, Grading, Handled
  <2>7. i \in Objective /\ ~IsRight(b, i) => i \in submit'[b].wrong
    BY <2>4
  <2>8. Current(b)' \in Objective /\ ~IsRight(b, Current(b))' => Current(b)' \in submit'[b].wrong
    BY <2>4, <2>5, <2>7 DEF IsRight
  <2> QED BY <2>4, <2>6, <2>8 DEF Progress, Grading
<1>5. CASE SubmitFindRow(b)
  <2>1. /\ w.pc = "find_row" /\ submit'[b].pc \in {"update", "insert"}
        /\ submit'[b].todo = w.todo /\ submit'[b].text = w.text /\ submit'[b].wrong = w.wrong
        /\ UNCHANGED <<rows, stored, book>>
    BY <1>0, <1>5 DEF SubmitFindRow, SubmitGoto, Submit, tables
  <2>2. Current(b)' = Current(b)
    BY <2>1 DEF Current
  <2>3. \A j \in Items \ w.todo : Handled(b, j)'
    BY <2>1 DEF Progress, Grading, Handled
  <2>4. Current(b)' \in Objective /\ ~IsRight(b, Current(b))' => Current(b)' \in submit'[b].wrong
    BY <2>1, <2>2 DEF IsRight, Progress
  <2> QED BY <2>1, <2>3, <2>4 DEF Progress, Grading
<1>6. CASE SubmitWrite(b)
  <2>0. PICK i \in Items : i = Current(b)
    BY <1>6, TextsWritten
  <2>1. /\ w.pc \in {"update", "insert"} /\ UNCHANGED book
        /\ submit'[b].pc = Onwards(w.todo \ {i}) /\ submit'[b].todo = w.todo \ {i}
        /\ submit'[b].wrong = w.wrong
    BY <1>0, <1>6, <2>0 DEF SubmitWrite, Submit
  <2>2. i \in Items /\ rows' = [rows EXCEPT ![i] = GradedRow(b, i)]
    BY <1>6, <2>0, TextsWritten
  <2>3. stored' = stored \cup {i}
    BY <1>6, <2>0 DEF SubmitWrite, Updates, Inserts
  <2>4. i \in Objective =>
           /\ GradedRow(b, i).correct # "nil"
           /\ GradedRow(b, i).correct = "no" => i \in w.wrong
    BY <2>0, <2>1 DEF GradedRow, Progress
  <2>5. Handled(b, i)'
    BY <1>0, <2>1, <2>2, <2>3, <2>4 DEF Handled
  <2>6. ASSUME NEW j \in Items \ w.todo, j # i PROVE Handled(b, j)'
    <3>1. Handled(b, j)
      BY <2>1, <2>6 DEF Progress, Grading
    <3> QED BY <1>0, <2>1, <2>2, <2>3, <2>6, <3>1 DEF Handled
  <2>7. \A j \in Items \ submit'[b].todo : Handled(b, j)'
    BY <2>1, <2>5, <2>6
  <2> QED BY <2>1, <2>7 DEF Progress, Grading, Onwards
<1>7. CASE SubmitFinish(b)
  <2>1. /\ w.pc = "finish" /\ UNCHANGED <<rows, stored, book, save, grade>>
        /\ attempt'.status = "submitted"
        /\ submit'[b].pc = (IF w.wrong = {} THEN "done" ELSE "collect")
        /\ submit'[b].wrong = w.wrong
        /\ \A c \in Submits : c # b => submit'[c] = submit[c]
    BY <1>0, <1>7 DEF SubmitFinish, SubmitGoto, Submit
  <2>2. \A j \in Items : Handled(b, j)'
    BY <2>1 DEF Progress, Handled
  <2>3. submit'[b].pc = "done" => InFlight' = {}
    BY <2>1, EndsAlone DEF SubmitSteps
  <2> QED BY <2>1, <2>2, <2>3 DEF Progress, Grading
<1>8. CASE SubmitCollect(b)
  <2> DEFINE i == Min(w.wrong)
  <2>1. /\ w.pc = "collect" /\ UNCHANGED <<rows, stored, attempt, save, grade>>
        /\ book' = book \cup {i} /\ submit'[b].wrong = w.wrong \ {i}
        /\ submit'[b].pc = (IF w.wrong = {i} THEN "done" ELSE "collect")
        /\ \A c \in Submits : c # b => submit'[c] = submit[c]
    BY <1>0, <1>8 DEF SubmitCollect, Submit
  <2>2. \A j \in Items : Handled(b, j)'
    BY <2>1 DEF Progress, Handled
  <2>3. submit'[b].pc = "done" => InFlight' = {} /\ submit'[b].wrong = {}
    BY <2>1, EndsAlone DEF SubmitSteps
  <2> QED BY <2>1, <2>2, <2>3 DEF Progress, Grading
<1>9. CASE SubmitFail(b)
  BY <1>0, <1>9 DEF SubmitFail, SubmitGoto, Submit, Progress, Grading
<1> QED BY <1>1, <1>2, <1>3, <1>4, <1>5, <1>6, <1>7, <1>8, <1>9 DEF SubmitStep

\* After a submission nothing that writes gets in flight but gradings.
LEMMA NothingStarts ==
    ASSUME Typed, [Next]_vars, attempt.status = "submitted",
           InFlight \cap (Saves \cup Submits) = {}
    PROVE  InFlight' \cap (Saves \cup Submits) = {}
<1>1. ASSUME NEW s \in Saves PROVE save'[s].pc \notin SaveSteps
  <2>1. save[s].pc \notin SaveSteps
    BY DEF InFlight
  <2>2. CASE SaveStep(s) \/ SaveFail(s)
    <3>1. SaveLoad(s)
      BY <2>1, <2>2 DEF SaveStep, SaveFail, SaveFindItem, SaveFindRow, SaveWrite, SaveSteps
    <3> QED BY <3>1 DEF SaveLoad, SaveGoto, SaveSteps, Typed, TypeOK, Save
  <2> QED BY <2>1, <2>2, SaveMoves
<1>2. ASSUME NEW c \in Submits PROVE submit'[c].pc \notin SubmitSteps
  <2>1. submit[c].pc \notin SubmitSteps
    BY DEF InFlight
  <2>2. CASE SubmitStep(c) \/ SubmitFail(c)
    <3>1. SubmitLoad(c)
      BY <2>1, <2>2 DEF SubmitStep, SubmitFail, SubmitItems, SubmitAnswers, SubmitQuestion,
            SubmitFindRow, SubmitWrite, SubmitFinish, SubmitCollect, SubmitSteps
    <3> QED BY <3>1 DEF SubmitLoad, SubmitGoto, SubmitSteps, Typed, TypeOK, Submit
  <2> QED BY <2>1, <2>2, SubmitMoves
<1> QED BY <1>1, <1>2 DEF InFlight

\* The steps of others take nothing from what a submission has done.
LEMMA ProgressOthers ==
    ASSUME Typed, GradesRight, Crossing, Fresh, [Next]_vars, NEW b \in Submits, b \notin crossed,
           ~(SubmitStep(b) \/ SubmitFail(b)), Progress(b)
    PROVE  Progress(b)'
<1>1. submit'[b] = submit[b]
  BY SubmitMoves
<1>2. CASE submit[b].pc \in SubmitSteps
  <2>1. b \in InFlight
    BY <1>2 DEF InFlight
  <2>2. UNCHANGED <<rows, stored, attempt, book>>
    BY <2>1, AloneWrites, TableWriters DEF SubmitStep
  <2>3. Current(b)' = Current(b)
    BY <1>1 DEF Current
  <2>4. ASSUME NEW j \in Items, Handled(b, j) PROVE Handled(b, j)'
    BY <1>1, <2>2, <2>4 DEF Handled
  <2>5. submit[b].pc \in {"find_row", "update", "insert"} =>
           (Current(b)' \in Objective /\ ~IsRight(b, Current(b))' =>
              Current(b)' \in submit'[b].wrong)
    BY <1>1, <2>3 DEF Progress, IsRight
  <2>6. submit[b].pc # "done"
    BY <1>2 DEF SubmitSteps
  <2> QED BY <1>1, <2>2, <2>4, <2>5, <2>6 DEF Progress
<1>3. CASE submit[b].pc = "done"
  <2>1. attempt.status = "submitted" /\ InFlight \cap (Saves \cup Submits) = {}
    BY <1>3 DEF Progress
  <2>2. attempt'.status = "submitted"
    BY <2>1, StandsStep
  <2>3. \A s \in Saves : ~SaveWrite(s)
    BY <2>1 DEF InFlight, SaveWrite, SaveSteps
  <2>4. \A c \in Submits : ~SubmitWrite(c) /\ ~SubmitCollect(c)
    BY <2>1 DEF InFlight, SubmitWrite, SubmitCollect, SubmitSteps
  <2>5. UNCHANGED <<stored, book>>
    BY <2>3, <2>4, TableWriters DEF GradeWrite, Updates
  <2>6. ASSUME NEW i \in Objective PROVE rows'[i].correct = rows[i].correct
    <3>1. ASSUME NEW g \in Grades, GradeWrite(g) PROVE rows'[i] = rows[i]
      <4>1. grade[g].item \in Items \ Objective
        BY <3>1 DEF GradeWrite, GradesRight
      <4>2. rows' = [rows EXCEPT ![grade[g].item] = ScoredRow(g)] /\ rows \in [Items -> Row]
        BY <3>1, TextsWritten DEF Typed, TypeOK
      <4> QED BY <4>1, <4>2
    <3> QED BY <2>3, <2>4, <3>1, TableWriters
  <2>7. \A j \in Items : Handled(b, j)'
    BY <1>1, <1>3, <2>5, <2>6 DEF Progress, Handled
  <2>8. InFlight' \cap (Saves \cup Submits) = {}
    BY <2>1, NothingStarts
  <2> QED BY <1>1, <1>3, <2>2, <2>7, <2>8 DEF Progress, Grading
<1>4. CASE submit[b].pc \notin SubmitSteps \cup {"done"}
  BY <1>1, <1>4 DEF Progress, Grading, SubmitSteps
<1> QED BY <1>2, <1>3, <1>4

\* Every step keeps it.
LEMMA ThoroughStep == StandInv /\ Thorough /\ [Next]_vars => Thorough'
<1> SUFFICES ASSUME StandInv, Thorough, [Next]_vars PROVE Thorough'
  OBVIOUS
<1> USE DEF StandInv, CoherentInv
<1>0. submit \in [Submits -> Submit]
  BY DEF Typed, TypeOK
<1>1. attempt.status = "submitted" => attempt'.status = "submitted"
  BY StandsStep
<1>2. ASSUME NEW b \in Submits, submit'[b].pc = "collect" PROVE attempt'.status = "submitted"
  <2>1. CASE submit[b].pc = "collect"
    BY <1>1, <2>1 DEF Thorough
  <2>2. CASE submit[b].pc # "collect"
    <3>1. SubmitStep(b) \/ SubmitFail(b)
      BY <1>2, <2>2, SubmitMoves
    <3>2. SubmitFinish(b)
      <4>1. CASE SubmitLoad(b) \/ SubmitItems(b) \/ SubmitFindRow(b) \/ SubmitFail(b)
        BY <1>0, <1>2, <4>1 DEF SubmitLoad, SubmitItems, SubmitFindRow, SubmitFail, SubmitGoto,
                                Submit
      <4>2. CASE SubmitAnswers(b) \/ SubmitQuestion(b) \/ SubmitWrite(b)
        BY <1>0, <1>2, <4>2 DEF SubmitAnswers, SubmitQuestion, SubmitWrite, Onwards, Submit
      <4> QED BY <2>2, <3>1, <4>1, <4>2 DEF SubmitStep, SubmitCollect
    <3> QED BY <3>2 DEF SubmitFinish
  <2> QED BY <2>1, <2>2
<1>3. ASSUME NEW b \in Submits, submit'[b].pc = "update" PROVE Current(b)' \in stored'
  <2>1. stored \subseteq stored'
    BY TableWriters DEF SaveWrite, SubmitWrite, GradeWrite, Updates, Inserts
  <2>2. CASE submit'[b] = submit[b]
    BY <1>3, <2>1, <2>2 DEF Thorough, Current
  <2>3. CASE SubmitFindRow(b)
    BY <1>0, <1>3, <2>1, <2>3 DEF SubmitFindRow, SubmitGoto, Current, Submit
  <2>4. CASE SubmitLoad(b) \/ SubmitItems(b) \/ SubmitFail(b)
    BY <1>0, <1>3, <2>4 DEF SubmitLoad, SubmitItems, SubmitFail, SubmitGoto, Submit
  <2>5. CASE SubmitAnswers(b) \/ SubmitQuestion(b) \/ SubmitWrite(b)
    BY <1>0, <1>3, <2>5 DEF SubmitAnswers, SubmitQuestion, SubmitWrite, Onwards, Submit
  <2>6. CASE SubmitFinish(b) \/ SubmitCollect(b)
    BY <1>0, <1>3, <2>6 DEF SubmitFinish, SubmitCollect, SubmitGoto, Submit
  <2> QED BY <2>2, <2>3, <2>4, <2>5, <2>6, SubmitMoves DEF SubmitStep
<1>4. book' # {} => attempt'.status = "submitted"
  <2>1. CASE book' = book
    BY <1>1, <2>1 DEF Thorough
  <2>2. ASSUME NEW b \in Submits, SubmitCollect(b) PROVE attempt'.status = "submitted"
    BY <1>1, <2>2 DEF Thorough, SubmitCollect
  <2> QED BY <2>1, <2>2, TableWriters
<1>5. ASSUME Intact', NEW b \in Submits \ crossed' PROVE Progress(b)'
  <2>1. Intact /\ b \in Submits \ crossed
    BY <1>5, IntactBefore, Flights
  <2>2. Progress(b) /\ (submit[b].pc = "update" => Current(b) \in stored)
    BY <2>1 DEF Thorough
  <2> QED BY <1>5, <2>1, <2>2, ProgressOwn, ProgressOthers
<1> QED BY <1>2, <1>3, <1>4, <1>5 DEF Thorough

\* A submission answered with success has done everything.
THEOREM SubmissionsComplete == Spec => []SubmitComplete
<1>1. Init => StandInv /\ Thorough
  BY TypedInit, AdmittedInit, CoherentInit, CrossingInit, FreshInit, ThoroughInit
     DEF StandInv, CoherentInv
<1>2. StandInv /\ Thorough /\ [Next]_vars => Thorough'
  BY ThoroughStep
<1>3. StandInv /\ Thorough => SubmitComplete
  <2> SUFFICES ASSUME StandInv, Thorough PROVE SubmitComplete
    OBVIOUS
  <2>1. ASSUME NEW b \in Submits, submit[b].pc = "done", b \notin crossed, Intact
        PROVE  /\ attempt.status = "submitted"
               /\ \A i \in Items : Handled(b, i)
               /\ submit[b].wrong = {}
    BY <2>1 DEF Thorough, Progress
  <2>2. stored \subseteq Items
    BY DEF StandInv, CoherentInv, Typed, TypeOK
  <2> QED BY <2>1, <2>2 DEF SubmitComplete, Thorough, Handled
<1> QED BY <1>1, <1>2, <1>3, StandInvariant, PTL DEF Spec

-----------------------------------------------------------------------------
(* Sums of scores.                                                         *)

\* The items a teacher grades.
Subjective == Items \ Objective

\* The items whose points a submission has yet to count.
Uncounted(b) == IF submit[b].pc \in {"find_row", "update", "insert"}
                THEN submit[b].todo \ {Current(b)} ELSE submit[b].todo

\* A request counts each item once and within its score; a grading holds scores
\* within those of the items.
Bounded ==
    /\ TotalsPossible
    /\ \A b \in Submits :
          /\ submit[b].pc \in {"idle", "items", "answers"} => submit[b].sum = 0
          /\ submit[b].pc \in Grading \cup {"finish"} =>
                submit[b].sum <= FullPoints(Objective \ Uncounted(b))
    /\ \A g \in Grades :
          /\ grade[g].pc \in GradeSteps => grade[g].objective <= FullPoints(Objective)
          /\ \A i \in Subjective : grade[g].rows[i].score <= Full[i]
          /\ grade[g].pc = "add" =>
                /\ grade[g].objective <= grade[g].sum
                /\ grade[g].sum <= grade[g].objective + FullPoints(Subjective \ grade[g].todo)
          /\ grade[g].pc = "finish" =>
                /\ grade[g].objective <= grade[g].sum
                /\ grade[g].sum <= grade[g].objective + FullPoints(Subjective)

\* Sums of full scores.
LEMMA FullPointsLaws ==
    ASSUME NEW S, S \subseteq Items
    PROVE  /\ FullPoints(S) \in Nat
           /\ \A T : S \subseteq T /\ T \subseteq Items => FullPoints(S) <= FullPoints(T)
           /\ \A i \in Items \ S : FullPoints(S \cup {i}) = FullPoints(S) + Full[i]
<1>0. \A T : T \subseteq Items => IsFiniteSet(T) /\ \A i \in T : Full[i] \in Nat
  BY FS_Subset
<1>1. \A T : T \subseteq Items => FullPoints(T) \in Nat
  BY <1>0, SumType DEF FullPoints
<1>2. ASSUME NEW T, S \subseteq T, T \subseteq Items PROVE FullPoints(S) <= FullPoints(T)
  <2>1. S \cup (T \ S) = T /\ S \cap (T \ S) = {} /\ T \ S \subseteq Items
    BY <1>2
  <2>2. FullPoints(T) = FullPoints(S) + FullPoints(T \ S)
    BY <1>0, <2>1, SumUnion DEF FullPoints
  <2>3. FullPoints(S) \in Nat /\ FullPoints(T \ S) \in Nat
    BY <1>1, <2>1
  <2> HIDE ConstantsAssumption
  <2> QED BY <2>2, <2>3
<1>3. ASSUME NEW i \in Items \ S PROVE FullPoints(S \cup {i}) = FullPoints(S) + Full[i]
  <2>1. IsFiniteSet(S) /\ i \notin S /\ \A j \in S \cup {i} : Full[j] \in Nat
    BY <1>0
  <2>2. FullPoints(S \cup {i}) = Full[i] + FullPoints(S)
    BY <2>1, SumPutIn DEF FullPoints
  <2>3. FullPoints(S) \in Nat /\ Full[i] \in Nat
    BY <1>1, <2>1
  <2> HIDE ConstantsAssumption
  <2> QED BY <2>2, <2>3
<1> QED BY <1>1, <1>2, <1>3

\* Initially there is nothing to count.
LEMMA BoundedInit == Init => Bounded
<1> SUFFICES ASSUME Init PROVE Bounded
  OBVIOUS
<1>1. /\ attempt.objective = 0 /\ attempt.total = 0
      /\ \A b \in Submits : submit[b].pc = "idle" /\ submit[b].sum = 0
      /\ \A g \in Grades : grade[g].pc = "idle" /\ \A i \in Items : grade[g].rows[i].score = 0
  BY DEF Init, Blank
<1>2. FullPoints(Objective) \in Nat /\ FullPoints(Items \ Objective) \in Nat
  BY FullPointsLaws
<1>3. TotalsPossible
  BY <1>1, <1>2 DEF TotalsPossible
<1>4. \A i \in Items : 0 <= Full[i]
  OBVIOUS
<1> QED BY <1>1, <1>3, <1>4 DEF Bounded, Grading, GradeSteps, Subjective

\* The count of a submission goes on within the items it has passed.
LEMMA BoundedSubmit ==
    ASSUME Typed, Bounded, NEW b \in Submits, SubmitStep(b) \/ SubmitFail(b)
    PROVE  /\ submit'[b].pc \in {"idle", "items", "answers"} => submit'[b].sum = 0
           /\ submit'[b].pc \in Grading \cup {"finish"} =>
                 submit'[b].sum <= FullPoints(Objective \ Uncounted(b)')
<1> DEFINE w == submit[b]
           v == submit'[b]
<1>0. submit \in [Submits -> Submit] /\ w \in Submit
  BY DEF Typed, TypeOK
<1>1. /\ w.sum \in Nat /\ w.todo \subseteq Items
      /\ FullPoints(Objective \ w.todo) \in Nat
  BY <1>0, FullPointsLaws DEF Submit
<1>2. CASE SubmitLoad(b) \/ SubmitItems(b)
  <2>1. v.pc \in {"items", "refused", "answers"} /\ v.sum = w.sum /\ w.pc \in {"idle", "items"}
    BY <1>0, <1>2 DEF SubmitLoad, SubmitItems, SubmitGoto, Submit
  <2> QED BY <2>1 DEF Bounded, Grading
<1>3. CASE SubmitAnswers(b)
  <2>1. /\ v.pc \in {"question", "finish"} /\ v.sum = w.sum /\ w.pc = "answers"
        /\ v.todo = w.todo
    BY <1>0, <1>3 DEF SubmitAnswers, Onwards, Submit
  <2>2. Uncounted(b)' = w.todo
    BY <2>1 DEF Uncounted
  <2>3. v.sum = 0
    BY <2>1 DEF Bounded
  <2> QED BY <1>1, <2>1, <2>2, <2>3
<1>4. CASE SubmitQuestion(b)
  <2> DEFINE i == Current(b)
             r == w.todo \ {i}
             n == IF i \in Objective /\ IsRight(b, i) THEN Full[i] ELSE 0
  <2>1. w.pc = "question" /\ Uncounted(b) = w.todo
    BY <1>4 DEF SubmitQuestion, Uncounted
  <2>2. i \in w.todo /\ i \in Items
    BY <2>1, AtItem
  <2>3. /\ w.sum <= FullPoints(Objective \ w.todo)
        /\ Objective \ w.todo \subseteq Items /\ Objective \ r \subseteq Items
        /\ Objective \ w.todo \subseteq Objective \ r
    BY <2>1 DEF Bounded, Grading
  <2> HIDE DEF i, r
  <2>4. CASE v.pc = "find_row" /\ v.sum = w.sum + n /\ v.todo = w.todo
    <3>1. Uncounted(b)' = r
      BY <2>4 DEF Uncounted, Current, i, r
    <3>2. n \in Nat /\ (i \notin Objective => n = 0) /\ n <= Full[i] /\ Full[i] \in Nat
      <4>1. Full[i] \in Nat
        BY <2>2
      <4>2. (i \notin Objective => n = 0) /\ (n = 0 \/ n = Full[i])
        OBVIOUS
      <4> HIDE DEF n
      <4> QED BY <4>1, <4>2
    <3>3. FullPoints(Objective \ r) \in Nat /\ FullPoints(Objective \ w.todo) \in Nat
      BY <2>3, FullPointsLaws
    <3>4. FullPoints(Objective \ w.todo) + n <= FullPoints(Objective \ r)
      <4>1. CASE i \in Objective
        <5>1. (Objective \ w.todo) \cup {i} = Objective \ r /\ i \in Items \ (Objective \ w.todo)
          BY <2>2, <4>1 DEF r
        <5>2. FullPoints(Objective \ r) = FullPoints(Objective \ w.todo) + Full[i]
          BY <2>3, <5>1, FullPointsLaws
        <5> HIDE DEF n
        <5> QED BY <3>2, <3>3, <5>2
      <4>2. CASE i \notin Objective
        <5>1. FullPoints(Objective \ w.todo) <= FullPoints(Objective \ r)
          BY <2>3, FullPointsLaws
        <5> QED BY <3>2, <3>3, <4>2, <5>1
      <4> QED BY <4>1, <4>2
    <3> HIDE DEF n
    <3> QED BY <1>1, <2>3, <2>4, <3>1, <3>2, <3>3, <3>4 DEF Grading
  <2>5. CASE v.pc \in {"question", "finish"} /\ v.sum = w.sum /\ v.todo = r
    <3>1. Uncounted(b)' = r
      BY <2>5 DEF Uncounted, r
    <3>2. /\ FullPoints(Objective \ w.todo) <= FullPoints(Objective \ r)
          /\ FullPoints(Objective \ r) \in Nat /\ FullPoints(Objective \ w.todo) \in Nat
      BY <2>3, FullPointsLaws
    <3> QED BY <1>1, <2>3, <2>5, <3>1, <3>2
  <2>6. \/ v.pc = "find_row" /\ v.sum = w.sum + n /\ v.todo = w.todo
        \/ v.pc \in {"question", "finish"} /\ v.sum = w.sum /\ v.todo = r
    BY <1>0, <1>4 DEF SubmitQuestion, Onwards, Submit, i, r
  <2> QED BY <2>4, <2>5, <2>6
<1>5. CASE SubmitFindRow(b)
  <2>1. /\ w.pc = "find_row" /\ v.pc \in {"update", "insert"} /\ v.sum = w.sum
        /\ v.todo = w.todo
    BY <1>0, <1>5 DEF SubmitFindRow, SubmitGoto, Submit
  <2>2. Uncounted(b)' = Uncounted(b)
    BY <2>1 DEF Uncounted, Current
  <2> QED BY <2>1, <2>2 DEF Bounded, Grading
<1>6. CASE SubmitWrite(b)
  <2>1. /\ w.pc \in {"update", "insert"} /\ v.pc \in {"question", "finish"} /\ v.sum = w.sum
        /\ v.todo = w.todo \ {Current(b)}
    BY <1>0, <1>6 DEF SubmitWrite, Onwards, Submit
  <2>2. Uncounted(b)' = Uncounted(b)
    BY <2>1 DEF Uncounted
  <2> QED BY <2>1, <2>2 DEF Bounded, Grading
<1>7. CASE SubmitFinish(b) \/ SubmitCollect(b) \/ SubmitFail(b)
  <2>1. v.pc \in {"done", "collect", "failed"}
    BY <1>0, <1>7 DEF SubmitFinish, SubmitCollect, SubmitFail, SubmitGoto, Submit
  <2> QED BY <2>1 DEF Grading
<1> QED BY <1>2, <1>3, <1>4, <1>5, <1>6, <1>7 DEF SubmitStep

\* So does that of a grading.
LEMMA BoundedGrade ==
    ASSUME Typed, RowsCoherent, GradesRight, Bounded, NEW g \in Grades, GradeStep(g) \/ GradeFail(g)
    PROVE  /\ grade'[g].pc \in GradeSteps => grade'[g].objective <= FullPoints(Objective)
           /\ \A i \in Subjective : grade'[g].rows[i].score <= Full[i]
           /\ grade'[g].pc = "add" =>
                 /\ grade'[g].objective <= grade'[g].sum
                 /\ grade'[g].sum <=
                       grade'[g].objective + FullPoints(Subjective \ grade'[g].todo)
           /\ grade'[g].pc = "finish" =>
                 /\ grade'[g].objective <= grade'[g].sum
                 /\ grade'[g].sum <= grade'[g].objective + FullPoints(Subjective)
<1> DEFINE w == grade[g]
           v == grade'[g]
<1>0. grade \in [Grades -> Grade] /\ w \in Grade
  BY DEF Typed, TypeOK
<1>1. /\ w.sum \in Nat /\ w.objective \in Nat /\ w.todo \subseteq Items /\ w.have \subseteq Items
      /\ FullPoints(Subjective \ w.todo) \in Nat /\ FullPoints(Subjective \ w.have) \in Nat
      /\ Subjective \subseteq Items
  BY <1>0, FullPointsLaws DEF Grade, Subjective
<1>2. CASE GradeLoad(g)
  <2>1. /\ v.rows = w.rows
        /\ \/ v.pc = "exam" /\ v.objective = attempt.objective
           \/ v.pc = "refused"
    BY <1>0, <1>2 DEF GradeLoad, GradeGoto, Grade
  <2> QED BY <2>1 DEF Bounded, TotalsPossible, GradeSteps
<1>3. CASE GradeExam(g) \/ GradeItems(g) \/ GradeQuestion(g)
  <2>1. /\ v.rows = w.rows /\ v.objective = w.objective /\ w.pc \in GradeSteps
        /\ v.pc \in {"items", "refused", "answers", "question", "update"}
    BY <1>0, <1>3 DEF GradeExam, GradeItems, GradeQuestion, GradeGoto, Grade, GradeSteps
  <2> QED BY <2>1 DEF Bounded
<1>4. CASE GradeAnswers(g)
  <2>1. /\ v.rows = rows /\ v.objective = w.objective /\ w.pc \in GradeSteps
        /\ v.pc = "question"
    BY <1>0, <1>4 DEF GradeAnswers, Grade, GradeSteps
  <2>2. \A i \in Subjective : rows[i].score <= Full[i]
    BY DEF RowsCoherent, Subjective
  <2> QED BY <2>1, <2>2 DEF Bounded
<1>5. CASE GradeWrite(g)
  <2>1. /\ w.pc = "update" /\ v.pc = "question" /\ v.objective = w.objective
        /\ v.rows = [w.rows EXCEPT ![w.item] = ScoredRow(g)]
    BY <1>0, <1>5 DEF GradeWrite, Grade
  <2>2. w.item \in Items \ Objective /\ w.score[w.item] <= Full[w.item]
    BY <2>1 DEF GradesRight
  <2>3. w.rows \in [Items -> Row]
    BY <1>0 DEF Grade
  <2>4. ScoredRow(g).score = w.score[w.item]
    BY <2>2, <2>3 DEF ScoredRow, Row
  <2>5. \A i \in Subjective : v.rows[i].score <= Full[i]
    BY <1>1, <2>1, <2>2, <2>3, <2>4 DEF Bounded
  <2> QED BY <2>1, <2>5 DEF Bounded, GradeSteps
<1>6. CASE GradeSum(g)
  <2>1. /\ w.pc = "question" /\ v.pc = "add" /\ v.rows = w.rows /\ v.objective = w.objective
        /\ v.sum = w.objective /\ v.todo = w.have
    BY <1>0, <1>6 DEF GradeSum, Grade
  <2> QED BY <1>1, <2>1 DEF Bounded, GradeSteps
<1>7. CASE GradeAdd(g)
  <2>1. w.pc = "add" /\ w.objective <= w.sum
        /\ w.sum <= w.objective + FullPoints(Subjective \ w.todo)
        /\ w.objective <= FullPoints(Objective)
    BY <1>7 DEF GradeAdd, Bounded, GradeSteps
  <2>2. CASE grade' = [grade EXCEPT ![g].pc = "finish"] /\ w.todo = {}
    <3>1. /\ v.pc = "finish" /\ v.rows = w.rows /\ v.objective = w.objective /\ v.sum = w.sum
      BY <1>0, <2>2 DEF Grade
    <3>2. Subjective \ w.todo = Subjective
      BY <2>2
    <3> QED BY <2>1, <3>1, <3>2 DEF Bounded
  <2>3. ASSUME NEW i \in w.todo, grade' = [grade EXCEPT ![g].todo = @ \ {i}]
        PROVE  /\ v.pc = "add" /\ v.rows = w.rows /\ v.objective = w.objective /\ v.sum = w.sum
               /\ v.sum <= v.objective + FullPoints(Subjective \ v.todo)
    <3>1. /\ v.pc = "add" /\ v.rows = w.rows /\ v.objective = w.objective /\ v.sum = w.sum
          /\ v.todo = w.todo \ {i}
      BY <1>0, <2>1, <2>3 DEF Grade
    <3>2. /\ FullPoints(Subjective \ w.todo) <= FullPoints(Subjective \ v.todo)
          /\ FullPoints(Subjective \ v.todo) \in Nat
      BY <1>1, <3>1, FullPointsLaws
    <3> QED BY <1>1, <2>1, <3>1, <3>2
  <2>4. ASSUME NEW i \in w.todo, i \notin Objective,
               grade' = [grade EXCEPT ![g].todo = @ \ {i}, ![g].sum = @ + w.rows[i].score]
        PROVE  /\ v.pc = "add" /\ v.rows = w.rows /\ v.objective = w.objective
               /\ v.objective <= v.sum
               /\ v.sum <= v.objective + FullPoints(Subjective \ v.todo)
    <3>1. /\ v.pc = "add" /\ v.rows = w.rows /\ v.objective = w.objective
          /\ v.sum = w.sum + w.rows[i].score /\ v.todo = w.todo \ {i}
      BY <1>0, <2>1, <2>4 DEF Grade
    <3>2. i \in Subjective /\ i \in Items
      BY <1>1, <2>4 DEF Subjective
    <3>3. w.rows[i].score \in Nat /\ w.rows[i].score <= Full[i] /\ Full[i] \in Nat
      BY <1>0, <3>2 DEF Bounded, Grade, Row
    <3>4. (Subjective \ w.todo) \cup {i} = Subjective \ v.todo /\ i \in Items \ (Subjective \ w.todo)
      BY <2>4, <3>1, <3>2
    <3>5. FullPoints(Subjective \ v.todo) = FullPoints(Subjective \ w.todo) + Full[i]
      BY <1>1, <3>4, FullPointsLaws
    <3> QED BY <1>1, <2>1, <3>1, <3>3, <3>5
  <2>5. \/ grade' = [grade EXCEPT ![g].pc = "finish"] /\ w.todo = {}
        \/ \E i \in w.todo : grade' = [grade EXCEPT ![g].todo = @ \ {i}]
        \/ \E i \in w.todo : i \notin Objective /\
             grade' = [grade EXCEPT ![g].todo = @ \ {i}, ![g].sum = @ + w.rows[i].score]
    BY <1>7 DEF GradeAdd, GradeGoto
  <2> QED BY <2>1, <2>2, <2>3, <2>4, <2>5 DEF Bounded
<1>8. CASE GradeFinish(g) \/ GradeFail(g)
  <2>1. v.pc \in {"done", "failed"} /\ v.rows = w.rows
    BY <1>0, <1>8 DEF GradeFinish, GradeFail, GradeGoto, Grade
  <2> QED BY <2>1 DEF Bounded, GradeSteps
<1> QED BY <1>2, <1>3, <1>4, <1>5, <1>6, <1>7, <1>8 DEF GradeStep

\* Every step keeps it.
LEMMA BoundedStep == CoherentInv /\ Bounded /\ [Next]_vars => Bounded'
<1> SUFFICES ASSUME CoherentInv, Bounded, [Next]_vars PROVE Bounded'
  OBVIOUS
<1> USE DEF CoherentInv
<1>1. TotalsPossible'
  <2>0. FullPoints(Objective) \in Nat /\ FullPoints(Items \ Objective) \in Nat
    BY FullPointsLaws
  <2>1. ASSUME NEW b \in Submits, SubmitFinish(b) PROVE TotalsPossible'
    <3>1. submit[b].sum \in Nat /\ attempt'.objective = submit[b].sum
          /\ attempt'.total = submit[b].sum
      BY <2>1 DEF SubmitFinish, Typed, TypeOK, Submit
    <3>2. submit[b].sum <= FullPoints(Objective \ Uncounted(b))
      BY <2>1 DEF SubmitFinish, Bounded
    <3>3. /\ FullPoints(Objective \ Uncounted(b)) <= FullPoints(Objective)
          /\ FullPoints(Objective \ Uncounted(b)) \in Nat
      BY FullPointsLaws
    <3>4. attempt'.objective <= FullPoints(Objective)
      BY <2>0, <3>1, <3>2, <3>3
    <3> QED BY <2>0, <3>1, <3>4 DEF TotalsPossible, FullPoints
  <2>2. ASSUME NEW g \in Grades, GradeFinish(g) PROVE TotalsPossible'
    <3>1. /\ grade[g].sum \in Nat /\ grade[g].objective \in Nat
          /\ attempt'.objective = grade[g].objective /\ attempt'.total = grade[g].sum
      BY <2>2 DEF GradeFinish, Typed, TypeOK, Grade
    <3>2. /\ grade[g].objective <= FullPoints(Objective)
          /\ grade[g].objective <= grade[g].sum
          /\ grade[g].sum <= grade[g].objective + FullPoints(Items \ Objective)
      BY <2>2 DEF GradeFinish, Bounded, GradeSteps, Subjective
    <3> QED BY <2>0, <3>1, <3>2 DEF TotalsPossible, FullPoints
  <2>3. CASE UNCHANGED attempt
    BY <2>3 DEF Bounded, TotalsPossible, FullPoints
  <2> QED BY <2>1, <2>2, <2>3, TableWriters
<1>2. ASSUME NEW b \in Submits
      PROVE  /\ submit'[b].pc \in {"idle", "items", "answers"} => submit'[b].sum = 0
             /\ submit'[b].pc \in Grading \cup {"finish"} =>
                   submit'[b].sum <= FullPoints(Objective \ Uncounted(b)')
  <2>1. CASE submit'[b] = submit[b]
    <3>1. Uncounted(b)' = Uncounted(b)
      BY <2>1 DEF Uncounted, Current
    <3> QED BY <2>1, <3>1 DEF Bounded
  <2> QED BY <2>1, SubmitMoves, BoundedSubmit
<1>3. ASSUME NEW g \in Grades, grade'[g] # grade[g]
      PROVE  GradeStep(g) \/ GradeFail(g)
  BY <1>3, GradeMoves
<1> QED BY <1>1, <1>2, <1>3, BoundedGrade DEF Bounded, FullPoints

\* However submissions and gradings cross, the scores of an attempt stay possible.
THEOREM TotalsStayPossible == Spec => []TotalsPossible
<1>1. Init => Bounded
  BY BoundedInit
<1>2. CoherentInv /\ Bounded /\ [Next]_vars => Bounded'
  BY BoundedStep
<1>3. Bounded => TotalsPossible
  BY DEF Bounded
<1> QED BY <1>1, <1>2, <1>3, CoherentInvariant, PTL DEF Spec

-----------------------------------------------------------------------------
(* Scores that add up.                                                     *)

\* The points that rows r give the items of S.
Scores(r, S) == SumFunctionOnSet([i \in Items |-> r[i].score], S)

\* How they add up.
LEMMA ScoresLaws ==
    ASSUME NEW r \in [Items -> Row], NEW S, S \subseteq Items
    PROVE  /\ Scores(r, S) \in Nat
           /\ (\A i \in S : r[i].score = 0) => Scores(r, S) = 0
           /\ \A i \in Items \ S : Scores(r, S \cup {i}) = Scores(r, S) + r[i].score
           /\ \A q \in [Items -> Row] :
                 (\A i \in S : q[i].score = r[i].score) => Scores(q, S) = Scores(r, S)
<1> DEFINE f == [i \in Items |-> r[i].score]
<1>0. IsFiniteSet(S)
  BY FS_Subset
<1>1. \A i \in Items : f[i] = r[i].score /\ f[i] \in Nat
  BY DEF Row
<1>2. Scores(r, S) = SumFunctionOnSet(f, S)
  BY DEF Scores
<1>3. \A i \in Items : Scores(r, S \cup {i}) = SumFunctionOnSet(f, S \cup {i})
  BY DEF Scores
<1>4. ASSUME NEW q \in [Items -> Row], \A i \in S : q[i].score = r[i].score
      PROVE  Scores(q, S) = Scores(r, S)
  <2> DEFINE h == [i \in Items |-> q[i].score]
  <2>1. \A i \in S : f[i] \in Nat /\ f[i] = h[i]
    BY <1>1, <1>4
  <2>2. Scores(q, S) = SumFunctionOnSet(h, S)
    BY DEF Scores
  <2> HIDE DEF f, h
  <2>3. SumFunctionOnSet(f, S) = SumFunctionOnSet(h, S)
    BY <1>0, <2>1, SumSame
  <2> QED BY <1>2, <2>2, <2>3
<1> HIDE DEF f
<1>5. Scores(r, S) \in Nat
  <2>1. \A i \in S : f[i] \in Nat
    BY <1>1
  <2>2. SumFunctionOnSet(f, S) \in Nat
    BY <1>0, <2>1, SumType
  <2> QED BY <1>2, <2>2
<1>6. ASSUME \A i \in S : r[i].score = 0 PROVE Scores(r, S) = 0
  <2>1. \A i \in S : f[i] = 0
    BY <1>1, <1>6
  <2> QED BY <1>0, <1>2, <2>1, SumZero
<1>7. ASSUME NEW i \in Items \ S PROVE Scores(r, S \cup {i}) = Scores(r, S) + r[i].score
  <2>1. \A j \in S \cup {i} : f[j] \in Nat
    BY <1>1
  <2>2. SumFunctionOnSet(f, S \cup {i}) = f[i] + SumFunctionOnSet(f, S)
    BY <1>0, <2>1, SumPutIn
  <2>3. f[i] = r[i].score /\ f[i] \in Nat
    BY <1>1
  <2>4. Scores(r, S \cup {i}) = f[i] + Scores(r, S)
    BY <1>2, <1>3, <1>7, <2>2
  <2> HIDE ConstantsAssumption
  <2> QED BY <1>5, <2>3, <2>4
<1> QED BY <1>4, <1>5, <1>6, <1>7

\* What one item more adds.
LEMMA ScoresPutIn ==
    ASSUME NEW r \in [Items -> Row], NEW S, S \subseteq Items, NEW i \in Items, i \notin S
    PROVE  /\ Scores(r, S \cup {i}) = Scores(r, S) + r[i].score
           /\ Scores(r, S) \in Nat /\ r[i].score \in Nat
<1>1. r[i].score \in Nat
  BY DEF Row
<1>2. i \in Items \ S
  OBVIOUS
<1>3. /\ Scores(r, S) \in Nat
      /\ \A j \in Items \ S : Scores(r, S \cup {j}) = Scores(r, S) + r[j].score
  BY ScoresLaws
<1> QED BY <1>1, <1>2, <1>3

\* The points of the paper are those of its objective and of its other items.
LEMMA ScoresSplit ==
    ASSUME NEW r \in [Items -> Row]
    PROVE  Scores(r, Items) = Scores(r, Objective) + Scores(r, Subjective)
<1> DEFINE f == [i \in Items |-> r[i].score]
<1>1. \A i \in Items : f[i] \in Nat
  BY DEF Row
<1>2. /\ Scores(r, Items) = SumFunctionOnSet(f, Items)
      /\ Scores(r, Objective) = SumFunctionOnSet(f, Objective)
      /\ Scores(r, Subjective) = SumFunctionOnSet(f, Subjective)
  BY DEF Scores
<1> HIDE DEF f
<1>3. /\ Objective \cup Subjective = Items /\ Objective \cap Subjective = {}
      /\ IsFiniteSet(Objective) /\ IsFiniteSet(Subjective)
  BY FS_Subset DEF Subjective
<1>4. SumFunctionOnSet(f, Objective \cup Subjective) =
         SumFunctionOnSet(f, Objective) + SumFunctionOnSet(f, Subjective)
  BY <1>1, <1>3, SumUnion
<1> QED BY <1>2, <1>3, <1>4

\* The points of item i as submission b has marked it.
Marked(b, i) == IF i \in Objective /\ IsRight(b, i) THEN Full[i] ELSE 0

\* A submission at work has the points of the items it is done with, as they are
\* stored.
CountsStored(b) ==
    submit[b].pc \in Grading \cup {"finish"} =>
        /\ \A i \in Subjective \ submit[b].todo : rows[i].score = 0
        /\ submit[b].sum = Scores(rows, Objective \ submit[b].todo)
                             + IF submit[b].pc \in {"find_row", "update", "insert"}
                               THEN Marked(b, Current(b)) ELSE 0

\* So does a grading, of a submitted attempt.
AddsStored(g) ==
    /\ grade[g].pc \in GradeSteps => attempt.status = "submitted"
    /\ grade[g].pc \in {"question", "update", "add"} =>
          grade[g].have = Items /\ \A i \in Items : grade[g].rows[i] = rows[i]
    /\ grade[g].pc = "add" =>
          grade[g].sum = grade[g].objective + Scores(rows, Subjective \ grade[g].todo)
    /\ grade[g].pc = "finish" =>
          grade[g].sum = grade[g].objective + Scores(rows, Subjective)

\* A submitted attempt has the points of all its rows, and no save is under way.
Settled ==
    attempt.status = "submitted" =>
        /\ InFlight \cap Saves = {}
        /\ stored = Items
        /\ attempt.objective = Scores(rows, Objective)
        /\ ~unsummed => attempt.total = Scores(rows, Items)

\* While nothing crosses, nothing is deleted and no query errs, scores add up.
Summed ==
    (Intact /\ crossed = {}) =>
        /\ Settled
        /\ \A b \in Submits : CountsStored(b)
        /\ \A g \in Grades : AddsStored(g)

\* Nothing runs and nothing is stored by a submission at first.
LEMMA SummedInit == Init => Summed
<1> SUFFICES ASSUME Init PROVE Summed
  OBVIOUS
<1>1. /\ attempt.status = "in_progress"
      /\ \A b \in Submits : submit[b].pc = "idle"
      /\ \A g \in Grades : grade[g].pc = "idle"
  BY DEF Init
<1> QED BY <1>1 DEF Summed, Settled, CountsStored, AddsStored, Grading, GradeSteps

\* The steps of a submission count what they store.
LEMMA CountsOwn ==
    ASSUME StandInv, Thorough, Bounded, [Next]_vars, Intact, Intact', NEW b \in Submits,
           b \notin crossed, CountsStored(b), SubmitStep(b) \/ SubmitFail(b)
    PROVE  CountsStored(b)'
<1> USE DEF StandInv, CoherentInv
<1> DEFINE w == submit[b]
           v == submit'[b]
<1>0. /\ submit \in [Submits -> Submit] /\ w \in Submit /\ rows \in [Items -> Row]
      /\ rows' \in [Items -> Row] /\ w.todo \subseteq Items /\ w.sum \in Nat
  BY TypedNext DEF Typed, TypeOK, Submit
<1>1. CASE v.pc \notin Grading \cup {"finish"}
  BY <1>1 DEF CountsStored
<1>2. CASE SubmitLoad(b) \/ SubmitItems(b) \/ SubmitFinish(b) \/ SubmitCollect(b) \/ SubmitFail(b)
  <2>1. v.pc \in {"items", "refused", "answers", "done", "collect", "failed"}
    BY <1>0, <1>2 DEF SubmitLoad, SubmitItems, SubmitFinish, SubmitCollect, SubmitFail,
                      SubmitGoto, Submit
  <2> QED BY <2>1 DEF CountsStored, Grading
<1>3. CASE SubmitAnswers(b)
  <2>1. w.pc = "answers" /\ w.todo = Items
    BY <1>3 DEF SubmitAnswers, Thorough, Progress
  <2>2. v.pc = "question" /\ v.todo = Items /\ v.sum = w.sum
    BY <1>0, <1>3, <2>1 DEF SubmitAnswers, Onwards, Submit
  <2>3. v.sum = 0
    BY <2>1, <2>2 DEF Bounded
  <2>4. Subjective \ v.todo = {} /\ Objective \ v.todo = {}
    BY <2>2 DEF Subjective
  <2>5. Scores(rows', Objective \ v.todo) = 0
    <3>1. Scores(rows', {}) = 0
      BY <1>0, ScoresLaws
    <3> QED BY <2>4, <3>1
  <2> QED BY <2>2, <2>3, <2>4, <2>5 DEF CountsStored
<1>4. CASE SubmitQuestion(b)
  <2> DEFINE i == Current(b)
  <2>1. w.pc = "question" /\ UNCHANGED rows
    BY <1>4 DEF SubmitQuestion, tables
  <2>2. i \in Items /\ QuestionFound(i) /\ ~QuestionMissed(i)
    <3>1. i \in Items
      BY <2>1, AtItem
    <3> QED BY <1>4, <3>1, IntactBefore DEF SubmitQuestion, QuestionFound, QuestionMissed,
               Intact, Typed, TypeOK
  <2>3. /\ v.pc = "find_row" /\ v.todo = w.todo /\ v.text = w.text
        /\ v.sum = w.sum + Marked(b, i)
    BY <1>0, <1>4, <2>2 DEF SubmitQuestion, Marked, Submit
  <2>4. Marked(b, Current(b))' = Marked(b, i)
    BY <2>3 DEF Marked, Current, IsRight
  <2>5. Scores(rows', Objective \ v.todo) = Scores(rows, Objective \ w.todo)
    BY <2>1, <2>3
  <2>6. w.sum = Scores(rows, Objective \ w.todo) + 0
    BY <2>1 DEF CountsStored, Grading
  <2>7. Scores(rows, Objective \ w.todo) \in Nat
    <3>1. Objective \ w.todo \subseteq Items
      OBVIOUS
    <3> QED BY <1>0, <3>1, ScoresLaws
  <2>8. v.sum = Scores(rows', Objective \ v.todo) + Marked(b, Current(b))'
    BY <2>3, <2>4, <2>5, <2>6, <2>7
  <2>9. \A j \in Subjective \ v.todo : rows'[j].score = 0
    BY <2>1, <2>3 DEF CountsStored, Grading
  <2> QED BY <2>3, <2>8, <2>9 DEF CountsStored
<1>5. CASE SubmitFindRow(b)
  <2>1. /\ w.pc = "find_row" /\ v.pc \in {"update", "insert"} /\ v.todo = w.todo
        /\ v.text = w.text /\ v.sum = w.sum /\ UNCHANGED rows
    BY <1>0, <1>5 DEF SubmitFindRow, SubmitGoto, Submit, tables
  <2>2. Marked(b, Current(b))' = Marked(b, Current(b))
    BY <2>1 DEF Marked, Current, IsRight
  <2>3. Scores(rows', Objective \ v.todo) = Scores(rows, Objective \ w.todo)
    BY <2>1
  <2> QED BY <2>1, <2>2, <2>3 DEF CountsStored, Grading
<1>6. CASE SubmitWrite(b)
  <2>0. PICK i \in Items : i = Current(b) /\ i \in w.todo
    BY <1>6, AtItem DEF SubmitWrite
  <2>1. /\ w.pc \in {"update", "insert"} /\ v.pc \in {"question", "finish"}
        /\ v.todo = w.todo \ {i} /\ v.sum = w.sum
    BY <1>0, <1>6, <2>0 DEF SubmitWrite, Onwards, Submit
  <2>2. rows' = [rows EXCEPT ![i] = GradedRow(b, i)]
    BY <1>6, <2>0, TextsWritten
  <2>3. GradedRow(b, i).score = Marked(b, i)
    BY DEF GradedRow, Marked, Blank
  <2>4. rows'[i].score = Marked(b, i) /\ \A j \in Items : j # i => rows'[j] = rows[j]
    BY <1>0, <2>2, <2>3
  <2>5. \A j \in Subjective \ v.todo : rows'[j].score = 0
    <3>1. \A j \in Subjective \ w.todo : rows[j].score = 0
      BY <2>1 DEF CountsStored, Grading
    <3>2. i \notin Objective => Marked(b, i) = 0
      BY DEF Marked
    <3> QED BY <2>1, <2>4, <3>1, <3>2 DEF Subjective
  <2> DEFINE S == Objective \ w.todo
  <2>6. S \subseteq Items /\ i \notin S /\ Objective \ v.todo \subseteq Items
    BY <2>0
  <2>7. Scores(rows', S) = Scores(rows, S) /\ Scores(rows, S) \in Nat
    <3>1. \A j \in S : rows'[j].score = rows[j].score
      BY <2>4, <2>6
    <3> QED BY <1>0, <2>6, <3>1, ScoresLaws
  <2>8. Scores(rows', Objective \ v.todo) = Scores(rows, S) + Marked(b, i)
    <3>0. /\ i \in Objective => Objective \ v.todo = S \cup {i}
          /\ i \notin Objective => Objective \ v.todo = S
      BY <2>0, <2>1
    <3> HIDE DEF S
    <3>1. CASE i \in Objective
      <4>1. Objective \ v.todo = S \cup {i}
        BY <3>0, <3>1
      <4>2. Scores(rows', S \cup {i}) = Scores(rows', S) + rows'[i].score
        BY <1>0, <2>6, ScoresPutIn
      <4>3. Scores(rows', S) = Scores(rows, S) /\ rows'[i].score = Marked(b, i)
        BY <2>4, <2>7
      <4> QED BY <4>1, <4>2, <4>3
    <3>2. CASE i \notin Objective
      <4>1. Objective \ v.todo = S /\ Marked(b, i) = 0
        BY <3>0, <3>2 DEF Marked
      <4>2. Scores(rows', Objective \ v.todo) = Scores(rows, S)
        BY <2>7, <4>1, Zenon
      <4> QED BY <2>7, <4>1, <4>2
    <3> QED BY <3>1, <3>2
  <2>9. w.sum = Scores(rows, S) + Marked(b, i)
    BY <2>0, <2>1 DEF CountsStored, Grading
  <2>11. v.sum = Scores(rows', Objective \ v.todo) + 0
    <3>1. Scores(rows', Objective \ v.todo) \in Nat
      BY <1>0, <2>6, ScoresLaws
    <3> QED BY <2>1, <2>8, <2>9, <3>1
  <2> QED BY <2>1, <2>5, <2>11 DEF CountsStored
<1> QED BY <1>2, <1>3, <1>4, <1>5, <1>6 DEF SubmitStep

\* Those of others leave it its rows.
LEMMA CountsOthers ==
    ASSUME StandInv, [Next]_vars, NEW b \in Submits, b \notin crossed, CountsStored(b),
           ~(SubmitStep(b) \/ SubmitFail(b))
    PROVE  CountsStored(b)'
<1> USE DEF StandInv, CoherentInv
<1>1. submit'[b] = submit[b]
  BY SubmitMoves
<1>2. CASE submit[b].pc \notin Grading \cup {"finish"}
  BY <1>1, <1>2 DEF CountsStored
<1>3. CASE submit[b].pc \in Grading \cup {"finish"}
  <2>1. b \in InFlight
    BY <1>3 DEF InFlight, Grading, SubmitSteps
  <2>2. UNCHANGED rows
    BY <2>1, AloneWrites, TableWriters DEF SubmitStep
  <2>3. Marked(b, Current(b))' = Marked(b, Current(b))
    BY <1>1 DEF Marked, Current, IsRight
  <2>4. Scores(rows', Objective \ submit'[b].todo) = Scores(rows, Objective \ submit[b].todo)
    BY <1>1, <2>2
  <2> QED BY <1>1, <2>2, <2>3, <2>4 DEF CountsStored
<1> QED BY <1>2, <1>3

\* The steps of a grading add what is stored.
LEMMA AddsOwn ==
    ASSUME StandInv, [Next]_vars, Intact, Intact', Settled, NEW g \in Grades,
           AddsStored(g), GradeStep(g) \/ GradeFail(g)
    PROVE  AddsStored(g)'
<1> USE DEF StandInv, CoherentInv
<1> DEFINE w == grade[g]
           v == grade'[g]
<1>0. /\ grade \in [Grades -> Grade] /\ w \in Grade /\ rows \in [Items -> Row]
      /\ w.todo \subseteq Items /\ w.sum \in Nat /\ w.objective \in Nat
      /\ w.rows \in [Items -> Row]
  BY DEF Typed, TypeOK, Grade
<1>1. attempt.status = "submitted" => attempt'.status = "submitted"
  BY StandsStep
<1>2. CASE GradeLoad(g)
  <2>1. v.pc \in {"exam", "refused"} /\ (v.pc = "exam" => attempt.status = "submitted")
    BY <1>0, <1>2 DEF GradeLoad, GradeGoto, Grade
  <2> QED BY <1>1, <2>1 DEF AddsStored, GradeSteps
<1>3. CASE GradeExam(g) \/ GradeItems(g) \/ GradeFinish(g) \/ GradeFail(g)
  <2>1. /\ v.pc \in {"items", "refused", "answers", "done", "failed"}
        /\ w.pc \in GradeSteps
    BY <1>0, <1>3 DEF GradeExam, GradeItems, GradeFinish, GradeFail, GradeGoto, Grade, GradeSteps
  <2> QED BY <1>1, <2>1 DEF AddsStored
<1>4. CASE GradeAnswers(g)
  <2>1. /\ w.pc = "answers" /\ v.pc = "question" /\ v.have = stored /\ v.rows = rows
        /\ UNCHANGED rows
    BY <1>0, <1>4 DEF GradeAnswers, Grade, tables
  <2>2. attempt.status = "submitted"
    BY <2>1 DEF AddsStored, GradeSteps
  <2> QED BY <1>1, <2>1, <2>2 DEF AddsStored, Settled
<1>5. CASE GradeQuestion(g)
  <2>1. /\ w.pc = "question" /\ v.pc \in {"question", "update", "refused"}
        /\ v.have = w.have /\ v.rows = w.rows /\ UNCHANGED rows
    BY <1>0, <1>5 DEF GradeQuestion, GradeGoto, Grade, tables
  <2> QED BY <1>1, <2>1 DEF AddsStored, GradeSteps
<1>6. CASE GradeWrite(g)
  <2>1. w.pc = "update" /\ v.pc = "question" /\ v.have = w.have
    BY <1>0, <1>6 DEF GradeWrite, Grade
  <2>2. /\ w.item \in Items /\ rows' = [rows EXCEPT ![w.item] = ScoredRow(g)]
        /\ v.rows = [w.rows EXCEPT ![w.item] = ScoredRow(g)]
    BY <1>6, TextsWritten
  <2>3. \A i \in Items : v.rows[i] = rows'[i]
    BY <1>0, <2>1, <2>2 DEF AddsStored
  <2> QED BY <1>1, <2>1, <2>3 DEF AddsStored, GradeSteps
<1>7. CASE GradeSum(g)
  <2>1. /\ w.pc = "question" /\ v.pc = "add" /\ v.have = w.have /\ v.rows = w.rows
        /\ v.todo = w.have /\ v.sum = w.objective /\ v.objective = w.objective
        /\ UNCHANGED rows
    BY <1>0, <1>7 DEF GradeSum, Grade, tables
  <2>2. w.have = Items /\ \A i \in Items : w.rows[i] = rows[i]
    BY <2>1 DEF AddsStored
  <2>3. Subjective \ v.todo = {}
    BY <2>1, <2>2 DEF Subjective
  <2>4. Scores(rows', Subjective \ v.todo) = 0
    <3>1. Scores(rows, {}) = 0
      BY <1>0, ScoresLaws
    <3> QED BY <2>1, <2>3, <3>1
  <2>5. v.sum = v.objective + Scores(rows', Subjective \ v.todo)
    BY <1>0, <2>1, <2>4
  <2>6. attempt'.status = "submitted"
    BY <1>1, <2>1 DEF AddsStored, GradeSteps
  <2> QED BY <2>1, <2>2, <2>5, <2>6 DEF AddsStored
<1>8. CASE GradeAdd(g)
  <2>1. w.pc = "add" /\ UNCHANGED rows
    BY <1>8 DEF GradeAdd, tables
  <2>2. /\ w.have = Items /\ \A i \in Items : w.rows[i] = rows[i]
        /\ w.sum = w.objective + Scores(rows, Subjective \ w.todo)
        /\ attempt'.status = "submitted"
    BY <1>1, <2>1 DEF AddsStored, GradeSteps
    <2>4. CASE grade' = [grade EXCEPT ![g].pc = "finish"] /\ w.todo = {}
    <3>1. v.pc = "finish" /\ v.objective = w.objective /\ v.sum = w.sum
      BY <1>0, <2>4 DEF Grade
    <3>2. Subjective \ w.todo = Subjective
      BY <2>4
    <3>3. Scores(rows', Subjective) = Scores(rows, Subjective \ w.todo)
      BY <2>1, <3>2
    <3>4. v.sum = v.objective + Scores(rows', Subjective)
      BY <2>2, <3>1, <3>3
    <3> QED BY <2>2, <3>1, <3>4 DEF AddsStored
  <2>5. ASSUME NEW i \in w.todo, i \in Objective, grade' = [grade EXCEPT ![g].todo = @ \ {i}]
        PROVE  AddsStored(g)'
    <3>1. /\ v.pc = "add" /\ v.rows = w.rows /\ v.have = w.have /\ v.objective = w.objective
          /\ v.sum = w.sum /\ v.todo = w.todo \ {i}
      BY <1>0, <2>1, <2>5 DEF Grade
    <3>2. Subjective \ w.todo = Subjective \ v.todo
      BY <2>5, <3>1 DEF Subjective
    <3>3. Scores(rows', Subjective \ v.todo) = Scores(rows, Subjective \ w.todo)
      BY <2>1, <3>2
    <3>4. v.sum = v.objective + Scores(rows', Subjective \ v.todo)
      BY <2>2, <3>1, <3>3
    <3> QED BY <2>1, <2>2, <3>1, <3>4 DEF AddsStored
  <2>6. ASSUME NEW i \in w.todo, i \notin Objective,
               grade' = [grade EXCEPT ![g].todo = @ \ {i}, ![g].sum = @ + w.rows[i].score]
        PROVE  AddsStored(g)'
    <3>1. /\ v.pc = "add" /\ v.rows = w.rows /\ v.have = w.have /\ v.objective = w.objective
          /\ v.sum = w.sum + w.rows[i].score /\ v.todo = w.todo \ {i}
      BY <1>0, <2>1, <2>6 DEF Grade
    <3> DEFINE S == Subjective \ w.todo
    <3>2. /\ S \subseteq Items /\ i \in Items \ S /\ Subjective \ v.todo = S \cup {i}
      BY <1>0, <2>6, <3>1 DEF Subjective
    <3> HIDE DEF S
    <3>3. Scores(rows, S \cup {i}) = Scores(rows, S) + rows[i].score /\ Scores(rows, S) \in Nat
      BY <1>0, <3>2, ScoresPutIn
    <3>4. Scores(rows', Subjective \ v.todo) = Scores(rows, S \cup {i})
      BY <2>1, <3>2
    <3>5. w.rows[i].score = rows[i].score /\ rows[i].score \in Nat
      BY <1>0, <2>2, <3>2 DEF Row
    <3>6. v.sum = v.objective + Scores(rows', Subjective \ v.todo)
      BY <1>0, <2>2, <3>1, <3>3, <3>4, <3>5 DEF S
    <3> QED BY <2>1, <2>2, <3>1, <3>6 DEF AddsStored
  <2>7. \A i \in Items : ~QuestionMissed(i)
    BY IntactBefore DEF QuestionFound, QuestionMissed, Intact, Typed, TypeOK
  <2>8. \/ grade' = [grade EXCEPT ![g].pc = "finish"] /\ w.todo = {}
        \/ \E i \in w.todo : i \in Objective /\ grade' = [grade EXCEPT ![g].todo = @ \ {i}]
        \/ \E i \in w.todo : i \notin Objective /\
             grade' = [grade EXCEPT ![g].todo = @ \ {i}, ![g].sum = @ + w.rows[i].score]
    BY <1>0, <1>8, <2>7 DEF GradeAdd, GradeGoto
  <2> QED BY <2>4, <2>5, <2>6, <2>8
<1> QED BY <1>2, <1>3, <1>4, <1>5, <1>6, <1>7, <1>8 DEF GradeStep

\* Those of others leave it its rows, and the attempt submitted.
LEMMA AddsOthers ==
    ASSUME StandInv, [Next]_vars, NEW g \in Grades, g \notin crossed, AddsStored(g),
           ~(GradeStep(g) \/ GradeFail(g))
    PROVE  AddsStored(g)'
<1> USE DEF StandInv, CoherentInv
<1>1. grade'[g] = grade[g]
  BY GradeMoves
<1>2. CASE grade[g].pc \notin GradeSteps
  BY <1>1, <1>2 DEF AddsStored, GradeSteps
<1>3. CASE grade[g].pc \in GradeSteps
  <2>1. g \in InFlight
    BY <1>3 DEF InFlight
  <2>2. UNCHANGED rows
    BY <2>1, AloneWrites, TableWriters DEF GradeStep
  <2>3. attempt'.status = "submitted"
    BY <1>3, StandsStep DEF AddsStored
  <2>4. Scores(rows', Subjective \ grade'[g].todo) = Scores(rows, Subjective \ grade[g].todo)
    BY <1>1, <2>2
  <2>5. Scores(rows', Subjective) = Scores(rows, Subjective)
    BY <2>2
  <2> QED BY <1>1, <2>2, <2>3, <2>4, <2>5 DEF AddsStored
<1> QED BY <1>2, <1>3

\* A submission nobody crossed submits with the points of all rows, and a
\* grading nobody crossed keeps the total.
LEMMA SettledStep ==
    ASSUME StandInv, Thorough, Summed, [Next]_vars, Intact, crossed = {}, Intact'
    PROVE  Settled'
<1> USE DEF StandInv, CoherentInv
<1>0. rows \in [Items -> Row] /\ rows' \in [Items -> Row] /\ Subjective \subseteq Items
  BY TypedNext DEF Typed, TypeOK, Subjective
<1>1. /\ Settled /\ \A b \in Submits : CountsStored(b)
      /\ \A g \in Grades : AddsStored(g)
  BY DEF Summed
<1>3. CASE attempt.status = "submitted"
  <2>1. InFlight' \cap Saves = {}
    <3>1. ASSUME NEW s \in Saves PROVE save'[s].pc \notin SaveSteps
      <4>1. save[s].pc \notin SaveSteps
        BY <1>1, <1>3 DEF Settled, InFlight
      <4>2. CASE SaveStep(s) \/ SaveFail(s)
        <5>1. SaveLoad(s)
          BY <4>1, <4>2 DEF SaveStep, SaveFail, SaveFindItem, SaveFindRow, SaveWrite, SaveSteps
        <5> QED BY <1>3, <5>1 DEF SaveLoad, SaveGoto, SaveSteps, Typed, TypeOK, Save
      <4> QED BY <4>1, <4>2, SaveMoves
    <3> QED BY <3>1 DEF InFlight
  <2>2. \A s \in Saves : ~SaveWrite(s)
    BY <1>1, <1>3 DEF Settled, InFlight, SaveWrite, SaveSteps
  <2>3. \A b \in Submits : ~SubmitWrite(b) /\ ~SubmitFinish(b)
    BY <1>3 DEF Fresh, SubmitWrite, SubmitFinish, Unfinished, Grading
  <2>4. stored' = stored
    BY <2>2, <2>3, TableWriters DEF GradeWrite, Updates
  <2>5. CASE \E g \in Grades : GradeWrite(g)
    <3>1. PICK g \in Grades : GradeWrite(g)
      BY <2>5
    <3>2. grade[g].item \in Items \ Objective /\ unsummed' = TRUE /\ attempt' = attempt
      BY <3>1 DEF GradeWrite, GradesRight
    <3>3. \A i \in Objective : rows'[i].score = rows[i].score
      <4>1. rows' = [rows EXCEPT ![grade[g].item] = ScoredRow(g)]
        BY <3>1, TextsWritten
      <4> QED BY <1>0, <3>2, <4>1
    <3>4. Scores(rows', Objective) = Scores(rows, Objective)
      BY <1>0, <3>3, ScoresLaws
    <3> QED BY <1>1, <1>3, <2>1, <2>4, <3>2, <3>4 DEF Settled
  <2>6. ASSUME NEW g \in Grades, GradeFinish(g) PROVE Settled'
    <3>1. /\ grade[g].pc = "finish" /\ attempt'.objective = grade[g].objective
          /\ attempt'.total = grade[g].sum /\ UNCHANGED rows
      BY <2>6 DEF GradeFinish
    <3>2. grade[g].objective = attempt.objective
      BY <3>1 DEF Fresh, GradeSteps
    <3>3. grade[g].sum = grade[g].objective + Scores(rows, Subjective)
      BY <1>1, <3>1 DEF AddsStored
    <3>4. attempt.objective = Scores(rows, Objective)
      BY <1>1, <1>3 DEF Settled
    <3>5. attempt'.total = Scores(rows, Items)
      BY <1>0, <3>1, <3>2, <3>3, <3>4, ScoresSplit
    <3> QED BY <1>1, <1>3, <2>1, <2>4, <3>1, <3>2, <3>4, <3>5 DEF Settled
  <2>7. CASE UNCHANGED <<rows, attempt>> /\ \A g \in Grades : ~GradeWrite(g) /\ ~GradeFinish(g)
    <3>1. UNCHANGED unsummed
      BY <2>3, <2>7 DEF Next, SaveStep, SaveFail, SaveLoad, SaveFindItem, SaveFindRow, SaveWrite,
         SubmitStep, SubmitFail, SubmitLoad, SubmitItems, SubmitAnswers, SubmitQuestion,
         SubmitFindRow, SubmitCollect, GradeStep, GradeFail, GradeLoad, GradeExam, GradeItems,
         GradeAnswers, GradeQuestion, GradeSum, GradeAdd, DeleteExam, DeleteQuestion,
         DeadlinePasses, locals, vars
    <3> QED BY <1>1, <1>3, <2>1, <2>4, <2>7, <3>1 DEF Settled
  <2> QED BY <2>2, <2>3, <2>5, <2>6, <2>7, TableWriters
<1>4. CASE attempt.status # "submitted" /\ attempt'.status = "submitted"
  <2>1. \A g \in Grades : ~GradeFinish(g)
    BY <1>1, <1>4 DEF GradeFinish, AddsStored, GradeSteps
  <2>2. PICK b \in Submits : SubmitFinish(b)
    BY <1>4, <2>1, TableWriters
  <2>3. /\ submit[b].pc = "finish" /\ UNCHANGED <<rows, stored, save>>
        /\ attempt'.objective = submit[b].sum /\ attempt'.total = submit[b].sum
    BY <2>2 DEF SubmitFinish
  <2>4. submit[b].todo = {} /\ \A i \in Items : i \in stored
    BY <2>3 DEF Thorough, Progress, Handled
  <2>5. stored' = Items
    BY <2>3, <2>4 DEF Typed, TypeOK
  <2>6. /\ \A i \in Subjective : rows[i].score = 0
        /\ submit[b].sum = Scores(rows, Objective) + 0
    <3>1. Objective \ submit[b].todo = Objective /\ Subjective \ submit[b].todo = Subjective
      BY <2>4
    <3> QED BY <1>1, <2>3, <3>1 DEF CountsStored
  <2>7. Scores(rows, Objective) \in Nat /\ Scores(rows, Subjective) = 0
    BY <1>0, <2>6, ScoresLaws
  <2>8. Scores(rows, Items) = submit[b].sum /\ Scores(rows, Objective) = submit[b].sum
    BY <1>0, <2>6, <2>7, ScoresSplit
  <2>9. InFlight' \cap Saves = {}
    <3>1. b \in InFlight
      BY <2>3 DEF InFlight, SubmitSteps
    <3>2. InFlight \cap Saves = {}
      BY <3>1 DEF Crossing
    <3> QED BY <2>3, <3>2 DEF InFlight
  <2> QED BY <2>3, <2>5, <2>8, <2>9 DEF Settled
<1>5. CASE attempt'.status # "submitted"
  BY <1>5 DEF Settled
<1> QED BY <1>3, <1>4, <1>5

\* Every step keeps it.
LEMMA SummedStep == StandInv /\ Thorough /\ Bounded /\ Summed /\ [Next]_vars => Summed'
<1> SUFFICES ASSUME StandInv, Thorough, Bounded, Summed, [Next]_vars, Intact', crossed' = {}
             PROVE  /\ Settled' /\ \A b \in Submits : CountsStored(b)'
                    /\ \A g \in Grades : AddsStored(g)'
  BY DEF Summed
<1>1. Intact /\ crossed = {}
  BY IntactBefore, Flights DEF StandInv, CoherentInv
<1>2. /\ Settled /\ \A b \in Submits : CountsStored(b)
      /\ \A g \in Grades : AddsStored(g)
  BY <1>1 DEF Summed
<1>3. Settled'
  BY <1>1, SettledStep
<1>4. ASSUME NEW b \in Submits PROVE CountsStored(b)'
  BY <1>1, <1>2, CountsOwn, CountsOthers
<1>5. ASSUME NEW g \in Grades PROVE AddsStored(g)'
  BY <1>1, <1>2, AddsOwn, AddsOthers
<1> QED BY <1>3, <1>4, <1>5

\* At rest, and if nothing ever crossed, the scores of a submitted attempt are
\* those of its answers.
THEOREM ScoresSettle == Spec => []SettledScores
<1>1. Init => StandInv /\ Thorough /\ Bounded /\ Summed
  BY TypedInit, AdmittedInit, CoherentInit, CrossingInit, FreshInit, ThoroughInit, BoundedInit,
     SummedInit DEF StandInv, CoherentInv
<1>2. StandInv /\ Thorough /\ Bounded /\ Summed /\ [Next]_vars => Thorough' /\ Bounded' /\ Summed'
  BY ThoroughStep, BoundedStep, SummedStep DEF StandInv
<1>3. Summed => SettledScores
  BY DEF Summed, Settled, SettledScores, Points, Scores
<1> QED BY <1>1, <1>2, <1>3, StandInvariant, PTL DEF Spec

-----------------------------------------------------------------------------
(***************************************************************************)
(* The second part, about Reports.tla.                                     *)
(***************************************************************************)
HIDE ConstantsAssumption
USE ReportAssumption

\* Where a detail or a report is under way.
Under == {"items", "answers", "questions", "rank"}

\* A request that got in was let in.
LetIn(r, at, d) ==
    /\ at \in Under => r \in Details \cup Reportings
    /\ at = "rank" => r \in Reportings
    /\ at = "list" => r \in Gradings \cup Statistics
    /\ at \in Under \cup {"list", "done"} => RouteOpen(r) /\ InScope(caller[r], d.attempt)

\* What a report or detail has read still stands unless an attempt was written, and
\* being submitted and the attempt's rank stand in any case; every item is looked up
\* or still to be, has been missed or is deleted.
ReportReads(r, at, d) ==
    (r \in Details \cup Reportings /\ at \in Under \cup {"done"}) =>
        LET a == attempts[d.attempt]
        IN  /\ d.submitted => a.status = "submitted"
            /\ at # "done" => d.rank = 0 /\ d.participants = 0
            /\ d.rank <= d.participants
            /\ at = "done" /\ d.submitted /\ d.participants > 0 => d.rank > 0
            /\ at # "items" => Paper \subseteq d.seen \cup d.todo \cup d.missed \cup Gone
            /\ at \in {"rank", "done"} => d.todo = {}
            /\ r \notin stale =>
                  /\ d.total = a.total
                  /\ at \notin {"items", "answers"} => d.scores = a.scores
                  /\ d.rank > 0 => \E s \in Orders : d.rank \in DOMAIN s /\ s[d.rank] = d.attempt

\* What the statistics have read is coherent and, unless an attempt was written,
\* their ranking is one of the attempts as they are.
AddsUp(d) ==
    LET n == d.participants
    IN  /\ \A k, l \in 1..n : k < l => d.order[k].total >= d.order[l].total
        /\ n > 0 => /\ 100 * d.order[n].total <= d.average
                    /\ d.average <= 100 * d.order[1].total
        /\ SumFunctionOnSet(d.buckets, 1..5) = n
        /\ d.pass = n - d.buckets[1]
        /\ {d.order[k].attempt : k \in 1..n} = d.listed

StatsRead(r, at, d) ==
    (r \in Statistics /\ at = "done") =>
        /\ AddsUp(d)
        /\ r \notin stale => \E s \in Orders : \A n \in DOMAIN s : d.order[n].attempt = s[n]

Knows(r, at, d) == LetIn(r, at, d) /\ ReportReads(r, at, d) /\ StatsRead(r, at, d)

ReportsInv == ReportsTypeOK /\ \A r \in Queries : Knows(r, pc[r], reading[r])

-----------------------------------------------------------------------------
(* Attempts and their orders.                                              *)

\* The rows there are.
LEMMA RowsTyped ==
    ASSUME ReportsTypeOK
    PROVE  /\ Ids = 1..Len(attempts) /\ Len(attempts) \in Nat /\ IsFiniteSet(Ids)
           /\ \A i \in Ids : attempts[i] \in Attempt
           /\ Submitted \subseteq Ids /\ IsFiniteSet(Submitted)
           /\ Cardinality(Submitted) \in 0..Len(attempts)
<1>1. Ids = 1..Len(attempts) /\ Len(attempts) \in Nat /\ \A i \in Ids : attempts[i] \in Attempt
  BY LenProperties, ElementOfSeq DEF ReportsTypeOK, Ids
<1>2. IsFiniteSet(Ids) /\ Cardinality(Ids) = Len(attempts)
  <2>1. \A n \in Nat : IsFiniteSet(1..n) /\ Cardinality(1..n) = n
    BY FS_Interval
  <2> QED BY <1>1, <2>1
<1>3. Submitted \subseteq Ids
  BY DEF Submitted
<1>4. /\ IsFiniteSet(Submitted) /\ Cardinality(Submitted) \in Nat
      /\ Cardinality(Submitted) <= Cardinality(Ids)
  BY <1>2, <1>3, FS_Subset, FS_CardinalityType
<1> QED BY <1>1, <1>2, <1>3, <1>4

\* Being ahead compares numbers.
LEMMA AheadTyped ==
    ASSUME ReportsTypeOK, NEW i \in Ids, NEW j \in Ids
    PROVE  /\ attempts[i].total \in Nat /\ attempts[i].at \in Nat
           /\ ~Ahead(i, i)
           /\ ~Ahead(i, j) => attempts[i].total <= attempts[j].total
<1>1. /\ attempts[i].total \in Nat /\ attempts[i].at \in Nat
      /\ attempts[j].total \in Nat /\ attempts[j].at \in Nat
  BY RowsTyped DEF Attempt
<1> QED BY <1>1 DEF Ahead

\* An order is a sequence without repetition of all submitted attempts.
LEMMA OrderIs ==
    ASSUME ReportsTypeOK, NEW s \in Orders
    PROVE  /\ s \in Seq(Submitted) /\ Len(s) = Cardinality(Submitted)
           /\ DOMAIN s = 1..Len(s) /\ Len(s) \in 0..Len(attempts)
           /\ \A m, n \in DOMAIN s : m < n => s[m] # s[n] /\ ~Ahead(s[n], s[m])
           /\ \A n \in DOMAIN s : s[n] \in Submitted
           /\ \A i \in Submitted : \E n \in DOMAIN s : s[n] = i
<1> DEFINE c == Cardinality(Submitted)
<1>1. /\ s \in [1..c -> Submitted]
      /\ \A m, n \in DOMAIN s : m < n => s[m] # s[n] /\ ~Ahead(s[n], s[m])
  BY DEF Orders
<1>2. c \in Nat /\ c \in 0..Len(attempts) /\ IsFiniteSet(Submitted)
  BY RowsTyped
<1>3. s \in Seq(Submitted)
  <2> HIDE DEF c
  <2> QED BY <1>1, <1>2, SeqDef
<1>4. Len(s) = c
  <2>1. DOMAIN s = 1..Len(s) /\ Len(s) \in Nat
    BY <1>3, LenProperties
  <2>2. DOMAIN s = 1..c
    BY <1>1
  <2> HIDE DEF c
  <2>3. \A n \in Nat : Cardinality(1..n) = n
    BY FS_Interval
  <2> QED BY <1>2, <2>1, <2>2, <2>3
<1>5. ASSUME NEW i \in Submitted, \A n \in DOMAIN s : s[n] # i
      PROVE  FALSE
  <2> DEFINE T == Submitted \ {i}
  <2> HIDE DEF c
  <2>1. s \in [1..c -> T]
    <3>1. DOMAIN s = 1..c /\ \A n \in 1..c : s[n] \in Submitted /\ s[n] # i
      BY <1>1, <1>5
    <3>2. s = [n \in 1..c |-> s[n]]
      BY <1>1
    <3> QED BY <3>1, <3>2
  <2>2. \A m, n \in 1..c : s[m] = s[n] => m = n
    <3> SUFFICES ASSUME NEW m \in 1..c, NEW n \in 1..c, s[m] = s[n], m # n PROVE FALSE
      OBVIOUS
    <3>1. m < n \/ n < m
      BY <1>2
    <3> QED BY <3>1, <1>1
  <2>3. s \in Injection(1..c, T)
    BY <2>1, <2>2 DEF Injection, IsInjective
  <2>4. IsFiniteSet(T) /\ Cardinality(T) = c - 1
    <3> USE DEF c
    <3> QED BY <1>2, FS_RemoveElement
  <2>5. Cardinality(1..c) <= Cardinality(T)
    <3> HIDE DEF T
    <3> QED BY <2>3, <2>4, FS_Injection
  <2>6. Cardinality(1..c) = c
    BY <1>2, FS_Interval
  <2> HIDE DEF T
  <2> QED BY <1>2, <2>4, <2>5, <2>6
<1> HIDE DEF c
<1>6. c = Cardinality(Submitted)
  BY DEF c
<1> QED BY <1>1, <1>2, <1>3, <1>4, <1>5, <1>6, LenProperties

\* Where no two attempts tie, the place of one in an order is given by the
\* number of those ahead of it.
LEMMA PlaceIs ==
    ASSUME ReportsTypeOK, NEW s \in Orders, NEW k \in DOMAIN s,
           \A i, j \in Submitted : i # j => Ahead(i, j) \/ Ahead(j, i)
    PROVE  k = Cardinality({j \in Submitted : Ahead(j, s[k])}) + 1
<1> DEFINE B == {j \in Submitted : Ahead(j, s[k])}
           f == [m \in 1..(k - 1) |-> s[m]]
<1>1. /\ DOMAIN s = 1..Len(s) /\ Len(s) \in Nat
      /\ \A m, n \in DOMAIN s : m < n => s[m] # s[n] /\ ~Ahead(s[n], s[m])
      /\ \A n \in DOMAIN s : s[n] \in Submitted
      /\ \A i \in Submitted : \E n \in DOMAIN s : s[n] = i
  <2>1. Len(s) \in 0..Len(attempts) /\ Len(attempts) \in Nat
    BY OrderIs, RowsTyped
  <2> QED BY <2>1, OrderIs
<1>2. k \in 1..Len(s) /\ k - 1 \in Nat /\ \A m \in 1..(k - 1) : m \in DOMAIN s /\ m < k
  BY <1>1
<1>3. \A m \in 1..(k - 1) : s[m] \in B
  BY <1>1, <1>2
<1>4. \A j \in B : \E m \in 1..(k - 1) : s[m] = j
  <2> SUFFICES ASSUME NEW j \in B PROVE \E m \in 1..(k - 1) : s[m] = j
    OBVIOUS
  <2>1. PICK m \in DOMAIN s : s[m] = j
    BY <1>1
  <2>2. ~(k < m)
    BY <1>1, <2>1
  <2>3. m # k
    <3>1. s[k] \in Ids
      BY <1>1 DEF Submitted
    <3> QED BY <2>1, <3>1, AheadTyped
  <2>4. m \in 1..(k - 1)
    BY <1>1, <1>2, <2>2, <2>3
  <2> QED BY <2>1, <2>4
<1> HIDE DEF B
<1>5. \A m, n \in 1..(k - 1) : s[m] = s[n] => m = n
  <2> SUFFICES ASSUME NEW m \in 1..(k - 1), NEW n \in 1..(k - 1), s[m] = s[n], m # n
               PROVE  FALSE
    OBVIOUS
  <2>1. m < n \/ n < m
    BY <1>2
  <2> QED BY <2>1, <1>1, <1>2
<1>6. f \in Bijection(1..(k - 1), B)
  <2>1. f \in [1..(k - 1) -> B] /\ \A m \in 1..(k - 1) : f[m] = s[m]
    BY <1>3
  <2> HIDE DEF f
  <2>2. f \in Injection(1..(k - 1), B)
    BY <2>1, <1>5 DEF Injection, IsInjective
  <2>3. f \in Surjection(1..(k - 1), B)
    BY <2>1, <1>4 DEF Surjection
  <2> QED BY <2>2, <2>3 DEF Bijection
<1>7. ExistsBijection(1..(k - 1), B)
  BY <1>6 DEF ExistsBijection
<1>8. Cardinality(B) = k - 1
  BY <1>2, <1>7, FS_CountingElements
<1> QED BY <1>2, <1>8 DEF B

-----------------------------------------------------------------------------
(* Sums of scores.                                                         *)

\* Sums over the paper are numbers.
LEMMA SumsTyped ==
    ASSUME ReportsTypeOK, NEW i \in Ids, NEW S \in SUBSET Paper
    PROVE  Sum(i, S) \in Nat
<1>1. attempts[i].scores \in [Paper -> Nat]
  BY RowsTyped DEF Attempt
<1>2. IsFiniteSet(S)
  BY FS_Subset DEF ReportAssumption
<1> QED BY <1>1, <1>2, SumType DEF Sum

\* The parts by type and what was left out make up the whole.
LEMMA PartsAddUp ==
    ASSUME ReportsTypeOK, NEW i \in Ids, NEW d \in Reading, d.scores = attempts[i].scores
    PROVE  Part(d, "objective") + Part(d, "subjective") + Sum(i, Paper \ d.seen)
              = Sum(i, Paper)
<1> DEFINE S == d.seen
           Of(k) == {it \in S : Kind[it] = k}
<1>1. PICK f \in [Paper -> Nat] : f = attempts[i].scores /\ f = d.scores
  BY RowsTyped DEF Attempt
<1>2. S \in SUBSET Paper
  BY DEF Reading
<1>3. \A T \in SUBSET Paper : IsFiniteSet(T)
  BY FS_Subset DEF ReportAssumption
<1>4. \A T \in SUBSET Paper : SumFunctionOnSet(f, T) \in Nat
  BY <1>3, SumType
<1>5. /\ Part(d, "objective") = SumFunctionOnSet(f, Of("objective"))
      /\ Part(d, "subjective") = SumFunctionOnSet(f, Of("subjective"))
      /\ Sum(i, Paper) = SumFunctionOnSet(f, Paper)
      /\ Sum(i, Paper \ d.seen) = SumFunctionOnSet(f, Paper \ S)
  BY <1>1 DEF Part, Sum
<1> HIDE DEF S
<1>6. /\ Of("objective") \cup Of("subjective") = S
      /\ Of("objective") \cap Of("subjective") = {}
      /\ Of("objective") \in SUBSET Paper /\ Of("subjective") \in SUBSET Paper
  BY <1>2 DEF ReportAssumption, Kinds
<1> HIDE DEF Of
<1>7. SumFunctionOnSet(f, S)
         = SumFunctionOnSet(f, Of("objective")) + SumFunctionOnSet(f, Of("subjective"))
  <2>1. \A x \in Of("objective") \cup Of("subjective") : f[x] \in Nat
    BY <1>6
  <2>2. SumFunctionOnSet(f, Of("objective") \cup Of("subjective"))
           = SumFunctionOnSet(f, Of("objective")) + SumFunctionOnSet(f, Of("subjective"))
    BY <1>3, <1>6, <2>1, SumUnion
  <2> QED BY <1>6, <2>2
<1>8. SumFunctionOnSet(f, Paper) = SumFunctionOnSet(f, S) + SumFunctionOnSet(f, Paper \ S)
  <2> DEFINE T == Paper \ S
  <2>1. S \cup T = Paper /\ S \cap T = {} /\ T \in SUBSET Paper
    BY <1>2
  <2> HIDE DEF T
  <2>2. \A x \in S \cup T : f[x] \in Nat
    BY <2>1
  <2>3. SumFunctionOnSet(f, S \cup T) = SumFunctionOnSet(f, S) + SumFunctionOnSet(f, T)
    BY <1>2, <1>3, <2>1, <2>2, SumUnion
  <2> QED BY <2>1, <2>3 DEF T
<1>9. \A a, b, c, e, g \in Nat : e = a + b /\ g = e + c => a + b + c = g
  OBVIOUS
<1>10. /\ SumFunctionOnSet(f, Of("objective")) \in Nat
       /\ SumFunctionOnSet(f, Of("subjective")) \in Nat
       /\ SumFunctionOnSet(f, Paper \ S) \in Nat /\ SumFunctionOnSet(f, Paper) \in Nat
       /\ SumFunctionOnSet(f, S) \in Nat
  <2>1. Paper \ S \in SUBSET Paper /\ Paper \in SUBSET Paper
    OBVIOUS
  <2> QED BY <1>2, <1>4, <1>6, <2>1
<1> QED BY <1>5, <1>7, <1>8, <1>9, <1>10

\* The total of the exam is a number of points.
LEMMA ExamTotalType == ExamTotal \in Nat
<1>1. IsFiniteSet(Paper) /\ \A it \in Paper : ItemScore[it] \in Nat
  BY DEF ReportAssumption
<1> QED BY <1>1, SumType DEF ExamTotal

-----------------------------------------------------------------------------
(* What a request knows while others move.                                 *)

\* The attempt of a report or detail under way or done is there.
LEMMA ReportOfRow ==
    ASSUME ReportsTypeOK, NEW r \in Details \cup Reportings,
           NEW at, at \in Under \cup {"done"}, NEW d,
           d.attempt \in 0..Len(attempts), LetIn(r, at, d)
    PROVE  d.attempt \in Ids /\ attempts[d.attempt].student = caller[r]
<1>1. RouteOpen(r) /\ InScope(caller[r], d.attempt)
  BY DEF LetIn
<1>2. Role[caller[r]] = "student"
  BY <1>1 DEF RouteOpen
<1> QED BY <1>1, <1>2, RowsTyped DEF InScope

\* What a request knows stands as long as no attempt is written.
LEMMA KnowsKept ==
    ASSUME ReportsTypeOK, Ids \subseteq Ids', \A i \in Ids : attempts'[i] = attempts[i],
           Submitted' = Submitted, Gone \subseteq Gone', UNCHANGED <<caller, stale>>,
           NEW r \in Queries, NEW at, NEW d, d.attempt \in 0..Len(attempts), Knows(r, at, d)
    PROVE  Knows(r, at, d)'
<1>1. LetIn(r, at, d)'
  <2>1. LetIn(r, at, d)
    BY DEF Knows
  <2>2. d.attempt # 0 => attempts'[d.attempt] = attempts[d.attempt]
    BY RowsTyped
  <2>3. RouteOpen(r)' <=> RouteOpen(r)
    BY DEF RouteOpen
  <2>4. InScope(caller[r], d.attempt) => InScope(caller[r], d.attempt)'
    BY <2>2 DEF InScope
  <2> QED BY <2>1, <2>3, <2>4 DEF LetIn
<1>2. \A i, j \in Ids : Ahead(i, j)' <=> Ahead(i, j)
  BY DEF Ahead
<1>3. \A s \in Orders : s \in Orders'
  <2> SUFFICES ASSUME NEW s \in Orders PROVE s \in Orders'
    OBVIOUS
  <2>1. /\ s \in [1..Cardinality(Submitted) -> Submitted]
        /\ \A m, n \in DOMAIN s : m < n => s[m] # s[n] /\ ~Ahead(s[n], s[m])
    BY DEF Orders
  <2>2. \A n \in DOMAIN s : s[n] \in Ids
    BY <2>1, RowsTyped
  <2>3. \A m, n \in DOMAIN s : m < n => s[m] # s[n] /\ ~Ahead(s[n], s[m])'
    BY <2>1, <2>2, <1>2
  <2>4. s \in [1..Cardinality(Submitted') -> Submitted']
    BY <2>1
  <2> QED BY <2>3, <2>4 DEF Orders
<1>4. ReportReads(r, at, d)'
  <2> SUFFICES ASSUME r \in Details \cup Reportings, at \in Under \cup {"done"}
               PROVE  ReportReads(r, at, d)'
    BY DEF ReportReads
  <2>1. LetIn(r, at, d) /\ ReportReads(r, at, d)
    BY DEF Knows
  <2>2. d.attempt \in Ids /\ attempts'[d.attempt] = attempts[d.attempt]
    BY <2>1, ReportOfRow
  <2>3. /\ at # "items" => Paper \subseteq d.seen \cup d.todo \cup d.missed \cup Gone
        /\ d.rank > 0 /\ r \notin stale => \E s \in Orders : d.rank \in DOMAIN s /\ s[d.rank] = d.attempt
    BY <2>1 DEF ReportReads
  <2>4. at # "items" => Paper \subseteq d.seen \cup d.todo \cup d.missed \cup Gone'
    BY <2>3
  <2> HIDE DEF Gone
  <2> QED BY <2>1, <2>2, <2>3, <2>4, <1>3 DEF ReportReads
<1>5. StatsRead(r, at, d)'
  <2>1. StatsRead(r, at, d)
    BY DEF Knows
  <2> QED BY <2>1, <1>3 DEF StatsRead
<1> QED BY <1>1, <1>4, <1>5 DEF Knows

\* What a query read is a reading of its request.
IsReading(d) == d \in Reading /\ d.attempt \in 0..Len(attempts) /\ d.rank \in 0..Len(attempts)

\* A query is harmless if its request knows what it should.
LEMMA ReadKeeps ==
    ASSUME ReportsInv, NEW q \in Queries, NEW from, NEW to \in Places, NEW new, IsReading(new),
           Knows(q, to, new), Read(q, from, to, new)
    PROVE  ReportsInv'
<1>1. ReportsTypeOK /\ \A r \in Queries : Knows(r, pc[r], reading[r])
  BY DEF ReportsInv
<1>2. /\ pc' = [pc EXCEPT ![q] = to] /\ reading' = [reading EXCEPT ![q] = new]
      /\ UNCHANGED <<attempts, exam, bank, now, caller, stale>>
  BY DEF Read
<1>3. /\ pc'[q] = to /\ reading'[q] = new
      /\ \A r \in Queries : r # q => pc'[r] = pc[r] /\ reading'[r] = reading[r]
      /\ pc' \in [Queries -> Places] /\ reading' \in [Queries -> Reading]
  BY <1>1, <1>2 DEF ReportsTypeOK, Places, IsReading
<1>4. ReportsTypeOK'
  <2>1. \A r \in Queries : reading'[r].attempt \in 0..Len(attempts) /\ reading'[r].rank \in 0..Len(attempts)
    BY <1>1, <1>3 DEF ReportsTypeOK, IsReading
  <2> QED BY <1>1, <1>2, <1>3, <2>1 DEF ReportsTypeOK, Places
<1>5. Submitted' = Submitted /\ Ids' = Ids /\ Gone' = Gone
  BY <1>2 DEF Submitted, Ids, Gone
<1>6. ASSUME NEW r \in Queries PROVE Knows(r, pc[r], reading[r])'
  <2>1. PICK at, d : at = pc'[r] /\ d = reading'[r]
    OBVIOUS
  <2>2. Knows(r, at, d) /\ d.attempt \in 0..Len(attempts)
    <3>1. CASE r = q
      BY <2>1, <1>3, <3>1 DEF IsReading
    <3>2. CASE r # q
      BY <2>1, <1>1, <1>3, <3>2 DEF ReportsTypeOK
    <3> QED BY <3>1, <3>2
  <2>3. Knows(r, at, d)'
    BY <1>1, <1>2, <1>5, <2>2, KnowsKept
  <2> QED BY <2>1, <2>3
<1> QED BY <1>4, <1>6 DEF ReportsInv

-----------------------------------------------------------------------------
(* Steps of requests.                                                      *)

\* A request that has read nothing and got nowhere knows nothing.
LEMMA NothingKnown ==
    ASSUME ReportsTypeOK
    PROVE  /\ IsReading(Nothing) /\ Nothing.attempt = 0
           /\ \A r \in Queries : \A at \in {"refused", "missing", "idle"} : Knows(r, at, Nothing)
<1>1. <<>> \in Seq(Nat) /\ <<>> \in Seq([attempt : Nat, total : Nat])
  BY EmptySeq
<1>2. Nothing \in Reading
  BY <1>1 DEF Nothing, Reading
<1>3. IsReading(Nothing) /\ Nothing.attempt = 0
  BY <1>2, RowsTyped DEF IsReading, Nothing
<1>4. \A r \in Queries : \A at \in {"refused", "missing", "idle"} : Knows(r, at, Nothing)
  BY DEF Knows, LetIn, ReportReads, StatsRead, Under
<1> QED BY <1>3, <1>4

LEMMA AttemptLoadKeeps ==
    ASSUME ReportsInv, NEW r \in Details \cup Reportings, AttemptLoad(r)
    PROVE  ReportsInv'
<1>1. ReportsTypeOK /\ r \in Queries /\ r \notin Gradings \cup Statistics
  BY DEF ReportsInv, Queries, ReportAssumption
<1> DEFINE at(i) == [Nothing EXCEPT !.attempt = i, !.total = attempts[i].total,
                        !.submitted = (attempts[i].status = "submitted")]
<1>2. PICK i \in Ids :
         IF ~RouteOpen(r) \/ (exam /\ ~InScope(caller[r], i)) THEN Begin(r, "refused", Nothing)
         ELSE IF ~exam THEN Begin(r, "missing", Nothing)
         ELSE Begin(r, "items", at(i))
  BY DEF AttemptLoad
<1>3. CASE RouteOpen(r) /\ InScope(caller[r], i) /\ exam
  <2> DEFINE new == at(i)
  <2>1. Read(r, "idle", "items", new)
    BY <1>2, <1>3 DEF Begin, Read
  <2>2. IsReading(Nothing) /\ attempts[i] \in Attempt /\ i \in 1..Len(attempts) /\ Len(attempts) \in Nat
    BY <1>1, NothingKnown, RowsTyped
  <2>3. /\ new \in Reading /\ new.attempt = i /\ new.total = attempts[i].total
        /\ new.submitted => attempts[i].status = "submitted"
        /\ new.rank = 0 /\ new.participants = 0
    <3>1. PICK t, b, n : t = attempts[i].total /\ b = (attempts[i].status = "submitted") /\ n = Nothing
      OBVIOUS
    <3>2. t \in Nat /\ b \in BOOLEAN /\ n \in Reading /\ n.rank = 0 /\ n.participants = 0
      BY <2>2, <3>1 DEF Attempt, IsReading, Nothing
    <3>3. new = [n EXCEPT !.attempt = i, !.total = t, !.submitted = b]
      BY <3>1, Zenon
    <3> HIDE DEF new
    <3>4. i \in Nat
      BY <2>2
    <3>5. /\ new \in Reading /\ new.attempt = i /\ new.total = t /\ new.submitted = b
          /\ new.rank = 0 /\ new.participants = 0
      BY <3>2, <3>3, <3>4 DEF Reading
    <3> QED BY <3>1, <3>5
  <2> HIDE DEF new
  <2>4. IsReading(new)
    BY <2>2, <2>3 DEF IsReading
  <2>5. Knows(r, "items", new)
    <3>1. LetIn(r, "items", new)
      BY <1>3, <2>3 DEF LetIn
    <3>2. ReportReads(r, "items", new)
      BY <2>3 DEF ReportReads
    <3>3. StatsRead(r, "items", new)
      BY DEF StatsRead
    <3> QED BY <3>1, <3>2, <3>3 DEF Knows
  <2> QED BY <1>1, <2>1, <2>4, <2>5, ReadKeeps DEF Places
<1>4. CASE ~(RouteOpen(r) /\ InScope(caller[r], i) /\ exam)
  <2>1. PICK to \in {"refused", "missing"} : Read(r, "idle", to, Nothing)
    BY <1>2, <1>4 DEF Begin, Read
  <2>2. IsReading(Nothing) /\ Knows(r, to, Nothing) /\ to \in Places
    BY <1>1, NothingKnown DEF Places
  <2> QED BY <1>1, <2>1, <2>2, ReadKeeps
<1> QED BY <1>3, <1>4

\* A report or detail goes on reading about its attempt.
LEMMA ReadOn ==
    ASSUME ReportsInv, NEW r \in Details \cup Reportings, NEW from \in Under, NEW to, NEW new \in Reading,
           Read(r, from, to, new), to \in (Under \ {"items"}) \cup {"done"},
           to = "rank" => r \in Reportings,
           new.attempt = reading[r].attempt, new.total = reading[r].total,
           new.submitted = reading[r].submitted,
           new.rank = reading[r].rank, new.participants = reading[r].participants,
           Paper \subseteq new.seen \cup new.todo \cup new.missed \cup Gone,
           to \in {"rank", "done"} => new.todo = {},
           r \notin stale /\ to # "answers" => new.scores = attempts[new.attempt].scores
    PROVE  ReportsInv'
<1>1. ReportsTypeOK /\ r \in Queries /\ r \notin Gradings \cup Statistics /\ pc[r] = from
  BY DEF ReportsInv, Queries, ReportAssumption, Read
<1>2. PICK d : d = reading[r]
  OBVIOUS
<1>3. /\ d.attempt \in 0..Len(attempts) /\ d.rank \in 0..Len(attempts)
      /\ LetIn(r, from, d) /\ ReportReads(r, from, d)
  BY <1>1, <1>2 DEF ReportsTypeOK, ReportsInv, Knows
<1>4. IsReading(new)
  BY <1>2, <1>3 DEF IsReading
<1>5. LetIn(r, to, new)
  BY <1>1, <1>2, <1>3 DEF LetIn, Under
<1>6. ReportReads(r, to, new)
  <2>1. /\ d.submitted => attempts[d.attempt].status = "submitted"
        /\ d.rank = 0 /\ d.participants = 0
        /\ r \notin stale => d.total = attempts[d.attempt].total
    BY <1>3 DEF ReportReads, Under
  <2> HIDE DEF Gone
  <2> QED BY <1>2, <2>1 DEF ReportReads
<1>7. StatsRead(r, to, new)
  BY <1>1 DEF StatsRead
<1>8. to \in Places
  BY DEF Places, Under
<1> QED BY <1>1, <1>4, <1>5, <1>6, <1>7, <1>8, ReadKeeps DEF Knows

\* What a report or detail that is under way has read so far.
LEMMA ReadSoFar ==
    ASSUME ReportsInv, NEW r \in Details \cup Reportings, pc[r] \in Under
    PROVE  LET d == reading[r]
           IN  /\ d \in Reading /\ d.attempt \in Ids
               /\ pc[r] # "items" => Paper \subseteq d.seen \cup d.todo \cup d.missed \cup Gone
               /\ r \notin stale /\ pc[r] \notin {"items", "answers"} =>
                     d.scores = attempts[d.attempt].scores
<1>1. ReportsTypeOK /\ r \in Queries
  BY DEF ReportsInv, Queries
<1>2. PICK d, at : d = reading[r] /\ at = pc[r]
  OBVIOUS
<1>3. /\ d \in Reading /\ d.attempt \in 0..Len(attempts)
      /\ LetIn(r, at, d) /\ ReportReads(r, at, d)
  BY <1>1, <1>2 DEF ReportsTypeOK, ReportsInv, Knows
<1>4. d.attempt \in Ids
  BY <1>1, <1>2, <1>3, ReportOfRow
<1> HIDE DEF Gone
<1> QED BY <1>2, <1>3, <1>4 DEF ReportReads, Under

\* After the questions come the ranking, for a report, and the end.
LEMMA AfterIs ==
    ASSUME NEW r \in Details \cup Reportings, NEW todo
    PROVE  /\ After(r, todo) \in {"questions", "rank", "done"}
           /\ After(r, todo) = "rank" => r \in Reportings
           /\ After(r, todo) \in {"rank", "done"} => todo = {}
  BY DEF After

LEMMA ItemsReadKeeps ==
    ASSUME ReportsInv, NEW r \in Details \cup Reportings, ItemsRead(r)
    PROVE  ReportsInv'
<1>1. PICK d, todo, new : /\ d = reading[r] /\ todo = IF exam THEN Paper ELSE {}
                          /\ new = [d EXCEPT !.todo = todo]
  OBVIOUS
<1>2. Read(r, "items", "answers", new) /\ pc[r] = "items"
  BY <1>1 DEF ItemsRead, Read
<1>3. d \in Reading
  BY <1>1, <1>2, ReadSoFar DEF Under
<1>4. todo \in SUBSET Paper /\ Paper \subseteq todo \cup Gone
  BY <1>1 DEF Gone
<1>5. /\ new \in Reading /\ new.attempt = d.attempt /\ new.total = d.total
      /\ new.submitted = d.submitted /\ new.rank = d.rank /\ new.participants = d.participants
      /\ new.todo = todo
  BY <1>1, <1>3, <1>4 DEF Reading
<1>6. Paper \subseteq new.seen \cup new.todo \cup new.missed \cup Gone
  BY <1>4, <1>5
<1> HIDE DEF Gone
<1> QED BY <1>1, <1>2, <1>5, <1>6, ReadOn DEF Under

LEMMA AnswersReadKeeps ==
    ASSUME ReportsInv, NEW r \in Details \cup Reportings, AnswersRead(r)
    PROVE  ReportsInv'
<1>1. PICK d, got, new, to : /\ d = reading[r] /\ got = attempts[d.attempt].scores
                             /\ new = [d EXCEPT !.scores = got] /\ to = After(r, d.todo)
  OBVIOUS
<1>2. Read(r, "answers", to, new) /\ pc[r] = "answers"
  BY <1>1 DEF AnswersRead, Read
<1>3. /\ d \in Reading /\ d.attempt \in Ids
      /\ Paper \subseteq d.seen \cup d.todo \cup d.missed \cup Gone
  BY <1>1, <1>2, ReadSoFar DEF Under
<1>4. got \in [Paper -> Nat]
  BY <1>1, <1>3, RowsTyped DEF Attempt, ReportsInv
<1>5. /\ new \in Reading /\ new.attempt = d.attempt /\ new.total = d.total
      /\ new.submitted = d.submitted /\ new.rank = d.rank /\ new.participants = d.participants
      /\ new.todo = d.todo /\ new.seen = d.seen /\ new.missed = d.missed /\ new.scores = got
  BY <1>1, <1>3, <1>4 DEF Reading
<1>6. /\ to \in {"questions", "rank", "done"} /\ (to = "rank" => r \in Reportings)
      /\ to \in {"rank", "done"} => new.todo = {}
  BY <1>1, <1>5, AfterIs
<1> HIDE DEF Gone
<1>7. /\ new.attempt = reading[r].attempt /\ new.total = reading[r].total
      /\ new.submitted = reading[r].submitted /\ new.rank = reading[r].rank
      /\ new.participants = reading[r].participants
      /\ new.scores = attempts[new.attempt].scores
      /\ Paper \subseteq new.seen \cup new.todo \cup new.missed \cup Gone
  BY <1>1, <1>3, <1>5
<1>8. "answers" \in Under /\ to \in (Under \ {"items"}) \cup {"done"}
  BY <1>6 DEF Under
<1> QED BY <1>2, <1>5, <1>6, <1>7, <1>8, ReadOn

LEMMA QuestionReadKeeps ==
    ASSUME ReportsInv, NEW r \in Details \cup Reportings, QuestionRead(r)
    PROVE  ReportsInv'
<1>1. PICK d : d = reading[r]
  OBVIOUS
<1>2. PICK it \in d.todo : LET rest == d.todo \ {it}
                              step(e) == Read(r, "questions", After(r, rest), [e EXCEPT !.todo = rest])
                          IN  \/ it \in bank /\ step([d EXCEPT !.seen = @ \cup {it}])
                              \/ it \notin bank /\ step(d)
                              \/ step([d EXCEPT !.missed = @ \cup {it}])
  BY <1>1 DEF QuestionRead
<1>3. PICK rest, to : rest = d.todo \ {it} /\ to = After(r, rest)
  OBVIOUS
<1>4. PICK e : /\ Read(r, "questions", to, [e EXCEPT !.todo = rest])
               /\ \/ e = [d EXCEPT !.seen = @ \cup {it}]
                  \/ it \notin bank /\ e = d
                  \/ e = [d EXCEPT !.missed = @ \cup {it}]
  BY <1>2, <1>3, Zenon
<1>5. PICK new : new = [e EXCEPT !.todo = rest]
  OBVIOUS
<1>6. Read(r, "questions", to, new) /\ pc[r] = "questions"
  <2>1. Read(r, "questions", to, new)
    BY <1>4, <1>5, Zenon
  <2> QED BY <2>1 DEF Read
<1>7. /\ d \in Reading /\ d.attempt \in Ids
      /\ Paper \subseteq d.seen \cup d.todo \cup d.missed \cup Gone
      /\ r \notin stale => d.scores = attempts[d.attempt].scores
  BY <1>1, <1>6, ReadSoFar DEF Under
<1>8. /\ e \in Reading /\ e.attempt = d.attempt /\ e.total = d.total
      /\ e.submitted = d.submitted /\ e.rank = d.rank /\ e.participants = d.participants
      /\ e.scores = d.scores /\ e.todo = d.todo
      /\ d.seen \subseteq e.seen /\ d.missed \subseteq e.missed
      /\ it \in e.seen \cup e.missed \/ it \notin bank
  <2>1. it \in Paper
    BY <1>2, <1>7 DEF Reading
  <2>2. CASE e = [d EXCEPT !.seen = @ \cup {it}]
    BY <1>7, <2>1, <2>2 DEF Reading
  <2>3. CASE it \notin bank /\ e = d
    BY <1>7, <2>3
  <2>4. CASE e = [d EXCEPT !.missed = @ \cup {it}]
    BY <1>7, <2>1, <2>4 DEF Reading
  <2> QED BY <1>4, <2>2, <2>3, <2>4
<1>9. /\ new \in Reading /\ new.attempt = d.attempt /\ new.total = d.total
      /\ new.submitted = d.submitted /\ new.rank = d.rank /\ new.participants = d.participants
      /\ new.scores = d.scores /\ new.todo = rest /\ new.seen = e.seen /\ new.missed = e.missed
  <2>1. rest \in SUBSET Paper
    BY <1>3, <1>7 DEF Reading
  <2> QED BY <1>5, <1>8, <2>1 DEF Reading
<1>10. Paper \subseteq new.seen \cup new.todo \cup new.missed \cup Gone
  <2>1. it \in Paper /\ (it \notin bank => it \in Gone)
    BY <1>2, <1>7 DEF Reading, Gone
  <2> HIDE DEF Gone
  <2> QED BY <1>3, <1>7, <1>8, <1>9, <2>1
<1>11. /\ to \in {"questions", "rank", "done"} /\ (to = "rank" => r \in Reportings)
       /\ to \in {"rank", "done"} => new.todo = {}
  BY <1>3, <1>9, AfterIs
<1> HIDE DEF Gone
<1> QED BY <1>1, <1>6, <1>7, <1>9, <1>10, <1>11, ReadOn DEF Under

LEMMA ExamLoadKeeps ==
    ASSUME ReportsInv, NEW r \in Gradings \cup Statistics, ExamLoad(r)
    PROVE  ReportsInv'
<1>1. ReportsTypeOK /\ r \in Queries
  BY DEF ReportsInv, Queries
<1>2. CASE RouteOpen(r) /\ InScope(caller[r], 0) /\ exam
  <2>1. Read(r, "idle", "list", Nothing)
    BY <1>2 DEF ExamLoad, Begin, Read
  <2>2. Knows(r, "list", Nothing)
    <3>1. RouteOpen(r) /\ InScope(caller[r], Nothing.attempt)
      BY <1>1, <1>2, NothingKnown
    <3> QED BY <3>1 DEF Knows, LetIn, ReportReads, StatsRead, Under
  <2> QED BY <1>1, <2>1, <2>2, NothingKnown, ReadKeeps DEF Places
<1>3. CASE ~(RouteOpen(r) /\ InScope(caller[r], 0) /\ exam)
  <2>1. PICK to \in {"refused", "missing"} : Read(r, "idle", to, Nothing)
    BY <1>3 DEF ExamLoad, Begin, Read
  <2>2. IsReading(Nothing) /\ Knows(r, to, Nothing) /\ to \in Places
    BY <1>1, NothingKnown DEF Places
  <2> QED BY <1>1, <2>1, <2>2, ReadKeeps
<1> QED BY <1>2, <1>3

LEMMA GradingListKeeps ==
    ASSUME ReportsInv, NEW r \in Queries, GradingList(r)
    PROVE  ReportsInv'
<1> DEFINE d == reading[r]
           new == [d EXCEPT !.listed = Submitted]
<1>1. ReportsTypeOK /\ r \in Gradings /\ r \notin Details \cup Reportings \cup Statistics
  BY DEF ReportsInv, GradingList, ReportAssumption
<1>2. Read(r, "list", "done", new) /\ pc[r] = "list"
  BY DEF GradingList, Read
<1>3. d \in Reading /\ IsReading(d) /\ Knows(r, "list", d)
  BY <1>1, <1>2 DEF ReportsTypeOK, ReportsInv, IsReading
<1>4. Submitted \in SUBSET Nat
  BY <1>1, RowsTyped
<1>5. new \in Reading /\ new.attempt = d.attempt /\ new.rank = d.rank
  BY <1>3, <1>4 DEF Reading
<1> HIDE DEF new
<1>6. IsReading(new)
  BY <1>3, <1>5 DEF IsReading
<1>7. Knows(r, "done", new)
  <2>1. LetIn(r, "list", d)
    BY <1>3 DEF Knows
  <2>2. LetIn(r, "done", new)
    BY <1>5, <2>1 DEF LetIn, Under
  <2> QED BY <1>1, <2>2 DEF Knows, ReportReads, StatsRead
<1> QED BY <1>2, <1>6, <1>7, ReadKeeps DEF Places

LEMMA FailKeeps ==
    ASSUME ReportsInv, NEW r \in Queries, Fail(r)
    PROVE  ReportsInv'
<1>1. Read(r, pc[r], "failed", reading[r])
  BY DEF Fail
<1>2. IsReading(reading[r])
  BY DEF ReportsInv, ReportsTypeOK, IsReading
<1>3. Knows(r, "failed", reading[r])
  BY DEF Knows, LetIn, ReportReads, StatsRead, Under
<1> QED BY <1>1, <1>2, <1>3, ReadKeeps DEF Places

-----------------------------------------------------------------------------
(* Statistics.                                                             *)

\* A rounded quotient of sums lies between what bounds the average.
LEMMA RoundBounds ==
    ASSUME NEW n \in Nat, n # 0, NEW x \in Nat, NEW lo \in Nat, NEW hi \in Nat,
           n * lo <= x, x <= n * hi
    PROVE  LET q == (200 * x + n) \div (2 * n)
           IN  q \in Nat /\ 100 * lo <= q /\ q <= 100 * hi
<1>1. ASSUME NEW y \in Nat, NEW m \in Nat, m # 0
      PROVE  /\ y \div m \in Nat
             /\ m * (y \div m) <= y
             /\ y < m * (y \div m) + m
  BY <1>1
<1> DEFINE q == (200 * x + n) \div (2 * n)
<1>2. /\ 200 * x + n \in Nat /\ 2 * n \in Nat /\ 2 * n # 0
  OBVIOUS
<1>3. q \in Nat /\ (2 * n) * q <= 200 * x + n /\ 200 * x + n < (2 * n) * q + 2 * n
  BY <1>1, <1>2
<1> HIDE DEF q
<1>4. \A a, b \in Nat : a < b => n * a + n <= n * b
  <2>1. \A a, b \in Nat : a < b => \E c \in Nat : b = a + 1 + c
    <3> SUFFICES ASSUME NEW a \in Nat, NEW b \in Nat, a < b PROVE \E c \in Nat : b = a + 1 + c
      OBVIOUS
    <3>1. b - a - 1 \in Nat /\ b = a + 1 + (b - a - 1)
      OBVIOUS
    <3> QED BY <3>1
  <2>2. \A a, c \in Nat : n * (a + 1 + c) = n * a + n + n * c /\ n * c \in Nat
    OBVIOUS
  <2> QED BY <2>1, <2>2
<1>5. /\ n * q \in Nat /\ n * lo \in Nat /\ n * hi \in Nat
      /\ (2 * n) * q = 2 * (n * q)
      /\ n * (100 * lo) = 100 * (n * lo) /\ n * (100 * hi) = 100 * (n * hi)
      /\ 100 * lo \in Nat /\ 100 * hi \in Nat
  BY <1>3
<1> DEFINE nq == n * q
           nl == n * lo
           nh == n * hi
<1>6. /\ nq \in Nat /\ nl \in Nat /\ nh \in Nat /\ nl <= x /\ x <= nh
      /\ 2 * nq <= 200 * x + n /\ 200 * x + n < 2 * nq + 2 * n
      /\ q < 100 * lo => nq + n <= 100 * nl
      /\ 100 * hi < q => 100 * nh + n <= nq
  BY <1>3, <1>4, <1>5
<1> HIDE DEF nq, nl, nh
<1>7. ~(q < 100 * lo) /\ ~(100 * hi < q)
  BY <1>6
<1>8. 100 * lo <= q /\ q <= 100 * hi
  BY <1>3, <1>7
<1> QED BY <1>3, <1>8 DEF q

\* The numbers up to some are finite.
LEMMA UpTo == IsFiniteSet(1..4) /\ IsFiniteSet(1..5)
<1>1. \A n \in Nat : IsFiniteSet(1..n)
  BY FS_Interval
<1>2. 4 \in Nat /\ 5 \in Nat
  OBVIOUS
<1> QED BY <1>1, <1>2, Zenon

\* A bucket is one of five, and all but the first have passed.
LEMMA BucketIs ==
    ASSUME ReportsTypeOK, NEW i \in Ids
    PROVE  /\ Bucket(i) \in 1..5
           /\ Bucket(i) # 1 <=> 10 * attempts[i].total >= 6 * ExamTotal
<1> DEFINE percent == 100 * attempts[i].total
           E == {edge \in {60, 70, 80, 90} : percent >= edge * ExamTotal}
<1>1. attempts[i].total \in Nat /\ ExamTotal \in Nat
  BY AheadTyped, ExamTotalType
<1>2. IsFiniteSet({60, 70, 80, 90}) /\ Cardinality({60, 70, 80, 90}) <= 4
  <2> DEFINE f == [k \in 1..4 |-> 50 + 10 * k]
  <2>1. PICK u : u = {60, 70, 80, 90}
    OBVIOUS
  <2>2. f \in Surjection(1..4, u)
    <3>1. /\ f \in [1..4 -> u]
          /\ f[1] = 60 /\ f[2] = 70 /\ f[3] = 80 /\ f[4] = 90
      BY <2>1
    <3> HIDE DEF f
    <3>2. \A t \in u : \E k \in 1..4 : f[k] = t
      BY <2>1, <3>1
    <3> QED BY <3>1, <3>2 DEF Surjection
  <2> HIDE DEF f
  <2>3. IsFiniteSet(1..4) /\ ExistsSurjection(1..4, u)
    <3>1. IsFiniteSet(1..4)
      BY UpTo, Zenon
    <3>2. ExistsSurjection(1..4, u)
      BY <2>2, Zenon DEF ExistsSurjection
    <3> QED BY <3>1, <3>2
  <2>4. IsFiniteSet(u) /\ Cardinality(u) <= 4
    BY <2>2, <2>3, FS_Surjection, FS_SurjCardinalityBound
  <2> QED BY <2>1, <2>4
<1>3. IsFiniteSet(E) /\ Cardinality(E) \in Nat /\ Cardinality(E) <= 4
  <2>1. E \in SUBSET {60, 70, 80, 90}
    OBVIOUS
  <2>2. IsFiniteSet(E) /\ Cardinality(E) <= 4
    <3>1. PICK u, e : u = {60, 70, 80, 90} /\ e = E
      OBVIOUS
    <3>2. e \in SUBSET u /\ IsFiniteSet(u) /\ Cardinality(u) <= 4
      BY <1>2, <2>1, <3>1, Zenon
    <3> HIDE DEF E
    <3>3. IsFiniteSet(e) /\ Cardinality(e) <= 4
      BY <3>2, FS_Subset, FS_CardinalityType
    <3> QED BY <3>1, <3>3
  <2> HIDE DEF E
  <2> QED BY <2>2, FS_CardinalityType
<1>4. E # {} <=> 10 * attempts[i].total >= 6 * ExamTotal
  <2> DEFINE t == attempts[i].total
             w == ExamTotal
  <2> SUFFICES E # {} <=> 10 * t >= 6 * w
    OBVIOUS
  <2>1. t \in Nat /\ w \in Nat /\ percent = 100 * t
    BY <1>1
  <2>2. E = {edge \in {60, 70, 80, 90} : 100 * t >= edge * w}
    OBVIOUS
  <2> HIDE DEF t, w, E, percent
  <2>3. 10 * t >= 6 * w => 60 \in E
    BY <2>1, <2>2
  <2>4. ASSUME NEW edge \in E PROVE 10 * t >= 6 * w
    <3>1. 100 * t >= 60 * w \/ 100 * t >= 70 * w \/ 100 * t >= 80 * w \/ 100 * t >= 90 * w
      BY <2>2
    <3> QED BY <2>1, <3>1
  <2> QED BY <2>3, <2>4
<1>5. E # {} <=> Cardinality(E) # 0
  BY <1>3, FS_EmptySet
<1>6. Bucket(i) = Cardinality(E) + 1
  BY DEF Bucket
<1> HIDE DEF E
<1> QED BY <1>3, <1>4, <1>5, <1>6

\* The buckets of the submitted attempts hold all of them.
LEMMA BucketsAddUp ==
    ASSUME ReportsTypeOK, NEW c,
           \A b \in 1..5 : c[b] = Cardinality({x \in Submitted : Bucket(x) = b})
    PROVE  SumFunctionOnSet(c, 1..5) = Cardinality(Submitted)
<1> DEFINE f == [x \in Submitted |-> Bucket(x)]
<1>1. IsFiniteSet(Submitted) /\ Submitted \subseteq Ids
  BY RowsTyped
<1>2. \A x \in Submitted : f[x] = Bucket(x) /\ f[x] \in 1..5
  BY <1>1, BucketIs
<1> HIDE DEF f
<1> DEFINE of == [b \in 1..5 |-> {x \in Submitted : Bucket(x) = b}]
<1>3. \A b \in 1..5 : of[b] = {x \in Submitted : Bucket(x) = b}
  OBVIOUS
<1> HIDE DEF of
<1>4. \A b \in 1..5 : \A x : x \in of[b] <=> x \in Submitted /\ f[x] = b
  BY <1>2, <1>3
<1>5. \A b \in 1..5 : c[b] = Cardinality(of[b])
  BY <1>3, Zenon
<1>6. \A x \in Submitted : f[x] \in 1..5
  BY <1>2
<1>7. IsFiniteSet(1..5)
  BY UpTo
<1> QED BY <1>1, <1>4, <1>5, <1>6, <1>7, CountByValue

\* What ExamStats returns for an order of the submitted attempts is coherent.
LEMMA StatsAreCoherent ==
    ASSUME ReportsTypeOK, NEW s \in Orders, NEW d \in Reading,
           d.listed = Submitted, d.participants = Len(s),
           \A n \in DOMAIN s : d.order[n].attempt = s[n] /\ d.order[n].total = attempts[s[n]].total,
           d.pass = Cardinality({i \in Submitted : 10 * attempts[i].total >= 6 * ExamTotal}),
           \A b \in 1..5 : d.buckets[b] = Cardinality({i \in Submitted : Bucket(i) = b}),
           d.average = Average(Submitted)
    PROVE  AddsUp(d)
<1> DEFINE c == Len(s)
<1>1. /\ c \in Nat /\ c = Cardinality(Submitted) /\ DOMAIN s = 1..c
      /\ IsFiniteSet(Submitted) /\ Submitted \subseteq Ids
      /\ \A m, n \in DOMAIN s : m < n => ~Ahead(s[n], s[m])
      /\ \A n \in DOMAIN s : s[n] \in Submitted
      /\ \A i \in Submitted : \E n \in DOMAIN s : s[n] = i
  <2>1. Len(s) \in 0..Len(attempts) /\ Len(attempts) \in Nat
    BY OrderIs, RowsTyped
  <2> QED BY <2>1, OrderIs, RowsTyped
<1>2. \A n \in 1..c : d.order[n].attempt = s[n] /\ d.order[n].total = attempts[s[n]].total
  BY <1>1
<1> HIDE DEF c
<1>3. \A k, l \in 1..c : k < l => d.order[k].total >= d.order[l].total
  <2> SUFFICES ASSUME NEW k \in 1..c, NEW l \in 1..c, k < l
               PROVE  d.order[k].total >= d.order[l].total
    OBVIOUS
  <2>1. s[k] \in Ids /\ s[l] \in Ids /\ ~Ahead(s[l], s[k])
    BY <1>1
  <2>2. attempts[s[l]].total <= attempts[s[k]].total
    BY <2>1, AheadTyped
  <2>3. attempts[s[l]].total \in Nat /\ attempts[s[k]].total \in Nat
    BY <2>1, AheadTyped
  <2> QED BY <1>2, <2>2, <2>3
<1>4. ASSUME c > 0
      PROVE  100 * d.order[c].total <= d.average /\ d.average <= 100 * d.order[1].total
  <2> DEFINE f == [i \in Submitted |-> attempts[i].total]
             lo == attempts[s[c]].total
             hi == attempts[s[1]].total
             sum == SumFunctionOnSet(f, Submitted)
  <2>1. s[c] \in Submitted /\ s[1] \in Submitted /\ lo \in Nat /\ hi \in Nat
    <3>1. 1 \in DOMAIN s /\ c \in DOMAIN s
      BY <1>1, <1>4
    <3> QED BY <1>1, <3>1, AheadTyped
  <2>2. \A i \in Submitted : f[i] \in Nat /\ lo <= f[i] /\ f[i] <= hi
    <3> SUFFICES ASSUME NEW i \in Submitted
                 PROVE  attempts[i].total \in Nat /\ lo <= attempts[i].total /\ attempts[i].total <= hi
      OBVIOUS
    <3>1. PICK n \in 1..c : s[n] = i
      BY <1>1
    <3>2. attempts[i].total \in Nat
      BY <1>1, AheadTyped
    <3>3. lo <= attempts[i].total
      <4>1. CASE n = c
        BY <3>1, <3>2, <4>1
      <4>2. CASE n # c
        <5>1. n < c /\ c \in 1..c
          BY <1>1, <4>2
        <5>2. ~Ahead(s[c], s[n]) /\ s[c] \in Ids /\ s[n] \in Ids
          BY <1>1, <5>1
        <5> QED BY <3>1, <5>2, AheadTyped
      <4> QED BY <4>1, <4>2
    <3>4. attempts[i].total <= hi
      <4>1. CASE n = 1
        BY <3>1, <3>2, <4>1
      <4>2. CASE n # 1
        <5>1. 1 < n /\ 1 \in 1..c
          BY <1>1, <1>4, <4>2
        <5>2. ~Ahead(s[n], s[1]) /\ s[1] \in Ids /\ s[n] \in Ids
          BY <1>1, <5>1
        <5> QED BY <3>1, <5>2, AheadTyped
      <4> QED BY <4>1, <4>2
    <3> QED BY <3>2, <3>3, <3>4
  <2>3. Submitted # {}
    BY <2>1
  <2>4. d.average = (200 * sum + c) \div (2 * c)
    BY <1>1, <2>3 DEF Average
  <2>5. d.order[c].total = lo /\ d.order[1].total = hi
    BY <1>1, <1>2, <1>4
  <2> HIDE DEF f, lo, hi
  <2>6. /\ sum \in Nat
        /\ Cardinality(Submitted) * lo <= sum /\ sum <= Cardinality(Submitted) * hi
    BY <1>1, <2>1, <2>2, SumBetween, SumType
  <2> HIDE DEF sum
  <2>7. c * lo <= sum /\ sum <= c * hi /\ c # 0
    BY <1>1, <1>4, <2>6
  <2>8. 100 * lo <= (200 * sum + c) \div (2 * c) /\ (200 * sum + c) \div (2 * c) <= 100 * hi
    BY <1>1, <2>1, <2>6, <2>7, RoundBounds
  <2> QED BY <2>4, <2>5, <2>8
<1>5. \A i \in Submitted : /\ Bucket(i) \in 1..5
                           /\ Bucket(i) # 1 <=> 10 * attempts[i].total >= 6 * ExamTotal
  BY <1>1, BucketIs
<1>6. SumFunctionOnSet(d.buckets, 1..5) = c
  <2>1. \A b \in 1..5 : d.buckets[b] = Cardinality({x \in Submitted : Bucket(x) = b})
    OBVIOUS
  <2> QED BY <1>1, <2>1, BucketsAddUp
<1>7. d.pass = c - d.buckets[1]
  <2> DEFINE Pass == {i \in Submitted : 10 * attempts[i].total >= 6 * ExamTotal}
             Low == {i \in Submitted : Bucket(i) = 1}
  <2>1. Pass \cup Low = Submitted /\ Pass \cap Low = {}
    BY <1>5
  <2>2. d.pass = Cardinality(Pass) /\ d.buckets[1] = Cardinality(Low)
    OBVIOUS
  <2>3. Pass \in SUBSET Submitted /\ Low \in SUBSET Submitted
    OBVIOUS
  <2> HIDE DEF Pass, Low
  <2>4. IsFiniteSet(Pass) /\ IsFiniteSet(Low)
    BY <1>1, <2>3, FS_Subset
  <2>5. Cardinality(Pass) \in Nat /\ Cardinality(Low) \in Nat
    BY <2>4, FS_CardinalityType
  <2>6. Cardinality(Pass \cup Low) = Cardinality(Pass) + Cardinality(Low) - Cardinality(Pass \cap Low)
    BY <2>4, FS_Union
  <2>7. Cardinality(Submitted) = Cardinality(Pass) + Cardinality(Low)
    <3>1. Cardinality(Pass \cap Low) = 0 /\ Cardinality(Pass \cup Low) = Cardinality(Submitted)
      BY <2>1, FS_EmptySet, Zenon
    <3> QED BY <2>5, <2>6, <3>1
  <2> QED BY <1>1, <2>2, <2>5, <2>7
<1>8. {d.order[k].attempt : k \in 1..c} = d.listed
  <2>1. \A k \in 1..c : d.order[k].attempt \in Submitted
    BY <1>1, <1>2
  <2>2. \A i \in Submitted : \E k \in 1..c : d.order[k].attempt = i
    BY <1>1, <1>2
  <2>3. d.listed = Submitted
    OBVIOUS
  <2>4. {d.order[k].attempt : k \in 1..c} = Submitted
    BY <2>1, <2>2
  <2> QED BY <2>3, <2>4
<1>9. d.participants = c
  BY DEF c
<1> QED BY <1>3, <1>4, <1>6, <1>7, <1>8, <1>9 DEF AddsUp

\* A function on the first numbers is a sequence.
LEMMA FunctionIsSeq == ASSUME NEW n \in Nat, NEW S, NEW f \in [1..n -> S] PROVE f \in Seq(S)
  BY SeqDef

LEMMA ExamStatsKeeps ==
    ASSUME ReportsInv, NEW r \in Queries, ExamStats(r)
    PROVE  ReportsInv'
<1>1. ReportsTypeOK /\ r \in Statistics /\ r \notin Details \cup Reportings \cup Gradings
  BY DEF ReportsInv, ExamStats, ReportAssumption
<1> DEFINE d == reading[r]
           listing(s) == [n \in DOMAIN s |-> [attempt |-> s[n], total |-> attempts[s[n]].total]]
           passed == Cardinality({i \in Submitted : 10 * attempts[i].total >= 6 * ExamTotal})
           filled == [b \in 1..5 |-> Cardinality({i \in Submitted : Bucket(i) = b})]
<1>2. PICK s \in Orders :
         Read(r, "list", "done", [d EXCEPT
             !.listed = Submitted, !.participants = Len(s), !.order = listing(s),
             !.pass = passed, !.buckets = filled, !.average = Average(Submitted)])
  BY DEF ExamStats
<1>3. /\ Len(s) \in Nat /\ DOMAIN s = 1..Len(s) /\ Submitted \in SUBSET Nat
      /\ \A n \in DOMAIN s : s[n] \in Nat /\ attempts[s[n]].total \in Nat
      /\ IsFiniteSet(Submitted)
  <2>1. Len(s) \in 0..Len(attempts) /\ Len(attempts) \in Nat
    BY <1>1, OrderIs, RowsTyped
  <2>2. Submitted \subseteq Ids /\ Ids = 1..Len(attempts) /\ IsFiniteSet(Submitted)
    BY <1>1, RowsTyped
  <2>3. DOMAIN s = 1..Len(s) /\ \A n \in DOMAIN s : s[n] \in Submitted
    BY <1>1, OrderIs
  <2>4. \A i \in Submitted : attempts[i].total \in Nat
    BY <1>1, <2>2, AheadTyped
  <2>5. \A i \in Submitted : i \in Nat
    BY <2>1, <2>2
  <2>6. Submitted \in SUBSET Nat
    BY <2>5
  <2>7. Len(s) \in Nat
    BY <2>1
  <2> QED BY <2>2, <2>3, <2>4, <2>5, <2>6, <2>7
<1>4. listing(s) \in Seq([attempt : Nat, total : Nat])
  <2>1. \A n \in 1..Len(s) : [attempt |-> s[n], total |-> attempts[s[n]].total]
                                \in [attempt : Nat, total : Nat]
    BY <1>3
  <2>2. listing(s) \in [1..Len(s) -> [attempt : Nat, total : Nat]]
    BY <1>3, <2>1
  <2> HIDE DEF listing
  <2> QED BY <1>3, <2>2, FunctionIsSeq, Zenon
<1>5. passed \in Nat
  <2>1. {i \in Submitted : 10 * attempts[i].total >= 6 * ExamTotal} \in SUBSET Submitted
    OBVIOUS
  <2> QED BY <1>3, <2>1, FS_Subset, FS_CardinalityType
<1>6. filled \in Seq(Nat)
  <2>1. \A b \in 1..5 : Cardinality({i \in Submitted : Bucket(i) = b}) \in Nat
    <3> SUFFICES ASSUME NEW b \in 1..5
                 PROVE  Cardinality({i \in Submitted : Bucket(i) = b}) \in Nat
      OBVIOUS
    <3>1. {i \in Submitted : Bucket(i) = b} \in SUBSET Submitted
      OBVIOUS
    <3> QED BY <1>3, <3>1, FS_Subset, FS_CardinalityType
  <2>2. filled \in [1..5 -> Nat]
    BY <2>1
  <2> HIDE DEF filled
  <2>3. 5 \in Nat
    OBVIOUS
  <2> QED BY <2>2, <2>3, FunctionIsSeq, Zenon
<1>7. Average(Submitted) \in Nat
  <2>1. CASE Submitted = {}
    BY <2>1 DEF Average
  <2>2. CASE Submitted # {}
    <3> DEFINE f == [i \in Submitted |-> attempts[i].total]
               n == Cardinality(Submitted)
               sum == SumFunctionOnSet(f, Submitted)
    <3>1. \A i \in Submitted : f[i] \in Nat
      BY <1>1, RowsTyped, AheadTyped
    <3>2. Average(Submitted) = (200 * sum + n) \div (2 * n)
      BY <2>2 DEF Average
    <3>3. n \in Nat /\ n # 0
      BY <1>3, <2>2, FS_CardinalityType, FS_EmptySet
    <3> HIDE DEF f
    <3>4. sum \in Nat
      BY <1>3, <3>1, SumType
    <3> HIDE DEF sum, n
    <3>5. n * 0 <= sum /\ sum <= n * sum
      <4>1. PICK k \in Nat : n = k + 1
        <5>1. n - 1 \in Nat /\ n = (n - 1) + 1
          BY <3>3
        <5> QED BY <5>1
      <4>2. n * sum = k * sum + sum /\ k * sum \in Nat
        BY <3>4, <4>1
      <4> QED BY <3>3, <3>4, <4>2
    <3> QED BY <3>2, <3>3, <3>4, <3>5, RoundBounds
  <2> QED BY <2>1, <2>2
<1>8a. PICK lis, buc, pas, avg :
          lis = listing(s) /\ buc = filled /\ pas = passed /\ avg = Average(Submitted)
  <2> HIDE DEF listing, filled, passed
  <2> QED OBVIOUS
<1>8. PICK new : new = [d EXCEPT !.listed = Submitted, !.participants = Len(s), !.order = lis,
                          !.pass = pas, !.buckets = buc, !.average = avg]
  OBVIOUS
<1>9. Read(r, "list", "done", new)
  BY <1>2, <1>8, <1>8a, Zenon
<1>10. /\ \A n \in DOMAIN s : lis[n].attempt = s[n] /\ lis[n].total = attempts[s[n]].total
       /\ \A b \in 1..5 : buc[b] = Cardinality({i \in Submitted : Bucket(i) = b})
       /\ pas = Cardinality({i \in Submitted : 10 * attempts[i].total >= 6 * ExamTotal})
  BY <1>8a
<1>11. lis \in Seq([attempt : Nat, total : Nat]) /\ buc \in Seq(Nat) /\ pas \in Nat /\ avg \in Nat
  BY <1>4, <1>5, <1>6, <1>7, <1>8a, Zenon
<1> HIDE DEF listing, passed, filled
<1>12. d \in Reading /\ IsReading(d) /\ LetIn(r, "list", d)
  BY <1>1, <1>2 DEF ReportsTypeOK, ReportsInv, IsReading, Knows, Read
<1>13. new = [d EXCEPT !.listed = Submitted, !.participants = Len(s), !.order = lis,
                 !.pass = pas, !.buckets = buc, !.average = avg]
  BY <1>8
<1>14. /\ new \in Reading /\ new.attempt = d.attempt /\ new.rank = d.rank
       /\ new.listed = Submitted /\ new.participants = Len(s) /\ new.order = lis
       /\ new.pass = pas /\ new.buckets = buc /\ new.average = avg
  BY <1>3, <1>11, <1>12, <1>13 DEF Reading
<1>15. IsReading(new)
  BY <1>12, <1>14 DEF IsReading
<1>16. AddsUp(new)
  <2>1. new.average = Average(Submitted)
    BY <1>8a, <1>14
  <2> QED BY <1>1, <1>10, <1>14, <2>1, StatsAreCoherent
<1>17. Knows(r, "done", new)
  <2>1. LetIn(r, "done", new)
    BY <1>1, <1>12, <1>14 DEF LetIn, Under
  <2>2. ReportReads(r, "done", new)
    BY <1>1 DEF ReportReads
  <2>3. StatsRead(r, "done", new)
    BY <1>10, <1>14, <1>16 DEF StatsRead
  <2> QED BY <2>1, <2>2, <2>3 DEF Knows
<1> QED BY <1>9, <1>15, <1>17, ReadKeeps DEF Places

LEMMA ReportRankKeeps ==
    ASSUME ReportsInv, NEW r \in Queries, ReportRank(r)
    PROVE  ReportsInv'
<1> DEFINE d == reading[r]
<1>1. ReportsTypeOK /\ r \in Reportings /\ r \notin Details \cup Gradings \cup Statistics
  BY DEF ReportsInv, ReportRank, ReportAssumption
<1>2. pc[r] = "rank"
  BY DEF ReportRank, Read
<1>3. d \in Reading /\ IsReading(d) /\ LetIn(r, "rank", d) /\ ReportReads(r, "rank", d)
  BY <1>1, <1>2 DEF ReportsTypeOK, ReportsInv, IsReading, Knows
<1>4. d.attempt \in Ids
  <2>1. d.attempt \in 0..Len(attempts) /\ "rank" \in Under \cup {"done"}
    BY <1>3 DEF IsReading, Under
  <2> QED BY <1>1, <1>3, <2>1, ReportOfRow
<1>5. /\ d.submitted => d.attempt \in Submitted
      /\ d.rank = 0 /\ d.participants = 0
      /\ Paper \subseteq d.seen \cup d.todo \cup d.missed \cup Gone /\ d.todo = {}
      /\ r \notin stale => /\ d.total = attempts[d.attempt].total
                           /\ d.scores = attempts[d.attempt].scores
  <2> HIDE DEF Gone
  <2> QED BY <1>1, <1>3, <1>4 DEF ReportReads, Submitted, Under
<1>6. CASE Read(r, "rank", "done", d)
  <2>1. LetIn(r, "done", d)
    BY <1>3 DEF LetIn, Under
  <2>2. ReportReads(r, "done", d)
    <3> HIDE DEF d, Gone
    <3> QED BY <1>4, <1>5 DEF ReportReads, Submitted
  <2>3. Knows(r, "done", d)
    BY <1>1, <2>1, <2>2 DEF Knows, StatsRead
  <2> QED BY <1>3, <1>6, <2>3, ReadKeeps DEF Places
<1>7. ASSUME NEW s \in Orders,
             Read(r, "rank", "done", [d EXCEPT
                 !.participants = Len(s),
                 !.rank = IF d.attempt \in Submitted
                          THEN CHOOSE n \in DOMAIN s : s[n] = d.attempt ELSE 0])
      PROVE  ReportsInv'
  <2>1. PICK k : k = IF d.attempt \in Submitted
                     THEN CHOOSE n \in DOMAIN s : s[n] = d.attempt ELSE 0
    OBVIOUS
  <2>2. PICK new : new = [d EXCEPT !.participants = Len(s), !.rank = k]
    OBVIOUS
  <2>3. Read(r, "rank", "done", new)
    BY <1>7, <2>1, <2>2, Zenon
  <2>4. Len(s) \in 0..Len(attempts) /\ Len(attempts) \in Nat /\ DOMAIN s = 1..Len(s)
    BY <1>1, OrderIs, RowsTyped
  <2>5. /\ d.attempt \in Submitted => k \in DOMAIN s /\ s[k] = d.attempt
        /\ d.attempt \notin Submitted => k = 0
    BY <1>1, <2>1, OrderIs
  <2>6. k \in 0..Len(s) /\ k \in Nat /\ k \in 0..Len(attempts) /\ Len(s) \in Nat
    BY <2>4, <2>5
  <2>7. /\ new \in Reading /\ new.attempt = d.attempt /\ new.total = d.total
        /\ new.submitted = d.submitted /\ new.scores = d.scores
        /\ new.todo = d.todo /\ new.seen = d.seen /\ new.missed = d.missed
        /\ new.rank = k /\ new.participants = Len(s)
    BY <1>3, <2>2, <2>6 DEF Reading
  <2>8. IsReading(new)
    BY <1>3, <2>6, <2>7 DEF IsReading
  <2>9. LetIn(r, "done", new)
    BY <1>3, <2>7 DEF LetIn, Under
  <2> HIDE DEF d
  <2>10. ReportReads(r, "done", new)
    <3>1. new.submitted => attempts[new.attempt].status = "submitted"
      BY <1>5, <2>7 DEF Submitted
    <3>2. new.rank <= new.participants /\ (new.submitted => new.rank > 0)
      BY <1>5, <2>4, <2>5, <2>6, <2>7
    <3>3. new.rank > 0 => new.rank \in DOMAIN s /\ s[new.rank] = new.attempt
      BY <2>5, <2>6, <2>7
    <3>4. r \notin stale => /\ new.total = attempts[new.attempt].total
                            /\ new.scores = attempts[new.attempt].scores
      BY <1>5, <2>7
    <3>5. Paper \subseteq new.seen \cup new.todo \cup new.missed \cup Gone /\ new.todo = {}
      BY <1>5, <2>7
    <3> HIDE DEF Gone
    <3> QED BY <3>1, <3>2, <3>3, <3>4, <3>5 DEF ReportReads
  <2>11. Knows(r, "done", new)
    BY <1>1, <2>9, <2>10 DEF Knows, StatsRead
  <2> QED BY <2>3, <2>8, <2>11, ReadKeeps DEF Places
<1> QED BY <1>6, <1>7 DEF ReportRank

-----------------------------------------------------------------------------
(* Steps of the attempts.                                                  *)

\* Whatever is written to an attempt, requests under way are told by stale.
LEMMA WriteKeeps ==
    ASSUME ReportsInv, NEW i \in Ids, NEW row \in Attempt,
           row.student = attempts[i].student, row.status = "submitted",
           attempts' = [attempts EXCEPT ![i] = row], Touch,
           UNCHANGED <<exam, bank, now, pc, caller, reading>>
    PROVE  ReportsInv'
<1>1. ReportsTypeOK /\ \A r \in Queries : Knows(r, pc[r], reading[r])
  BY DEF ReportsInv
<1>2. /\ Ids = 1..Len(attempts) /\ Len(attempts) \in Nat /\ attempts \in Seq(Attempt)
      /\ \A j \in Ids : attempts[j] \in Attempt
  BY <1>1, RowsTyped DEF ReportsTypeOK
<1>3. /\ attempts' \in Seq(Attempt) /\ Len(attempts') = Len(attempts)
      /\ \A j \in Ids : attempts'[j] = IF j = i THEN row ELSE attempts[j]
  BY <1>2, ExceptSeq
<1>4. Ids' = Ids
  BY <1>2, <1>3, LenProperties DEF Ids
<1>5. ReportsTypeOK'
  BY <1>1, <1>3 DEF ReportsTypeOK, Touch
<1>6. \A j \in Ids : /\ attempts'[j].student = attempts[j].student
                     /\ attempts[j].status = "submitted" => attempts'[j].status = "submitted"
  BY <1>3
<1>7. ASSUME NEW r \in Queries PROVE Knows(r, pc[r], reading[r])'
  <2>1. PICK at, d : at = pc[r] /\ d = reading[r]
    OBVIOUS
  <2>2. Knows(r, at, d) /\ d.attempt \in 0..Len(attempts) /\ pc'[r] = at /\ reading'[r] = d
    BY <1>1, <2>1 DEF ReportsTypeOK
  <2>3. at # "idle" => r \in stale'
    BY <2>1 DEF Touch
  <2>4. LetIn(r, at, d) /\ ReportReads(r, at, d) /\ StatsRead(r, at, d)
    BY <2>2 DEF Knows
  <2>5. LetIn(r, at, d)'
    <3>1. RouteOpen(r)' <=> RouteOpen(r)
      BY DEF RouteOpen
    <3>2. InScope(caller[r], d.attempt) => InScope(caller[r], d.attempt)'
      BY <1>2, <1>6, <2>2 DEF InScope
    <3> QED BY <2>4, <3>1, <3>2 DEF LetIn
  <2>6. ReportReads(r, at, d)'
    <3> SUFFICES ASSUME r \in Details \cup Reportings, at \in Under \cup {"done"}
                 PROVE  ReportReads(r, at, d)'
      BY DEF ReportReads
    <3>1. d.attempt \in Ids
      BY <1>1, <2>2, <2>4, ReportOfRow
    <3>2. r \in stale'
      BY <2>3 DEF Under
    <3>3. /\ d.submitted => attempts[d.attempt].status = "submitted"
          /\ at # "done" => d.rank = 0 /\ d.participants = 0
          /\ d.rank <= d.participants
          /\ at = "done" /\ d.submitted /\ d.participants > 0 => d.rank > 0
          /\ at # "items" => Paper \subseteq d.seen \cup d.todo \cup d.missed \cup Gone
          /\ at \in {"rank", "done"} => d.todo = {}
      BY <2>4 DEF ReportReads
    <3>4. Gone' = Gone
      BY DEF Gone
    <3> HIDE DEF Gone
    <3> QED BY <1>6, <3>1, <3>2, <3>3, <3>4 DEF ReportReads
  <2>7. StatsRead(r, at, d)'
    BY <2>3, <2>4 DEF StatsRead
  <2>8. Knows(r, at, d)'
    BY <2>5, <2>6, <2>7 DEF Knows
  <2> QED BY <2>2, <2>8
<1> QED BY <1>5, <1>7 DEF ReportsInv

LEMMA SubmitKeeps ==
    ASSUME ReportsInv, NEW i \in Ids, NEW right \in SUBSET AutoGraded, SubmitAttempt(i, right)
    PROVE  ReportsInv'
<1> DEFINE points == SumFunctionOnSet(ItemScore, right)
           got == [it \in Paper |-> IF it \in right THEN ItemScore[it] ELSE 0]
           row == [attempts[i] EXCEPT !.status = "submitted", !.objective = points,
                                      !.total = points, !.at = now, !.scores = got]
<1>1. attempts[i] \in Attempt /\ now \in Nat
  <2>1. ReportsTypeOK /\ MaxTime \in Nat
    BY DEF ReportsInv, ReportAssumption
  <2>2. now \in 0..MaxTime
    BY <2>1 DEF ReportsTypeOK
  <2> QED BY <2>1, <2>2, RowsTyped
<1>2. points \in Nat
  <2>1. right \in SUBSET Paper /\ IsFiniteSet(Paper) /\ \A it \in right : ItemScore[it] \in Nat
    BY DEF AutoGraded, ReportAssumption
  <2> QED BY <2>1, FS_Subset, SumType
<1>3. got \in [Paper -> Nat]
  BY DEF ReportAssumption
<1>4. /\ attempts' = [attempts EXCEPT ![i] = row] /\ Touch
      /\ UNCHANGED <<exam, bank, now, pc, caller, reading>>
  BY DEF SubmitAttempt
<1>5. PICK w, p, g : w = row /\ p = points /\ g = got
  OBVIOUS
<1>6. w = [attempts[i] EXCEPT !.status = "submitted", !.objective = p, !.total = p,
                              !.at = now, !.scores = g]
  BY <1>5, Zenon
<1>7. attempts' = [attempts EXCEPT ![i] = w] /\ p \in Nat /\ g \in [Paper -> Nat]
  BY <1>2, <1>3, <1>4, <1>5, Zenon
<1> HIDE DEF points, got, row
<1>8. w \in Attempt /\ w.student = attempts[i].student /\ w.status = "submitted"
  BY <1>1, <1>6, <1>7 DEF Attempt
<1> QED BY <1>4, <1>7, <1>8, WriteKeeps

LEMMA GradeAnswerKeeps ==
    ASSUME ReportsInv, NEW i \in Ids, NEW it \in Paper, NEW s \in 0..ItemScore[it],
           GradeAnswer(i, it, s)
    PROVE  ReportsInv'
<1>1. attempts[i] \in Attempt /\ attempts[i].status = "submitted"
  BY RowsTyped DEF ReportsInv, GradeAnswer
<1>2. s \in Nat
  BY DEF ReportAssumption
<1>3. PICK g : g = [attempts[i].scores EXCEPT ![it] = s]
  OBVIOUS
<1>4. g \in [Paper -> Nat]
  BY <1>1, <1>2, <1>3 DEF Attempt
<1>5. PICK w : w = [attempts[i] EXCEPT !.scores = g]
  OBVIOUS
<1>6. w \in Attempt /\ w.student = attempts[i].student /\ w.status = "submitted"
  BY <1>1, <1>4, <1>5 DEF Attempt
<1>7. /\ attempts' = [attempts EXCEPT ![i] = w] /\ Touch
      /\ UNCHANGED <<exam, bank, now, pc, caller, reading>>
  BY <1>3, <1>5 DEF GradeAnswer
<1> QED BY <1>6, <1>7, WriteKeeps

LEMMA GradeTotalKeeps ==
    ASSUME ReportsInv, NEW i \in Ids, NEW found \in SUBSET (Paper \ AutoGraded),
           GradeTotal(i, found)
    PROVE  ReportsInv'
<1>1. attempts[i] \in Attempt /\ attempts[i].status = "submitted" /\ ReportsTypeOK
  BY RowsTyped DEF ReportsInv, GradeTotal
<1>2. PICK t : t = attempts[i].objective + Sum(i, found)
  OBVIOUS
<1>3. t \in Nat
  <2>1. Sum(i, found) \in Nat
    BY <1>1, SumsTyped
  <2> QED BY <1>1, <1>2, <2>1 DEF Attempt
<1>4. PICK w : w = [attempts[i] EXCEPT !.total = t]
  OBVIOUS
<1>5. w \in Attempt /\ w.student = attempts[i].student /\ w.status = "submitted"
  BY <1>1, <1>3, <1>4 DEF Attempt
<1>6. /\ attempts' = [attempts EXCEPT ![i] = w] /\ Touch
      /\ UNCHANGED <<exam, bank, now, pc, caller, reading>>
  BY <1>2, <1>4 DEF GradeTotal
<1> QED BY <1>5, <1>6, WriteKeeps

\* A new attempt is not submitted; time alone changes nothing.
LEMMA StartKeeps ==
    ASSUME ReportsInv, NEW st \in Students, Start(st)
    PROVE  ReportsInv'
<1>1. ReportsTypeOK /\ \A r \in Queries : Knows(r, pc[r], reading[r])
  BY DEF ReportsInv
<1>2. PICK row : row = [student |-> st, status |-> "in_progress", objective |-> 0,
                        total |-> 0, at |-> 0, scores |-> [it \in Paper |-> 0]]
  OBVIOUS
<1>3. row \in Attempt /\ row.status # "submitted"
  BY <1>2 DEF Attempt
<1>4. attempts' = Append(attempts, row) /\ UNCHANGED <<exam, bank, now, pc, caller, reading, stale>>
  BY <1>2 DEF Start
<1>5. /\ Ids = 1..Len(attempts) /\ Len(attempts) \in Nat /\ attempts \in Seq(Attempt)
  BY <1>1, RowsTyped DEF ReportsTypeOK
<1>6. /\ attempts' \in Seq(Attempt) /\ Len(attempts') = Len(attempts) + 1
      /\ \A j \in 1..Len(attempts) : attempts'[j] = attempts[j]
      /\ attempts'[Len(attempts) + 1] = row
  BY <1>3, <1>4, <1>5, AppendProperties
<1>7. Ids' = Ids \cup {Len(attempts) + 1} /\ Len(attempts) + 1 \notin Ids
  <2>1. DOMAIN attempts' = 1..(Len(attempts) + 1)
    BY <1>6, LenProperties
  <2> QED BY <2>1, <1>5 DEF Ids
<1>8. Submitted' = Submitted
  <2>1. \A j \in Ids : attempts'[j] = attempts[j]
    BY <1>5, <1>6
  <2> QED BY <1>3, <1>6, <1>7, <2>1 DEF Submitted
<1>9. ReportsTypeOK'
  <2>1. \A r \in Queries : /\ reading'[r].attempt \in 0..Len(attempts')
                           /\ reading'[r].rank \in 0..Len(attempts')
    <3>1. 0..Len(attempts) \subseteq 0..Len(attempts')
      BY <1>5, <1>6
    <3> QED BY <1>1, <1>4, <3>1 DEF ReportsTypeOK
  <2> QED BY <1>1, <1>4, <1>6, <2>1 DEF ReportsTypeOK
<1>10. ASSUME NEW r \in Queries PROVE Knows(r, pc[r], reading[r])'
  <2>1. PICK at, d : at = pc[r] /\ d = reading[r]
    OBVIOUS
  <2>2. Knows(r, at, d) /\ d.attempt \in 0..Len(attempts) /\ pc'[r] = at /\ reading'[r] = d
    BY <1>1, <1>4, <2>1 DEF ReportsTypeOK
  <2>3. \A j \in Ids : attempts'[j] = attempts[j]
    BY <1>5, <1>6
  <2>4. Gone' = Gone
    BY <1>4 DEF Gone
  <2>5. Knows(r, at, d)'
    BY <1>1, <1>4, <1>7, <1>8, <2>2, <2>3, <2>4, KnowsKept
  <2> QED BY <2>2, <2>5
<1> QED BY <1>9, <1>10 DEF ReportsInv

\* Time and deletions leave the attempts as they are; what is deleted stays so.
LEMMA StandStill ==
    ASSUME ReportsInv,
           Tick \/ (\E it \in Paper : RemoveQuestion(it)) \/ RemoveExam \/ UNCHANGED reportsVars
    PROVE  ReportsInv'
<1>1. ReportsTypeOK /\ \A r \in Queries : Knows(r, pc[r], reading[r])
  BY DEF ReportsInv
<1>2. UNCHANGED <<attempts, pc, caller, reading, stale>>
  BY DEF Tick, RemoveQuestion, RemoveExam, reportsVars
<1>3. ReportsTypeOK'
  <2>1. now' \in 0..MaxTime
    BY <1>1 DEF Tick, RemoveQuestion, RemoveExam, reportsVars, ReportsTypeOK, ReportAssumption
  <2>2. exam' \in BOOLEAN /\ bank' \subseteq Paper
    BY <1>1 DEF Tick, RemoveQuestion, RemoveExam, reportsVars, ReportsTypeOK
  <2> QED BY <1>1, <1>2, <2>1, <2>2 DEF ReportsTypeOK
<1>4. Gone \subseteq Gone'
  BY DEF Gone, Tick, RemoveQuestion, RemoveExam, reportsVars
<1>5. ASSUME NEW r \in Queries PROVE Knows(r, pc[r], reading[r])'
  <2>1. PICK at, d : at = pc[r] /\ d = reading[r]
    OBVIOUS
  <2>2. Knows(r, at, d) /\ d.attempt \in 0..Len(attempts) /\ pc'[r] = at /\ reading'[r] = d
    BY <1>1, <1>2, <2>1 DEF ReportsTypeOK
  <2>3. Submitted' = Submitted /\ Ids' = Ids
    BY <1>2 DEF Submitted, Ids
  <2>4. Knows(r, at, d)'
    BY <1>1, <1>2, <1>4, <2>2, <2>3, KnowsKept
  <2> QED BY <2>2, <2>4
<1> QED BY <1>3, <1>5 DEF ReportsInv

LEMMA ReportsStep == ReportsInv /\ [ReportsNext]_reportsVars => ReportsInv'
<1> SUFFICES ASSUME ReportsInv, [ReportsNext]_reportsVars PROVE ReportsInv'
  OBVIOUS
<1>1. ASSUME NEW st \in Students, Start(st) PROVE ReportsInv'
  BY <1>1, StartKeeps
<1>2. ASSUME NEW i \in Ids, NEW right \in SUBSET AutoGraded, SubmitAttempt(i, right)
      PROVE  ReportsInv'
  BY <1>2, SubmitKeeps
<1>3. ASSUME NEW i \in Ids, NEW it \in Paper, NEW s \in 0..ItemScore[it], GradeAnswer(i, it, s)
      PROVE  ReportsInv'
  BY <1>3, GradeAnswerKeeps
<1>4. ASSUME NEW i \in Ids, NEW found \in SUBSET (Paper \ AutoGraded), GradeTotal(i, found)
      PROVE  ReportsInv'
  BY <1>4, GradeTotalKeeps
<1>5. CASE Tick \/ (\E it \in Paper : RemoveQuestion(it)) \/ RemoveExam \/ UNCHANGED reportsVars
  BY <1>5, StandStill
<1>6. ASSUME NEW r \in Details \cup Reportings,
             AttemptLoad(r) \/ ItemsRead(r) \/ AnswersRead(r) \/ QuestionRead(r)
      PROVE  ReportsInv'
  BY <1>6, AttemptLoadKeeps, ItemsReadKeeps, AnswersReadKeeps, QuestionReadKeeps
<1>7. ASSUME NEW r \in Gradings \cup Statistics, ExamLoad(r) PROVE ReportsInv'
  BY <1>7, ExamLoadKeeps
<1>8. ASSUME NEW r \in Queries, ReportRank(r) \/ GradingList(r) \/ ExamStats(r) \/ Fail(r)
      PROVE  ReportsInv'
  BY <1>8, ReportRankKeeps, GradingListKeeps, ExamStatsKeeps, FailKeeps
<1> QED BY <1>1, <1>2, <1>3, <1>4, <1>5, <1>6, <1>7, <1>8 DEF ReportsNext

LEMMA ReportsStart == ReportsInit => ReportsInv
<1> SUFFICES ASSUME ReportsInit PROVE ReportsInv
  OBVIOUS
<1>1. /\ attempts = <<>> /\ now = 1 /\ stale = {}
      /\ pc = [r \in Queries |-> "idle"] /\ reading = [r \in Queries |-> Nothing]
      /\ caller \in [Queries -> Callers] /\ exam = TRUE /\ bank = Paper
  BY DEF ReportsInit
<1>2. <<>> \in Seq(Attempt) /\ Len(<<>>) = 0
  BY EmptySeq
<1>3. Nothing \in Reading /\ Nothing.attempt = 0 /\ Nothing.rank = 0
  <2>1. <<>> \in Seq(Nat) /\ <<>> \in Seq([attempt : Nat, total : Nat])
    BY EmptySeq
  <2> QED BY <2>1 DEF Nothing, Reading
<1>4. ReportsTypeOK
  BY <1>1, <1>2, <1>3 DEF ReportsTypeOK, ReportAssumption, Places
<1>5. \A r \in Queries : Knows(r, pc[r], reading[r])
  BY <1>1, <1>4, NothingKnown
<1> QED BY <1>4, <1>5 DEF ReportsInv

\* Reports, statistics, details and lists always satisfy the invariant.
THEOREM ReportsKnow == ReportsSpec => []ReportsInv
  BY ReportsStart, ReportsStep, PTL DEF ReportsSpec

-----------------------------------------------------------------------------
(* The invariant implies the properties.                                   *)

\* Whoever got an answer was entitled to it.
LEMMA AnsweredEntitled == ReportsInv => ReadersEntitled
<1> SUFFICES ASSUME ReportsInv, NEW r \in Queries, pc[r] = "done"
             PROVE  \/ /\ Role[caller[r]] = "student" /\ reading[r].attempt # 0
                       /\ attempts[reading[r].attempt].student = caller[r]
                    \/ caller[r] = Owner \/ Role[caller[r]] = "admin"
  BY DEF ReadersEntitled
<1>1. LetIn(r, "done", reading[r])
  BY DEF ReportsInv, Knows
<1>2. RouteOpen(r) /\ InScope(caller[r], reading[r].attempt)
  BY <1>1 DEF LetIn
<1>3. Role[caller[r]] \in {"student", "teacher", "admin"}
  BY DEF ReportsInv, ReportsTypeOK, ReportAssumption
<1>4. CASE Role[caller[r]] = "student"
  BY <1>2, <1>4 DEF InScope
<1>5. CASE Role[caller[r]] = "teacher"
  BY <1>2, <1>5 DEF InScope
<1> QED BY <1>3, <1>4, <1>5

\* The numbers of a finished report or detail fit together.
LEMMA FinishedFits ==
    ASSUME ReportsInv, NEW r \in Details \cup Reportings, pc[r] = "done"
    PROVE  LET d == reading[r]
               i == d.attempt
               out == Paper \ d.seen
           IN  /\ out \subseteq d.missed \cup Gone
               /\ (d.submitted /\ r \notin stale /\ attempts[i].total = Sum(i, Paper)) =>
                     Part(d, "objective") + Part(d, "subjective") + Sum(i, out) = d.total
               /\ d.rank <= d.participants
               /\ (d.submitted /\ d.participants > 0) => d.rank > 0
<1>1. PICK d : d = reading[r]
  OBVIOUS
<1>2. /\ ReportsTypeOK /\ r \in Queries /\ d.attempt \in 0..Len(attempts) /\ d \in Reading
      /\ LetIn(r, "done", d) /\ ReportReads(r, "done", d)
  BY <1>1 DEF ReportsInv, ReportsTypeOK, Knows, Queries
<1>3. d.attempt \in Ids
  BY <1>2, ReportOfRow
<1>4. d.scores = attempts[d.attempt].scores =>
         Part(d, "objective") + Part(d, "subjective") + Sum(d.attempt, Paper \ d.seen)
            = Sum(d.attempt, Paper)
  BY <1>2, <1>3, PartsAddUp
<1> HIDE DEF Gone
<1>5. /\ d.rank <= d.participants
      /\ (d.submitted /\ d.participants > 0) => d.rank > 0
      /\ Paper \subseteq d.seen \cup d.missed \cup Gone
      /\ r \notin stale => /\ d.total = attempts[d.attempt].total
                           /\ d.scores = attempts[d.attempt].scores
  BY <1>2 DEF ReportReads
<1>6. Paper \ d.seen \subseteq d.missed \cup Gone
  BY <1>5
<1> QED BY <1>1, <1>4, <1>5, <1>6

LEMMA ReportsFit == ReportsInv => ReportCoherent
<1> SUFFICES ASSUME ReportsInv PROVE ReportCoherent
  OBVIOUS
<1>1. ReportsTypeOK /\ ReadersEntitled
  BY AnsweredEntitled DEF ReportsInv
<1> QED BY <1>1, FinishedFits DEF ReportCoherent

LEMMA StatsFit == ReportsInv => StatsCoherent
<1> SUFFICES ASSUME ReportsInv PROVE StatsCoherent
  OBVIOUS
<1>1. ASSUME NEW r \in Statistics, pc[r] = "done" PROVE AddsUp(reading[r])
  <2>1. r \in Queries
    BY DEF Queries
  <2>2. StatsRead(r, "done", reading[r])
    BY <1>1, <2>1 DEF ReportsInv, Knows
  <2> QED BY <2>2 DEF StatsRead
<1> QED BY <1>1 DEF StatsCoherent, AddsUp

\* Without ties, the two rankings have an attempt in the same place.
LEMMA OneRanking ==
    ASSUME ReportsTypeOK, NEW s \in Orders, NEW t \in Orders, NEW k \in DOMAIN s,
           \A i, j \in Submitted : i # j => Ahead(i, j) \/ Ahead(j, i)
    PROVE  k \in DOMAIN t /\ t[k] = s[k]
<1>1. s[k] \in Submitted
  BY OrderIs
<1>2. PICK l \in DOMAIN t : t[l] = s[k]
  BY <1>1, OrderIs
<1>3. k = Cardinality({j \in Submitted : Ahead(j, s[k])}) + 1
  BY PlaceIs
<1>4. l = Cardinality({j \in Submitted : Ahead(j, t[l])}) + 1
  BY PlaceIs
<1>5. k = l
  BY <1>2, <1>3, <1>4
<1> QED BY <1>2, <1>5

LEMMA RanksFit == ReportsInv => RanksAgree
<1> SUFFICES ASSUME ReportsInv, NEW r \in Reportings, NEW q \in Statistics,
                    pc[r] = "done", pc[q] = "done", reading[r].rank > 0,
                    r \notin stale, q \notin stale,
                    \A i, j \in Submitted : i # j => Ahead(i, j) \/ Ahead(j, i)
             PROVE  reading[q].order[reading[r].rank].attempt = reading[r].attempt
  BY DEF RanksAgree
<1>1. ReportsTypeOK /\ r \in Queries /\ q \in Queries
  BY DEF ReportsInv, Queries
<1>2. PICK d, e : d = reading[r] /\ e = reading[q]
  OBVIOUS
<1>3. ReportReads(r, "done", d) /\ StatsRead(q, "done", e) /\ d.rank > 0
  BY <1>1, <1>2 DEF ReportsInv, Knows
<1>4. PICK s \in Orders : d.rank \in DOMAIN s /\ s[d.rank] = d.attempt
  BY <1>3 DEF ReportReads
<1>5. PICK t \in Orders : \A n \in DOMAIN t : e.order[n].attempt = t[n]
  BY <1>3 DEF StatsRead
<1>6. d.rank \in DOMAIN t /\ t[d.rank] = s[d.rank]
  BY <1>1, <1>4, OneRanking
<1> QED BY <1>2, <1>4, <1>5, <1>6

\* A report or detail is read by those entitled to it, leaves out only items that are
\* deleted or could not be looked up, its parts and what is left out add up to its
\* total unless something was written, and its rank is one of those of the
\* participants: the reads of Report and buildDetail of changing rows.
THEOREM ReportsStayCoherent == ReportsSpec => []ReportCoherent
  BY ReportsKnow, ReportsFit, PTL

\* The ranking of ExamStats descends from the highest to the lowest score, these
\* bound the average, and its buckets and passes add up to the participants.
THEOREM StatsStayCoherent == ReportsSpec => []StatsCoherent
  BY ReportsKnow, StatsFit, PTL

\* Report's ranking and ExamStats', two sorts of two queries, agree where no
\* attempts tie and none was written in between.
THEOREM RanksStayEqual == ReportsSpec => []RanksAgree
  BY ReportsKnow, RanksFit, PTL
=============================================================================
