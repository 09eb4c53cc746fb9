------------------------------ MODULE WrongBook ------------------------------
(***************************************************************************)
(* The wrong-question book of one student: UpsertWrongQuestion as Submit   *)
(* calls it (a Collect is one of its calls), WrongQuestionService.Practice *)
(* SubmitPractice and Delete.  Table wrong_questions has no unique index   *)
(* and nothing is a transaction: one action is one query of one request    *)
(* with the local code that follows it.  All questions are objective:      *)
(* others never get into the book and a practice skips them.               *)
(***************************************************************************)
EXTENDS Naturals, Sequences, FiniteSetsExt, Functions

CONSTANTS Questions,
          Collects, Practices, Deletes, Reads,   \* requests
          PageCap    \* the largest page: 100 in NormalizePage

Writers == Collects \cup Practices
Requests == Writers \cup Deletes \cup Reads

ASSUME BookAssumption == PageCap \in Nat \ {0}
ASSUME RequestAssumption == /\ Collects \cap Practices = {}
                            /\ Deletes \cap Reads = {}
                            /\ Writers \cap (Deletes \cup Reads) = {}

VARIABLES
    book,     \* rows of wrong_questions by id, the deleted ones included
    bank,     \* questions not deleted
    now,      \* clock: counts the calls of time.Now
    pc,       \* of each request
    local,    \* local state of the writers
    offered,  \* the practice set a Read was served
    before,   \* requests that had ended when this one began (history)
    recorded, \* wrong answers a request has written (history)
    marked    \* right answers a request has written (history)

vars == <<book, bank, now, pc, local, offered, before, recorded, marked>>

-----------------------------------------------------------------------------
Row == [question : Questions, count : Nat, at : Nat,
        status : {"unresolved", "resolved"}, gone : BOOLEAN, by : Writers]

Local == [todo : SUBSET Questions,   \* answers still to process
          right : SUBSET Questions,  \* those that are right
          record : [Questions -> Nat],  \* recordByQuestion: an id, or 0
          q : Questions, at : Nat,   \* the record being upserted
          id : Nat, count : Nat]     \* the row found for it, or 0

Running == {"questions", "list", "answer", "mark", "find", "write"}
Ended == {"done", "refused", "failed"}

TypeOK == /\ book \in Seq(Row)
          /\ bank \subseteq Questions
          /\ now \in Nat
          /\ pc \in [Requests -> {"idle"} \cup Running \cup Ended]
          /\ local \in [Writers -> Local]
          /\ offered \in [Reads -> SUBSET Questions]
          /\ before \in [Requests -> SUBSET Requests]
          /\ recorded \in [Writers -> SUBSET Questions]
          /\ marked \in [Writers -> SUBSET Questions]

Init == /\ book = <<>> /\ bank = Questions /\ now = 0
        /\ pc = [r \in Requests |-> "idle"]
        /\ local \in [Writers -> [todo : SUBSET Questions \ {{}}, right : SUBSET Questions,
                                  record : {[q \in Questions |-> 0]},
                                  q : Questions, at : {0}, id : {0}, count : {0}]]
        /\ \A r \in Writers : /\ local[r].right \subseteq local[r].todo
                              /\ r \in Collects => /\ local[r].right = {}
                                                   /\ local[r].todo = {local[r].q}
                              /\ r \in Practices =>
                                    local[r].q = CHOOSE q \in Questions : TRUE
        /\ offered = [v \in Reads |-> {}]
        /\ before = [r \in Requests |-> {}]
        /\ recorded = [r \in Writers |-> {}] /\ marked = [r \in Writers |-> {}]

Goto(r, to) == pc' = [pc EXCEPT ![r] = to]
Begin(r, to) == /\ pc[r] = "idle" /\ Goto(r, to)
                /\ before' = [before EXCEPT ![r] = {s \in Requests : pc[s] \in Ended}]
Step(r, from, to) == pc[r] = from /\ Goto(r, to) /\ UNCHANGED before

Ids == {i \in DOMAIN book : ~book[i].gone}
RowsOf(q) == {i \in Ids : book[i].question = q}

\* ListWrongQuestions(page 1): the most recent rows, as many as a page holds.
Page == {i \in Ids : Cardinality({j \in Ids : book[j].at > book[i].at}) < PageCap}

-----------------------------------------------------------------------------
(* UpsertWrongQuestion, for both callers.                                  *)

\* Submit stamps its wrong answers long before it records them.
CollectBegin(r) ==
    /\ Begin(r, "find")
    /\ now' = now + 1
    /\ local' = [local EXCEPT ![r].at = now']
    /\ UNCHANGED <<book, bank, offered, recorded, marked>>

\* Mutant of UpsertFind: resolved rows are not looked for.
UpsertFindUnresolved(r) ==
    /\ Step(r, "find", "write")
    /\ LET found == {i \in RowsOf(local[r].q) : book[i].status = "unresolved"}
           id == IF found = {} THEN 0 ELSE Min(found)
       IN  local' = [local EXCEPT ![r].id = id,
                        ![r].count = IF id = 0 THEN 0 ELSE book[id].count]
    /\ UNCHANGED <<book, bank, now, offered, recorded, marked>>

\* The first row of the question, or none.
UpsertFind(r) ==
    /\ Step(r, "find", "write")
    /\ LET found == RowsOf(local[r].q)
           id == IF found = {} THEN 0 ELSE Min(found)
       IN  local' = [local EXCEPT ![r].id = id,
                        ![r].count = IF id = 0 THEN 0 ELSE book[id].count]
    /\ UNCHANGED <<book, bank, now, offered, recorded, marked>>

NewRow(r, n, st) == [question |-> local[r].q, count |-> n, at |-> local[r].at,
                     status |-> st, gone |-> FALSE, by |-> r]
Counted(r, row, st) == [row EXCEPT !.count = local[r].count + 1,
                                   !.at = local[r].at, !.status = st]

\* Mutants of Upserted: a new row counts double; a resolved row stays so.
UpsertedFromTwo(r) ==
    IF local[r].id = 0 THEN Append(book, NewRow(r, 2, "unresolved"))
    ELSE [book EXCEPT ![local[r].id] = Counted(r, @, "unresolved")]
UpsertedKeepingStatus(r) ==
    IF local[r].id = 0 THEN Append(book, NewRow(r, 1, "unresolved"))
    ELSE [book EXCEPT ![local[r].id] = Counted(r, @, @.status)]

\* The row found, with the count read before plus one, or a new row.
Upserted(r) ==
    IF local[r].id = 0 THEN Append(book, NewRow(r, 1, "unresolved"))
    ELSE [book EXCEPT ![local[r].id] = Counted(r, @, "unresolved")]

\* Nobody notices when the row was deleted meanwhile.
UpsertWrite(r) ==
    /\ Step(r, "write", IF r \in Collects THEN "done" ELSE "answer")
    /\ book' = Upserted(r)
    /\ recorded' = [recorded EXCEPT ![r] = @ \cup {local[r].q}]
    /\ UNCHANGED <<bank, now, local, offered, marked>>

-----------------------------------------------------------------------------
(* GET /wrong-questions/practice                                           *)

\* The unresolved ones of a page, of which the questions still exist.
Unresolved(S) == {book[i].question : i \in {j \in S : book[j].status = "unresolved"}}

\* Nothing is kept of it; answers may be sent without.
Practice(v) ==
    /\ Begin(v, "done")
    /\ offered' = [offered EXCEPT ![v] = Unresolved(Page) \cap bank]
    /\ UNCHANGED <<book, bank, now, local, recorded, marked>>

-----------------------------------------------------------------------------
(* POST /wrong-questions/practice                                          *)

PracticeBegin(p) ==
    /\ Begin(p, "list")
    /\ local' = [local EXCEPT ![p].todo = @ \cap bank]
    /\ UNCHANGED <<book, bank, now, offered, recorded, marked>>

\* Of two rows of a question the older one, in the order of the list, counts.
PracticeList(p) ==
    /\ Step(p, "list", "answer")
    /\ local' = [local EXCEPT ![p].record = [q \in Questions |->
          LET S == RowsOf(q) \cap Page
          IN  IF S = {} THEN 0
              ELSE CHOOSE i \in S : \A j \in S : book[i].at <= book[j].at]]
    /\ UNCHANGED <<book, bank, now, offered, recorded, marked>>

\* The next answer; the page sends them in a random order.
PracticeAnswer(p) ==
    /\ IF local[p].todo = {}
       THEN Step(p, "answer", "done") /\ UNCHANGED <<now, local>>
       ELSE \E q \in local[p].todo :
              LET answered == [local[p] EXCEPT !.todo = @ \ {q}, !.q = q]
              IN  IF q \in local[p].right
                  THEN /\ Step(p, "answer", IF local[p].record[q] = 0
                                            THEN "answer" ELSE "mark")
                       /\ local' = [local EXCEPT ![p] = answered]
                       /\ UNCHANGED now
                  ELSE /\ Step(p, "answer", "find")
                       /\ now' = now + 1
                       /\ local' = [local EXCEPT ![p] = [answered EXCEPT !.at = now']]
    /\ UNCHANGED <<book, bank, offered, recorded, marked>>

\* MarkWrongQuestionResolved: a deleted row ends the request, the answers left
\* over unread.  A resolved row is marked again.
PracticeMark(p) ==
    LET id == local[p].record[local[p].q]
    IN  /\ pc[p] = "mark"
        /\ IF book[id].gone
           THEN Step(p, "mark", "refused") /\ UNCHANGED <<book, marked>>
           ELSE /\ Step(p, "mark", "answer")
                /\ book' = [book EXCEPT ![id].status = "resolved"]
                /\ marked' = [marked EXCEPT ![p] = @ \cup {local[p].q}]
        /\ UNCHANGED <<bank, now, local, offered, recorded>>

-----------------------------------------------------------------------------
(* DELETE /wrong-questions/:id, failures and the rest of the server.       *)

DeleteRow(d) ==
    /\ \/ \E i \in Ids : /\ Begin(d, "done")
                         /\ book' = [book EXCEPT ![i].gone = TRUE]
       \/ Begin(d, "refused") /\ UNCHANGED book
    /\ UNCHANGED <<bank, now, local, offered, recorded, marked>>

Fail(r) == /\ pc[r] \in Running
           /\ Goto(r, "failed")
           /\ UNCHANGED <<book, bank, now, local, offered, before, recorded, marked>>

DeleteQuestion(q) ==
    /\ q \in bank
    /\ bank' = bank \ {q}
    /\ UNCHANGED <<book, now, pc, local, offered, before, recorded, marked>>

Next == \/ \E r \in Collects : CollectBegin(r)
        \/ \E r \in Writers : UpsertFind(r) \/ UpsertWrite(r) \/ Fail(r)
        \/ \E p \in Practices : PracticeBegin(p) \/ PracticeList(p)
                                \/ PracticeAnswer(p) \/ PracticeMark(p)
        \/ \E v \in Reads : Practice(v)
        \/ \E d \in Deletes : DeleteRow(d)
        \/ \E q \in Questions : DeleteQuestion(q)

Spec == Init /\ [][Next]_vars

-----------------------------------------------------------------------------
(* Safety.                                                                 *)

Deleted == \E d \in Deletes : pc[d] = "done"

\* Requests p and r were never in flight together.
Apart(p, r) == pc[p] = "idle" \/ pc[r] = "idle" \/ p \in before[r] \/ r \in before[p]

WrongAnswers(q) == Cardinality({r \in Writers : q \in recorded[r]})
CountOf(q) == SumFunctionOnSet([i \in DOMAIN book |-> book[i].count], RowsOf(q))

\* The counts of a question never add up to more than the wrong answers
\* recorded for it, and to no less unless two of its writers overlapped
\* (repository_wrong_question.go:17) or a record was deleted.
CountsPossible ==
    /\ TypeOK
    /\ \A q \in Questions :
          /\ CountOf(q) <= WrongAnswers(q)
          /\ \/ CountOf(q) = WrongAnswers(q)
             \/ Deleted
             \/ \E p, r \in Writers :
                   p # r /\ q \in recorded[p] \cap recorded[r] /\ ~Apart(p, r)

\* Two records of one question come from requests that overlapped.
DuplicateOnlyByOverlap ==
    \A i, j \in DOMAIN book :
        i < j /\ book[i].question = book[j].question /\ ~book[i].gone /\ ~book[j].gone =>
            ~Apart(book[i].by, book[j].by)

\* A resolved record stands for a right answer in a practice, and no wrong
\* answer given after that practice ended has been put in the record, although
\* the practice marks a row it listed before (service_wrong_question.go:148):
\* it can only have gone into another record of the question.
ResolvedByRightAnswer ==
    \A i \in Ids : book[i].status = "resolved" =>
        \E p \in Practices :
            /\ book[i].question \in marked[p]
            /\ \A r \in Writers :
                  (book[i].question \in recorded[r] /\ p \in before[r]) =>
                     \E j \in DOMAIN book : j # i /\ book[j].question = book[i].question

\* A question answered wrong, the answer recorded before a practice set is asked
\* for, is in the set as long as the book fits a page (service_wrong_question.go:68),
\* unless a practice that did not end before the wrong answer marked it.
WrongIsOffered ==
    [][\A v \in Reads : pc[v] = "idle" /\ pc'[v] = "done" =>
          \A r \in before'[v] \cap Writers : \A q \in recorded[r] \cap bank :
             \/ q \in offered'[v]
             \/ Deleted
             \/ Cardinality(Ids) > PageCap
             \/ \E p \in Practices : q \in marked[p] /\ p \notin before[r]]_vars

-----------------------------------------------------------------------------
(* What the comments say and the code does not do.                         *)

\* repository_wrong_question.go:10 "records a wrong answer, incrementing the
\* wrong count": every wrong answer counts.
EveryWrongAnswerCounts ==
    ~Deleted => \A q \in Questions : CountOf(q) = WrongAnswers(q)

\* service_wrong_question.go:66 "a shuffled set of unresolved wrong questions":
\* a practice offers every question of the book that is not resolved.
PracticeOffersAll ==
    [][\A v \in Reads : pc[v] = "idle" /\ pc'[v] = "done" =>
          \A i \in Ids : (book[i].status = "unresolved" /\ book[i].question \in bank) =>
             book[i].question \in offered'[v]]_vars
=============================================================================
