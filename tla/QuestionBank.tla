---------------------------- MODULE QuestionBank ----------------------------
(***************************************************************************)
(* The question bank: QuestionService.Create, Update, Delete and both      *)
(* imports with their validation, and what the bank is for: a student is   *)
(* served an objective question, answers it on the exam page, and          *)
(* isCorrectObjective compares the answer with the key stored by then.     *)
(* One action is one query of one request with the local code around it.   *)
(*                                                                         *)
(* A text is any string; what the code does with one is Trim and, to       *)
(* compare, Fold (letter case).  Options are their keys: an option without *)
(* a text is refused as one without a key is.                              *)
(***************************************************************************)
EXTENDS Naturals, Sequences, FiniteSets

CONSTANTS Texts, Empty, True, False,   \* "", "T" and "F"
          Trim, Fold,                  \* strings.TrimSpace, strings.EqualFold
          Asked,                       \* what is sent: questions ...
          Files,                       \* ... and lists of them, or of rows
          Creates, Updates, Deletes, Imports, Takers   \* requests

ASSUME TextAssumption ==
    /\ {Empty, True, False} \subseteq Texts
    /\ Trim \in [Texts -> Texts] /\ Fold \in [Texts -> Texts]
    /\ \A t \in Texts : Trim[Trim[t]] = Trim[t]
    /\ Trim[True] = True /\ Trim[False] = False /\ Trim[Empty] = Empty
    /\ Fold[True] # Fold[False] /\ True # Empty /\ False # Empty

Objective == {"single", "multiple", "true_false"}   \* ObjectiveQuestionTypes
Types == Objective \cup {"fill_blank", "short_answer"}

\* A JSON value is a text, a list of texts, or something else.
Values == [kind : {"text"}, items : [1..1 -> Texts]]
            \cup [kind : {"list"}, items : Seq(Texts)]
            \cup [kind : {"other"}, items : {<<>>}]

\* bound: the request keeps the rules QuestionRequest declares for binding.
Question == [type : Types, keys : Seq(Texts), answer : Values, bound : BOOLEAN]

ASSUME InputAssumption ==
    /\ Asked \subseteq Question
    /\ \A f \in Files : /\ f.via \in {"body", "json", "xlsx"}
                        /\ f.entries \in Seq([is : {"header", "unreadable"}]
                                              \cup [is : {"question"}, question : Asked])

\* A request of a student is none of a teacher.
ASSUME RequestAssumption ==
    Takers \cap (Creates \cup Updates \cup Deletes \cup Imports) = {}

Members(s) == {s[i] : i \in DOMAIN s}
Trimmed(s) == [i \in DOMAIN s |-> Trim[s[i]]]
Distinct(s) == \A i, j \in DOMAIN s : s[i] = s[j] => i = j

-----------------------------------------------------------------------------
(* validateQuestion, buildQuestion                                         *)

\* normalizeOptions accepts them and there are two at least.
OptionsValid(q) == /\ Len(q.keys) >= 2
                   /\ Empty \notin Members(Trimmed(q.keys))
                   /\ Distinct(Trimmed(q.keys))

\* The answer is compared with the trimmed keys as it is.
Valid(q) ==
    LET given == Members(q.answer.items)
        one == q.answer.kind = "text"
        many == q.answer.kind = "list" /\ given # {}
        keys == Members(Trimmed(q.keys))
    IN  \/ q.type = "single" /\ OptionsValid(q) /\ one /\ given \subseteq keys
        \/ q.type = "multiple" /\ OptionsValid(q) /\ many /\ given \subseteq keys
        \/ q.type = "true_false" /\ one /\ given \subseteq {True, False}
        \/ q.type = "fill_blank" /\ many /\ Empty \notin Members(Trimmed(q.answer.items))
        \/ q.type = "short_answer" /\ one /\ Empty \notin Members(Trimmed(q.answer.items))

\* What is stored of a valid question.
Built(q) ==
    [q EXCEPT !.keys = IF q.type \in {"single", "multiple"} THEN Trimmed(q.keys)
                       ELSE IF q.type = "true_false" THEN <<True, False>> ELSE <<>>]

-----------------------------------------------------------------------------
(* isCorrectObjective                                                      *)

\* Mutant of IsCorrect: the number of answers is not compared.
IsCorrectSome(type, c, s) ==
    \/ /\ type \in {"single", "true_false"}
       /\ c.kind = "text" /\ s.kind = "text"
       /\ Fold[Trim[c.items[1]]] = Fold[Trim[s.items[1]]]
    \/ /\ type = "multiple"
       /\ c.kind = "list" /\ s.kind = "list"
       /\ Members(Trimmed(s.items)) \subseteq Members(Trimmed(c.items))

IsCorrect(type, c, s) ==
    \/ /\ type \in {"single", "true_false"}
       /\ c.kind = "text" /\ s.kind = "text"
       /\ Fold[Trim[c.items[1]]] = Fold[Trim[s.items[1]]]
    \/ /\ type = "multiple"
       /\ c.kind = "list" /\ s.kind = "list"
       /\ Len(c.items) = Len(s.items)
       /\ Members(Trimmed(s.items)) \subseteq Members(Trimmed(c.items))

-----------------------------------------------------------------------------
VARIABLES
    bank,     \* table questions by id, the deleted rows included
    pc,       \* of each request
    asked,    \* the question a Create or Update sends, or a file's valid ones
    target,   \* the id an Update or Taker is about, or 0
    served,   \* the question a Taker was served
    answer,   \* what the page sends for it
    verdict,  \* how that was graded: right, wrong, not at all, or not read
    edited    \* ids updated or deleted since a Taker was served (history)

vars == <<bank, pc, asked, target, served, answer, verdict, edited>>

Writers == Creates \cup Updates \cup Deletes \cup Imports
Requests == Writers \cup Takers
NoValue == [kind |-> "other", items |-> <<>>]

TypeOK == /\ bank \in Seq([question : Question, gone : BOOLEAN])
          /\ pc \in [Requests -> {"idle", "write", "grade", "done", "refused", "failed"}]
          /\ asked \in [Writers -> Seq(Question)]
          /\ target \in [Requests -> Nat]
          /\ served \in [Takers -> Question \cup {NoValue}]
          /\ answer \in [Takers -> Values]
          /\ verdict \in [Takers -> {"none", "right", "wrong", "unread"}]
          /\ edited \in [Takers -> SUBSET Nat]

Init == /\ bank = <<>>
        /\ pc = [r \in Requests |-> "idle"]
        /\ asked = [r \in Writers |-> <<>>]
        /\ target = [r \in Requests |-> 0]
        /\ served = [t \in Takers |-> NoValue]
        /\ answer = [t \in Takers |-> NoValue]
        /\ verdict = [t \in Takers |-> "none"]
        /\ edited = [t \in Takers |-> {}]

Step(r, from, to) == pc[r] = from /\ pc' = [pc EXCEPT ![r] = to]
Ids == {i \in DOMAIN bank : ~bank[i].gone}
Edit(i) == edited' = [t \in Takers |-> edited[t] \cup {i}]
taken == <<served, answer, verdict>>

-----------------------------------------------------------------------------
(* POST /questions, PUT and DELETE /questions/:id, POST                    *)
(* /questions/batch-import                                                 *)

\* Binding refuses a request that breaks its rules, then validation.
CreateCheck(r) ==
    /\ \E q \in Asked :
          IF q.bound /\ Valid(q)
          THEN Step(r, "idle", "write") /\ asked' = [asked EXCEPT ![r] = <<Built(q)>>]
          ELSE Step(r, "idle", "refused") /\ UNCHANGED asked
    /\ UNCHANGED <<bank, target, edited, taken>>

\* The row is read before the validation.
UpdateFind(r) ==
    /\ \/ \E q \in Asked, i \in Ids :
             IF q.bound /\ Valid(q)
             THEN /\ Step(r, "idle", "write")
                  /\ asked' = [asked EXCEPT ![r] = <<Built(q)>>]
                  /\ target' = [target EXCEPT ![r] = i]
             ELSE Step(r, "idle", "refused") /\ UNCHANGED <<asked, target>>
       \/ Step(r, "idle", "refused") /\ UNCHANGED <<asked, target>>
    /\ UNCHANGED <<bank, edited, taken>>

\* All columns are overwritten; no row is affected if it is gone by now.
UpdateWrite(r) ==
    /\ r \in Updates
    /\ LET i == target[r]
       IN  IF i \in Ids
           THEN /\ Step(r, "write", "done")
                /\ bank' = [bank EXCEPT ![i].question = asked[r][1]]
                /\ Edit(i)
           ELSE Step(r, "write", "refused") /\ UNCHANGED <<bank, edited>>
    /\ asked' = [asked EXCEPT ![r] = <<>>]
    /\ UNCHANGED <<target, taken>>

Delete(r) ==
    /\ \/ \E i \in Ids : /\ Step(r, "idle", "done")
                         /\ bank' = [bank EXCEPT ![i].gone = TRUE]
                         /\ Edit(i)
       \/ Step(r, "idle", "refused") /\ UNCHANGED <<bank, edited>>
    /\ UNCHANGED <<asked, target, taken>>

\* A workbook's first row is its header, and so may be the second.
Rows(f) == IF f.via = "xlsx" /\ f.entries # <<>> /\ Head(f.entries).is = "header"
           THEN Tail(f.entries) ELSE f.entries

\* A body is bound with its rules, a JSON file and a workbook are not; one
\* entry that cannot be read is the end of all.
Readable(f) == /\ f.via = "xlsx" => f.entries # <<>>
               /\ \A i \in DOMAIN Rows(f) :
                     /\ Rows(f)[i].is = "question"
                     /\ f.via = "body" => Rows(f)[i].question.bound

\* The entries that pass the validation, in their order; the others are reported
\* and left out.
Imported(f) ==
    LET valid == {i \in DOMAIN Rows(f) : Valid(Rows(f)[i].question)}
        InOrder(s) == \A i, j \in DOMAIN s : i < j => s[i] < s[j]
    IN  {[i \in DOMAIN s |-> Built(Rows(f)[s[i]].question)] :
            s \in {s \in [1..Cardinality(valid) -> valid] : InOrder(s)}}

\* Mutant of ImportCheck: a file is imported as it is.
ImportCheckNone(r) ==
    /\ \E f \in Files :
          IF Readable(f)
          THEN /\ Step(r, "idle", "write")
               /\ asked' = [asked EXCEPT ![r] =
                     [i \in DOMAIN Rows(f) |-> Built(Rows(f)[i].question)]]
          ELSE Step(r, "idle", "refused") /\ UNCHANGED asked
    /\ UNCHANGED <<bank, target, edited, taken>>

ImportCheck(r) ==
    /\ \E f \in Files :
          IF Readable(f)
          THEN /\ Step(r, "idle", "write")
               /\ \E new \in Imported(f) : asked' = [asked EXCEPT ![r] = new]
          ELSE Step(r, "idle", "refused") /\ UNCHANGED asked
    /\ UNCHANGED <<bank, target, edited, taken>>

\* CreateQuestion, or CreateQuestionsBatch: all in one transaction.
Insert(r) ==
    /\ r \in Creates \cup Imports
    /\ Step(r, "write", "done")
    /\ bank' = bank \o [i \in DOMAIN asked[r] |-> [question |-> asked[r][i], gone |-> FALSE]]
    /\ asked' = [asked EXCEPT ![r] = <<>>]
    /\ UNCHANGED <<target, edited, taken>>

Fail(r) == /\ Step(r, "write", "failed")
           /\ asked' = [asked EXCEPT ![r] = <<>>]
           /\ UNCHANGED <<bank, target, edited, taken>>

-----------------------------------------------------------------------------
(* The exam page and Submit.                                               *)

\* What the page can send for the options it shows: a key, or a list of keys
\* in the order they were ticked.
PageAnswers(q) ==
    IF q.type = "multiple"
    THEN {[kind |-> "list", items |-> s] :
             s \in {s \in UNION {[1..n -> Members(q.keys)] : n \in 0..Len(q.keys)} : Distinct(s)}}
    ELSE {[kind |-> "text", items |-> <<k>>] : k \in Members(q.keys)}

Serve(t) ==
    /\ Step(t, "idle", "grade")
    /\ \E i \in Ids :
          /\ bank[i].question.type \in Objective
          /\ target' = [target EXCEPT ![t] = i]
          /\ served' = [served EXCEPT ![t] = bank[i].question]
          /\ \E a \in PageAnswers(bank[i].question) : answer' = [answer EXCEPT ![t] = a]
    /\ edited' = [edited EXCEPT ![t] = {}]
    /\ UNCHANGED <<bank, asked, verdict>>

\* The question is read again; the type and the key are those it has by now.
\* An item whose question is gone, or turned subjective, is passed over, and so is
\* one whose look-up fails: findQuestion tells the two apart for nobody.
Grade(t) ==
    LET q == bank[target[t]].question
        found == IF target[t] \notin Ids \/ q.type \notin Objective THEN "none"
                 ELSE IF IsCorrect(q.type, q.answer, answer[t]) THEN "right" ELSE "wrong"
    IN  /\ Step(t, "grade", "done")
        /\ \E v \in {found, "unread"} : verdict' = [verdict EXCEPT ![t] = v]
        /\ UNCHANGED <<bank, asked, target, served, answer, edited>>

Next == \/ \E r \in Creates : CreateCheck(r)
        \/ \E r \in Updates : UpdateFind(r) \/ UpdateWrite(r)
        \/ \E r \in Deletes : Delete(r)
        \/ \E r \in Imports : ImportCheck(r)
        \/ \E r \in Writers : Insert(r) \/ Fail(r)
        \/ \E t \in Takers : Serve(t) \/ Grade(t)

Spec == Init /\ [][Next]_vars

-----------------------------------------------------------------------------
(* Safety.                                                                 *)

\* However it got there - created, imported or updated while others delete -
\* a question in the bank can be answered with what the page shows: an
\* objective one has two options at least, all different, and its key is among
\* them; a subjective one has a reference answer and no options.
WellFormed ==
    /\ TypeOK
    /\ \A i \in DOMAIN bank :
          LET q == bank[i].question
              key == Members(q.answer.items)
          IN  /\ key # {}
              /\ q.type \in Objective =>
                    Len(q.keys) >= 2 /\ Distinct(q.keys) /\ key \subseteq Members(q.keys)
              /\ q.type \notin Objective =>
                    q.keys = <<>> /\ Empty \notin Members(Trimmed(q.answer.items))

\* No two options differ in letter case only and the key repeats none.
Unambiguous(q) == /\ \A k, l \in Members(q.keys) : Fold[k] = Fold[l] => k = l
                  /\ Distinct(q.answer.items)

\* Unless its question was edited or deleted meanwhile, an answer is passed over
\* only because the look-up of the question failed; if it is graded, it is right
\* exactly if its options are those of the key the question had when it was served.
FairVerdict ==
    \A t \in Takers :
        (/\ pc[t] = "done" /\ verdict[t] # "unread"
         /\ target[t] \notin edited[t] /\ Unambiguous(served[t])) =>
            /\ verdict[t] # "none"
            /\ verdict[t] = "right" <=>
                  Members(answer[t].items) = Members(served[t].answer.items)

-----------------------------------------------------------------------------
(* What tests and declarations say and the code does not do.               *)

\* service_attempt_test.go:17 "multiple exact set": a multiple choice is right
\* exactly if the answer is the same set of options as the key (when it is graded).
MultipleExactSet ==
    \A t \in Takers :
        (/\ pc[t] = "done" /\ verdict[t] # "unread"
         /\ target[t] \notin edited[t] /\ served[t].type = "multiple") =>
            (verdict[t] = "right" <=>
                Members(answer[t].items) = Members(served[t].answer.items))

\* dto_question.go:13-20 `binding:"required,min=0.5"`, "oneof=easy medium
\* hard": the questions of the bank keep the rules declared for them.
BankKeepsRules == \A i \in DOMAIN bank : bank[i].question.bound
=============================================================================
