------------------------ MODULE QuestionBankProofs ------------------------
(***************************************************************************)
(* Theorems about QuestionBank.tla, for any texts, any questions and files *)
(* that are sent and any number of requests.                               *)
(***************************************************************************)
EXTENDS QuestionBank, FiniteSetTheorems, SequenceTheorems, TLAPS

-----------------------------------------------------------------------------
(* Texts and answers.                                                      *)

\* Trimming keeps the number of texts and trims each.
LEMMA TrimmedTexts ==
    ASSUME NEW s \in Seq(Texts)
    PROVE  /\ Trimmed(s) \in Seq(Texts)
           /\ Len(Trimmed(s)) = Len(s)
           /\ \A i \in 1..Len(s) : Trimmed(s)[i] = Trim[s[i]]
<1>1. Len(s) \in Nat /\ DOMAIN s = 1..Len(s) /\ \A i \in 1..Len(s) : s[i] \in Texts
  BY LenProperties, ElementOfSeq
<1>2. Trimmed(s) \in [1..Len(s) -> Texts]
  BY <1>1, TextAssumption DEF Trimmed
<1>3. Trimmed(s) \in Seq(Texts)
  BY <1>1, <1>2
<1>4. Len(Trimmed(s)) = Len(s)
  BY <1>1, <1>2, <1>3, LenProperties
<1> QED BY <1>1, <1>3, <1>4 DEF Trimmed

\* Every value a request carries is a list of texts; one that is a text is a
\* list of one.
LEMMA ValueItems ==
    ASSUME NEW v \in Values
    PROVE  /\ v.items \in Seq(Texts)
           /\ v.kind = "text" => v.items \in [1..1 -> Texts]
<1>1. ASSUME NEW s \in [1..1 -> Texts] PROVE s \in Seq(Texts)
  <2>1. 1 \in Nat /\ Seq(Texts) = UNION {[1..n -> Texts] : n \in Nat}
    BY SeqDef
  <2> QED BY <2>1, Zenon
<1>2. <<>> \in Seq(Texts)
  OBVIOUS
<1> QED BY <1>1, <1>2 DEF Values

\* What a stored question is like.
Answerable(q) ==
    LET key == Members(q.answer.items)
    IN  /\ q \in Question
        /\ key # {}
        /\ q.type \in Objective =>
              /\ Len(q.keys) >= 2 /\ Distinct(q.keys)
              /\ key \subseteq Members(q.keys)
              /\ \A k \in Members(q.keys) : Trim[k] = k
              /\ q.answer.kind = IF q.type = "multiple" THEN "list" ELSE "text"
        /\ q.type \notin Objective =>
              q.keys = <<>> /\ Empty \notin Members(Trimmed(q.answer.items))

\* Whatever passes the validation is built into such a question.
LEMMA BuiltAnswerable ==
    ASSUME NEW q \in Question, Valid(q)
    PROVE  Answerable(Built(q))
<1> DEFINE b == Built(q)
<1>1. /\ q.keys \in Seq(Texts) /\ q.answer \in Values /\ q.type \in Types
      /\ q.bound \in BOOLEAN
  BY DEF Question
<1>2. /\ b.type = q.type /\ b.answer = q.answer /\ b.bound = q.bound
      /\ b.keys = IF q.type \in {"single", "multiple"} THEN Trimmed(q.keys)
                  ELSE IF q.type = "true_false" THEN <<True, False>> ELSE <<>>
  BY DEF Built, Question
<1>3. b \in Question
  <2>1. Trimmed(q.keys) \in Seq(Texts)
    BY <1>1, TrimmedTexts
  <2>2. <<True, False>> \in Seq(Texts)
    BY TextAssumption
  <2>3. <<>> \in Seq(Texts)
    OBVIOUS
  <2> QED BY <1>1, <2>1, <2>2, <2>3 DEF Built, Question
<1>4. q.answer.items \in Seq(Texts) /\ (q.answer.kind = "text" => Members(q.answer.items) # {})
  <2>1. ASSUME q.answer.kind = "text" PROVE Members(q.answer.items) # {}
    <3>1. 1 \in DOMAIN q.answer.items
      BY <1>1, <2>1, ValueItems
    <3> QED BY <3>1 DEF Members
  <2> QED BY <1>1, <2>1, ValueItems
<1>5. CASE q.type \in {"single", "multiple"}
  <2>1. /\ OptionsValid(q)
        /\ Members(q.answer.items) \subseteq Members(Trimmed(q.keys))
        /\ Members(q.answer.items) # {}
        /\ q.answer.kind = IF q.type = "multiple" THEN "list" ELSE "text"
    BY <1>4, <1>5 DEF Valid
  <2>2. Len(b.keys) >= 2 /\ Distinct(b.keys)
    BY <1>1, <1>2, <1>5, <2>1, TrimmedTexts DEF OptionsValid
  <2>3. \A k \in Members(Trimmed(q.keys)) : Trim[k] = k
    <3>1. ASSUME NEW i \in DOMAIN Trimmed(q.keys)
          PROVE  Trim[Trimmed(q.keys)[i]] = Trimmed(q.keys)[i]
      <4>1. i \in 1..Len(q.keys) /\ q.keys[i] \in Texts
        BY <1>1, <3>1, TrimmedTexts, LenProperties, ElementOfSeq
      <4> QED BY <1>1, <4>1, TrimmedTexts, TextAssumption
    <3> QED BY <3>1 DEF Members
  <2> QED BY <1>2, <1>3, <1>5, <2>1, <2>2, <2>3 DEF Answerable, Objective
<1>6. CASE q.type = "true_false"
  <2>1. /\ Members(q.answer.items) \subseteq {True, False}
        /\ Members(q.answer.items) # {}
        /\ q.answer.kind = "text"
    BY <1>4, <1>6 DEF Valid
  <2>2. b.keys = <<True, False>>
    BY <1>2, <1>6
  <2>3. Members(b.keys) = {True, False} /\ Len(b.keys) = 2
    BY <2>2 DEF Members
  <2>4. Distinct(b.keys)
    BY <2>2, TextAssumption DEF Distinct
  <2>5. \A k \in Members(b.keys) : Trim[k] = k
    BY <2>3, TextAssumption
  <2> QED BY <1>2, <1>3, <1>6, <2>1, <2>3, <2>4, <2>5 DEF Answerable, Objective
<1>7. CASE q.type \in {"fill_blank", "short_answer"}
  <2>1. /\ Members(q.answer.items) # {}
        /\ Empty \notin Members(Trimmed(q.answer.items))
    BY <1>4, <1>7 DEF Valid
  <2> QED BY <1>2, <1>3, <1>7, <2>1 DEF Answerable, Objective
<1> QED BY <1>1, <1>5, <1>6, <1>7 DEF Types, Objective

\* An answer of the page is a value.
LEMMA PageAnswersType ==
    ASSUME NEW q \in Question, NEW a \in PageAnswers(q)
    PROVE  a \in Values
<1>0. q.keys \in Seq(Texts)
  BY DEF Question
<1>1. Members(q.keys) \subseteq Texts
  BY <1>0, LenProperties, ElementOfSeq DEF Members
<1>2. CASE q.type = "multiple"
  <2>1. PICK n \in 0..Len(q.keys) : \E s \in [1..n -> Members(q.keys)] :
           a = [kind |-> "list", items |-> s]
    BY <1>2 DEF PageAnswers
  <2>2. n \in Nat
    BY <1>0, LenProperties
  <2>3. \A s \in [1..n -> Members(q.keys)] : s \in Seq(Texts)
    BY <1>1, <2>2
  <2> QED BY <2>1, <2>3 DEF Values
<1>3. CASE q.type # "multiple"
  <2>1. PICK k \in Members(q.keys) : a = [kind |-> "text", items |-> <<k>>]
    BY <1>3 DEF PageAnswers
  <2>2. <<k>> \in [1..1 -> Texts]
    BY <1>1
  <2> QED BY <2>1, <2>2 DEF Values
<1> QED BY <1>2, <1>3

\* Of two lists without repetitions, as long as each other, the one within the
\* other is all of it.
LEMMA SameMembers ==
    ASSUME NEW S, NEW s \in Seq(S), NEW t \in Seq(S), Distinct(s), Distinct(t)
    PROVE  Members(s) = Members(t) <=>
              Len(s) = Len(t) /\ Members(s) \subseteq Members(t)
<1>1. ASSUME NEW u \in Seq(S), Distinct(u)
      PROVE  IsFiniteSet(Members(u)) /\ Cardinality(Members(u)) = Len(u)
  <2>1. Len(u) \in Nat /\ DOMAIN u = 1..Len(u) /\ u \in [1..Len(u) -> S]
    BY <1>1, LenProperties
  <2>2. u \in Bijection(1..Len(u), Members(u))
    <3>1. u \in [1..Len(u) -> Members(u)]
      BY <2>1 DEF Members
    <3>2. \A a, b \in 1..Len(u) : u[a] = u[b] => a = b
      BY <1>1, <2>1 DEF Distinct
    <3>3. \A m \in Members(u) : \E a \in 1..Len(u) : u[a] = m
      BY <2>1 DEF Members
    <3> QED BY <3>1, <3>2, <3>3 DEF Bijection, Injection, Surjection, IsInjective
  <2>3. IsFiniteSet(1..Len(u)) /\ Cardinality(1..Len(u)) = Len(u)
    <3>1. 1 \in Int /\ Len(u) \in Int
      BY <2>1
    <3>2. /\ IsFiniteSet(1..Len(u))
          /\ Cardinality(1..Len(u)) = IF 1 > Len(u) THEN 0 ELSE Len(u) - 1 + 1
      BY <3>1, FS_Interval
    <3> QED BY <2>1, <3>2
  <2> QED BY <2>2, <2>3, FS_Bijection DEF ExistsBijection
<1>2. Members(s) \in SUBSET Members(t) /\ Cardinality(Members(s)) = Cardinality(Members(t))
         => Members(s) = Members(t)
  BY <1>1, FS_Subset
<1> QED BY <1>1, <1>2

\* The mark of an answer of the page: right exactly if its options are the key.
LEMMA RightIsKey ==
    ASSUME NEW q, Answerable(q), q.type \in Objective, Unambiguous(q),
           NEW a \in PageAnswers(q)
    PROVE  IsCorrect(q.type, q.answer, a) <=>
              Members(a.items) = Members(q.answer.items)
<1>1. /\ q \in Question /\ q.keys \in Seq(Texts) /\ q.answer \in Values
      /\ Members(q.answer.items) \subseteq Members(q.keys)
      /\ \A k \in Members(q.keys) : Trim[k] = k
  BY DEF Answerable, Question
<1>2. q.answer.items \in Seq(Texts) /\ Distinct(q.answer.items)
  BY <1>1, ValueItems DEF Unambiguous
<1>3. Members(q.keys) \subseteq Texts
  BY <1>1, LenProperties, ElementOfSeq DEF Members
<1>4. ASSUME NEW s \in Seq(Texts), Members(s) \subseteq Members(q.keys)
      PROVE  Members(Trimmed(s)) = Members(s)
  <2>1. /\ DOMAIN Trimmed(s) = 1..Len(s) /\ DOMAIN s = 1..Len(s)
        /\ \A i \in 1..Len(s) : Trimmed(s)[i] = Trim[s[i]]
    BY TrimmedTexts, LenProperties
  <2>2. \A i \in 1..Len(s) : s[i] \in Members(q.keys)
    BY <1>4, <2>1 DEF Members
  <2>3. \A i \in 1..Len(s) : Trimmed(s)[i] = s[i]
    BY <1>1, <2>1, <2>2
  <2> QED BY <2>1, <2>3 DEF Members
<1>5. CASE q.type = "multiple"
  <2>1. PICK n \in 0..Len(q.keys) : \E s \in [1..n -> Members(q.keys)] :
           Distinct(s) /\ a = [kind |-> "list", items |-> s]
    BY <1>5 DEF PageAnswers
  <2>2. PICK s \in [1..n -> Members(q.keys)] :
           Distinct(s) /\ a = [kind |-> "list", items |-> s]
    BY <2>1
  <2>3. n \in Nat
    BY <1>1, LenProperties
  <2>4. s \in Seq(Texts) /\ Members(s) \subseteq Members(q.keys)
    <3>1. s \in [1..n -> Texts]
      BY <1>3
    <3>2. s \in Seq(Texts)
      BY <2>3, <3>1
    <3> QED BY <3>2 DEF Members
  <2>5. Members(s) = Members(q.answer.items) <=>
           /\ Len(s) = Len(q.answer.items)
           /\ Members(s) \subseteq Members(q.answer.items)
    BY <1>2, <2>2, <2>4, SameMembers
  <2>6. /\ Members(Trimmed(s)) = Members(s)
        /\ Members(Trimmed(q.answer.items)) = Members(q.answer.items)
    BY <1>1, <1>2, <1>4, <2>4
  <2>7. q.answer.kind = "list"
    BY <1>5 DEF Answerable
  <2> QED BY <1>5, <2>2, <2>5, <2>6, <2>7 DEF IsCorrect
<1>6. CASE q.type \in {"single", "true_false"}
  <2>1. PICK k \in Members(q.keys) : a = [kind |-> "text", items |-> <<k>>]
    BY <1>6 DEF PageAnswers
  <2>2. q.answer.kind = "text" /\ q.answer.items \in [1..1 -> Texts]
    BY <1>1, <1>6, ValueItems DEF Answerable
  <2> DEFINE c == q.answer.items[1]
  <2>3. Members(q.answer.items) = {c} /\ Members(a.items) = {k}
    BY <2>1, <2>2 DEF Members
  <2>4. c \in Members(q.keys)
    BY <1>1, <2>3
  <2>5. Trim[c] = c /\ Trim[k] = k
    BY <1>1, <2>1, <2>4
  <2>6. IsCorrect(q.type, q.answer, a) <=> Fold[c] = Fold[k]
    BY <1>6, <2>1, <2>2, <2>5 DEF IsCorrect
  <2>7. Fold[c] = Fold[k] <=> c = k
    BY <2>1, <2>4 DEF Unambiguous
  <2> QED BY <2>3, <2>6, <2>7
<1> QED BY <1>5, <1>6 DEF Objective

-----------------------------------------------------------------------------
(* What a file brings in.                                                  *)

\* The rows of a file that can be read are questions.
LEMMA ReadableRows ==
    ASSUME NEW f \in Files, Readable(f)
    PROVE  \E n \in Nat : /\ DOMAIN Rows(f) = 1..n
                          /\ \A i \in 1..n : Rows(f)[i].question \in Question
<1> DEFINE Entries == [is : {"header", "unreadable"}] \cup [is : {"question"}, question : Asked]
<1>1. f.entries \in Seq(Entries)
  BY InputAssumption
<1>2. Rows(f) \in Seq(Entries)
  <2>1. f.entries # <<>> => Tail(f.entries) \in Seq(Entries)
    BY <1>1, HeadTailProperties
  <2> QED BY <1>1, <2>1 DEF Rows
<1>3. Len(Rows(f)) \in Nat /\ DOMAIN Rows(f) = 1..Len(Rows(f))
  BY <1>2, LenProperties
<1>4. ASSUME NEW i \in 1..Len(Rows(f)) PROVE Rows(f)[i].question \in Question
  <2>1. Rows(f)[i] \in Entries
    BY <1>2, <1>4, ElementOfSeq
  <2>2. Rows(f)[i].is = "question"
    BY <1>3, <1>4 DEF Readable
  <2>3. Rows(f)[i].question \in Asked
    BY <2>1, <2>2
  <2> QED BY <2>3, InputAssumption
<1> QED BY <1>3, <1>4

\* An import inserts answerable questions only.
LEMMA ImportedAnswerable ==
    ASSUME NEW f \in Files, Readable(f), NEW new \in Imported(f)
    PROVE  /\ new \in Seq(Question)
           /\ \A i \in DOMAIN new : Answerable(new[i])
<1> DEFINE valid == {i \in DOMAIN Rows(f) : Valid(Rows(f)[i].question)}
           N == Cardinality(valid)
<1>1. PICK n \in Nat : /\ DOMAIN Rows(f) = 1..n
                       /\ \A i \in 1..n : Rows(f)[i].question \in Question
  BY ReadableRows
<1>2. N \in Nat
  <2>1. IsFiniteSet(1..n)
    BY <1>1, FS_Interval
  <2>2. valid \in SUBSET (1..n)
    BY <1>1
  <2> HIDE DEF valid
  <2>3. IsFiniteSet(valid)
    BY <2>1, <2>2, FS_Subset
  <2> QED BY <2>3, FS_CardinalityType
<1>3. PICK s \in [1..N -> valid] :
         new = [i \in DOMAIN s |-> Built(Rows(f)[s[i]].question)]
  BY DEF Imported
<1>4. ASSUME NEW i \in 1..N
      PROVE  new[i] \in Question /\ Answerable(new[i])
  <2>1. s[i] \in valid
    BY <1>3, <1>4
  <2>2. Rows(f)[s[i]].question \in Question /\ Valid(Rows(f)[s[i]].question)
    BY <1>1, <2>1
  <2>3. new[i] = Built(Rows(f)[s[i]].question)
    BY <1>3, <1>4
  <2>4. Answerable(new[i])
    BY <2>2, <2>3, BuiltAnswerable
  <2> QED BY <2>4 DEF Answerable
<1>5. DOMAIN new = 1..N /\ new \in [1..N -> Question]
  <2> HIDE DEF N, valid
  <2>1. new = [i \in 1..N |-> Built(Rows(f)[s[i]].question)]
    BY <1>3
  <2> QED BY <1>4, <2>1
<1> QED BY <1>2, <1>4, <1>5

-----------------------------------------------------------------------------
(* The bank.                                                               *)

BankRow == [question : Question, gone : BOOLEAN]

\* Every question stored, and every one about to be stored, can be answered.
AllAnswerable ==
    /\ \A i \in DOMAIN bank : Answerable(bank[i].question)
    /\ \A r \in Writers : \A i \in DOMAIN asked[r] : Answerable(asked[r][i])

\* An update that found its row has one question to write.
UpdatesReady ==
    \A r \in Updates : target[r] # 0 =>
        pc[r] # "idle" /\ (pc[r] = "write" => 1 \in DOMAIN asked[r])

BankInv == TypeOK /\ AllAnswerable /\ UpdatesReady

\* Every step moves one request on, to one of its points.
LEMMA StepType ==
    ASSUME TypeOK, NEW r \in Requests, NEW from,
           NEW to \in {"idle", "write", "grade", "done", "refused", "failed"}, Step(r, from, to)
    PROVE  pc' \in [Requests -> {"idle", "write", "grade", "done", "refused", "failed"}]
  BY DEF TypeOK, Step

\* A stored row is a row.
LEMMA BankRows ==
    ASSUME TypeOK
    PROVE  /\ Len(bank) \in Nat /\ DOMAIN bank = 1..Len(bank)
           /\ \A i \in DOMAIN bank : bank[i] \in BankRow
  BY LenProperties, ElementOfSeq DEF TypeOK, BankRow

\* A request with one valid question is about to write it.
LEMMA AskOne ==
    ASSUME TypeOK, AllAnswerable, NEW r \in Writers, NEW q \in Asked, Valid(q),
           asked' = [asked EXCEPT ![r] = <<Built(q)>>]
    PROVE  /\ asked' \in [Writers -> Seq(Question)]
           /\ \A w \in Writers : \A i \in DOMAIN asked'[w] : Answerable(asked'[w][i])
           /\ 1 \in DOMAIN asked'[r]
<1>1. q \in Question
  BY InputAssumption
<1>2. Answerable(Built(q)) /\ Built(q) \in Question
  BY <1>1, BuiltAnswerable DEF Answerable
<1>3. <<Built(q)>> \in Seq(Question) /\ DOMAIN <<Built(q)>> = {1}
  BY <1>2
<1> QED BY <1>2, <1>3 DEF TypeOK, AllAnswerable

\* Nothing is left to write of a request that has ended.
LEMMA AskNone ==
    ASSUME TypeOK, AllAnswerable, NEW r \in Writers, asked' = [asked EXCEPT ![r] = <<>>]
    PROVE  /\ asked' \in [Writers -> Seq(Question)]
           /\ \A w \in Writers : \A i \in DOMAIN asked'[w] : Answerable(asked'[w][i])
           /\ \A w \in Writers \ {r} : asked'[w] = asked[w]
<1>1. <<>> \in Seq(Question) /\ DOMAIN <<>> = {}
  OBVIOUS
<1> QED BY <1>1 DEF TypeOK, AllAnswerable

\* The bank holds answerable questions, whoever writes to it.
LEMMA BankStep == BankInv /\ [Next]_vars => BankInv'
<1> SUFFICES ASSUME BankInv, [Next]_vars PROVE BankInv'
  OBVIOUS
<1> USE DEF BankInv
<1> USE DEF Requests, Writers
<1>1. ASSUME NEW r \in Creates, CreateCheck(r) PROVE BankInv'
  <2>1. PICK q \in Asked :
          IF q.bound /\ Valid(q)
          THEN Step(r, "idle", "write") /\ asked' = [asked EXCEPT ![r] = <<Built(q)>>]
          ELSE Step(r, "idle", "refused") /\ UNCHANGED asked
    BY <1>1 DEF CreateCheck
  <2>2. UNCHANGED <<bank, target, edited, taken>>
    BY <1>1 DEF CreateCheck
  <2>3. pc' \in [Requests -> {"idle", "write", "grade", "done", "refused", "failed"}]
    BY <2>1, StepType
  <2>4. CASE asked' = [asked EXCEPT ![r] = <<Built(q)>>] /\ Valid(q)
    BY <2>1, <2>2, <2>3, <2>4, AskOne DEF TypeOK, AllAnswerable, UpdatesReady, Step, taken
  <2>5. CASE UNCHANGED asked /\ Step(r, "idle", "refused")
    BY <2>2, <2>3, <2>5 DEF TypeOK, AllAnswerable, UpdatesReady, Step, taken
  <2> QED BY <2>1, <2>4, <2>5
<1>2. ASSUME NEW r \in Updates, UpdateFind(r) PROVE BankInv'
  <2>1. UNCHANGED <<bank, edited, taken>>
    BY <1>2 DEF UpdateFind
  <2>2. ASSUME NEW q \in Asked, NEW i \in Ids, Valid(q), Step(r, "idle", "write"),
               asked' = [asked EXCEPT ![r] = <<Built(q)>>],
               target' = [target EXCEPT ![r] = i]
        PROVE  BankInv'
    <3>1. pc' \in [Requests -> {"idle", "write", "grade", "done", "refused", "failed"}]
      BY <2>2, StepType
    <3>2. target' \in [Requests -> Nat]
      BY <2>2, BankRows DEF TypeOK, Ids
    <3> QED BY <2>1, <2>2, <3>1, <3>2, AskOne
            DEF TypeOK, AllAnswerable, UpdatesReady, Step, taken
  <2>3. CASE Step(r, "idle", "refused") /\ UNCHANGED <<asked, target>>
    <3>1. pc' \in [Requests -> {"idle", "write", "grade", "done", "refused", "failed"}]
      BY <2>3, StepType
    <3> QED BY <2>1, <2>3, <3>1 DEF TypeOK, AllAnswerable, UpdatesReady, Step, taken
  <2> QED BY <1>2, <2>2, <2>3 DEF UpdateFind
<1>3. ASSUME NEW r \in Updates, UpdateWrite(r) PROVE BankInv'
  <2>1. asked' = [asked EXCEPT ![r] = <<>>] /\ UNCHANGED <<target, taken>>
    BY <1>3 DEF UpdateWrite
  <2>2. CASE target[r] \in Ids
    <3> DEFINE i == target[r]
               q == asked[r][1]
    <3>1. /\ Step(r, "write", "done") /\ Edit(i)
          /\ bank' = [bank EXCEPT ![i].question = q]
      BY <1>3, <2>2 DEF UpdateWrite
    <3>2. i \in DOMAIN bank /\ i # 0
      BY <2>2, BankRows DEF Ids
    <3>3. Answerable(q)
      BY <3>1, <3>2 DEF UpdatesReady, AllAnswerable, Step
    <3> HIDE DEF q
    <3>4. /\ bank' \in Seq(BankRow) /\ DOMAIN bank' = DOMAIN bank
          /\ \A j \in DOMAIN bank : bank'[j].question = IF j = i THEN q ELSE bank[j].question
      <4>1. [bank[i] EXCEPT !.question = q] \in BankRow
        BY <3>2, <3>3, BankRows DEF BankRow, Answerable
      <4>2. bank' = [bank EXCEPT ![i] = [bank[i] EXCEPT !.question = q]]
        BY <3>1
      <4> QED BY <3>2, <4>1, <4>2, BankRows DEF TypeOK, BankRow
    <3>5. edited' \in [Takers -> SUBSET Nat]
      BY <3>1, <3>2, BankRows DEF TypeOK, Edit
    <3>6. pc' \in [Requests -> {"idle", "write", "grade", "done", "refused", "failed"}]
      BY <3>1, StepType
    <3>7. TypeOK'
      BY <2>1, <3>4, <3>5, <3>6, AskNone DEF TypeOK, taken, BankRow
    <3>8. AllAnswerable'
      BY <2>1, <3>3, <3>4, AskNone DEF AllAnswerable
    <3>9. UpdatesReady'
      BY <2>1, <3>1, AskNone DEF UpdatesReady, Step, TypeOK
    <3> QED BY <3>7, <3>8, <3>9
  <2>3. CASE target[r] \notin Ids
    <3>1. Step(r, "write", "refused") /\ UNCHANGED <<bank, edited>>
      BY <1>3, <2>3 DEF UpdateWrite
    <3>2. pc' \in [Requests -> {"idle", "write", "grade", "done", "refused", "failed"}]
      BY <3>1, StepType
    <3> QED BY <2>1, <3>1, <3>2, AskNone
            DEF TypeOK, AllAnswerable, UpdatesReady, Step, taken
  <2> QED BY <2>2, <2>3
<1>4. ASSUME NEW r \in Deletes, Delete(r) PROVE BankInv'
  <2>1. UNCHANGED <<asked, target, taken>>
    BY <1>4 DEF Delete
  <2>2. ASSUME NEW i \in Ids, Step(r, "idle", "done"), Edit(i),
               bank' = [bank EXCEPT ![i].gone = TRUE]
        PROVE  BankInv'
    <3>1. i \in DOMAIN bank
      BY DEF Ids
    <3>2. /\ bank' \in Seq(BankRow) /\ DOMAIN bank' = DOMAIN bank
          /\ \A j \in DOMAIN bank : bank'[j].question = bank[j].question
      <4>1. [bank[i] EXCEPT !.gone = TRUE] \in BankRow
        BY <3>1, BankRows DEF BankRow
      <4>2. bank' = [bank EXCEPT ![i] = [bank[i] EXCEPT !.gone = TRUE]]
        BY <2>2
      <4> QED BY <3>1, <4>1, <4>2, BankRows DEF TypeOK, BankRow
    <3>3. edited' \in [Takers -> SUBSET Nat]
      BY <2>2, <3>1, BankRows DEF TypeOK, Edit
    <3>4. pc' \in [Requests -> {"idle", "write", "grade", "done", "refused", "failed"}]
      BY <2>2, StepType
    <3>5. TypeOK'
      BY <2>1, <3>2, <3>3, <3>4 DEF TypeOK, taken, BankRow
    <3>6. AllAnswerable'
      BY <2>1, <3>2 DEF AllAnswerable
    <3>7. UpdatesReady'
      BY <2>1, <2>2 DEF UpdatesReady, Step, TypeOK
    <3> QED BY <3>5, <3>6, <3>7
  <2>3. CASE Step(r, "idle", "refused") /\ UNCHANGED <<bank, edited>>
    <3>1. pc' \in [Requests -> {"idle", "write", "grade", "done", "refused", "failed"}]
      BY <2>3, StepType
    <3> QED BY <2>1, <2>3, <3>1 DEF TypeOK, AllAnswerable, UpdatesReady, Step, taken
  <2> QED BY <1>4, <2>2, <2>3 DEF Delete
<1>5. ASSUME NEW r \in Imports, ImportCheck(r) PROVE BankInv'
  <2>1. UNCHANGED <<bank, target, edited, taken>>
    BY <1>5 DEF ImportCheck
  <2>2. ASSUME NEW f \in Files, Readable(f), NEW new \in Imported(f),
               Step(r, "idle", "write"), asked' = [asked EXCEPT ![r] = new]
        PROVE  BankInv'
    <3>1. new \in Seq(Question) /\ \A i \in DOMAIN new : Answerable(new[i])
      BY <2>2, ImportedAnswerable
    <3>2. pc' \in [Requests -> {"idle", "write", "grade", "done", "refused", "failed"}]
      BY <2>2, StepType
    <3>3. TypeOK'
      BY <2>1, <2>2, <3>1, <3>2 DEF TypeOK, taken
    <3>4. AllAnswerable'
      BY <2>1, <2>2, <3>1 DEF TypeOK, AllAnswerable
    <3>5. UpdatesReady'
      BY <2>1, <2>2 DEF UpdatesReady, Step, TypeOK
    <3> QED BY <3>3, <3>4, <3>5
  <2>3. CASE Step(r, "idle", "refused") /\ UNCHANGED asked
    <3>1. pc' \in [Requests -> {"idle", "write", "grade", "done", "refused", "failed"}]
      BY <2>3, StepType
    <3> QED BY <2>1, <2>3, <3>1 DEF TypeOK, AllAnswerable, UpdatesReady, Step, taken
  <2> QED BY <1>5, <2>2, <2>3 DEF ImportCheck
<1>6. ASSUME NEW r \in Writers, Insert(r) PROVE BankInv'
  <2>1. /\ Step(r, "write", "done")
        /\ asked' = [asked EXCEPT ![r] = <<>>]
        /\ UNCHANGED <<target, edited, taken>>
    BY <1>6 DEF Insert
  <2> DEFINE new == [i \in DOMAIN asked[r] |-> [question |-> asked[r][i], gone |-> FALSE]]
  <2>2. /\ new \in Seq(BankRow) /\ Len(new) = Len(asked[r])
        /\ \A i \in 1..Len(asked[r]) : new[i].question = asked[r][i]
    <3>1. asked[r] \in Seq(Question)
      BY DEF TypeOK
    <3>2. /\ Len(asked[r]) \in Nat /\ DOMAIN asked[r] = 1..Len(asked[r])
          /\ \A i \in 1..Len(asked[r]) : asked[r][i] \in Question
      BY <3>1, LenProperties, ElementOfSeq
    <3>3. new \in [1..Len(asked[r]) -> BankRow]
      BY <3>2 DEF BankRow
    <3>4. new \in Seq(BankRow)
      BY <3>2, <3>3
    <3> QED BY <3>2, <3>3, <3>4, LenProperties
  <2>3. bank' = bank \o new
    BY <1>6 DEF Insert
  <2> HIDE DEF new
  <2>4. bank \in Seq(BankRow)
    BY DEF TypeOK, BankRow
  <2>5. /\ bank' \in Seq(BankRow)
        /\ Len(bank') = Len(bank) + Len(new)
        /\ \A i \in 1..(Len(bank) + Len(new)) :
              bank'[i] = IF i <= Len(bank) THEN bank[i] ELSE new[i - Len(bank)]
    <3>1. /\ bank \o new \in Seq(BankRow)
          /\ Len(bank \o new) = Len(bank) + Len(new)
          /\ \A i \in 1..(Len(bank) + Len(new)) :
                (bank \o new)[i] = IF i <= Len(bank) THEN bank[i] ELSE new[i - Len(bank)]
      BY <2>2, <2>4, ConcatProperties
    <3> QED BY <2>3, <3>1
  <2>6. \A i \in DOMAIN bank' : Answerable(bank'[i].question)
    <3>1. \A i \in 1..Len(new) : Answerable(new[i].question)
      BY <2>2, LenProperties DEF AllAnswerable, TypeOK
    <3>2. /\ Len(bank) \in Nat /\ Len(new) \in Nat
          /\ DOMAIN bank = 1..Len(bank) /\ DOMAIN bank' = 1..(Len(bank) + Len(new))
      BY <2>2, <2>4, <2>5, LenProperties
    <3>3. ASSUME NEW i \in 1..(Len(bank) + Len(new)) PROVE Answerable(bank'[i].question)
      <4>1. CASE i <= Len(bank)
        BY <2>5, <3>2, <4>1 DEF AllAnswerable
      <4>2. CASE ~(i <= Len(bank))
        <5>1. i - Len(bank) \in 1..Len(new)
          BY <3>2, <4>2
        <5>2. bank'[i] = new[i - Len(bank)]
          BY <2>5, <4>2
        <5> QED BY <3>1, <5>1, <5>2
      <4> QED BY <4>1, <4>2
    <3> QED BY <3>2, <3>3
  <2>7. pc' \in [Requests -> {"idle", "write", "grade", "done", "refused", "failed"}]
    BY <2>1, StepType
  <2>8. TypeOK'
    BY <2>1, <2>5, <2>7, AskNone DEF TypeOK, taken, BankRow
  <2>9. AllAnswerable'
    BY <2>1, <2>6, AskNone DEF AllAnswerable
  <2>10. UpdatesReady'
    BY <2>1, AskNone DEF UpdatesReady, Step, TypeOK
  <2> QED BY <2>8, <2>9, <2>10
<1>7. ASSUME NEW r \in Writers, Fail(r) PROVE BankInv'
  <2>1. /\ Step(r, "write", "failed") /\ asked' = [asked EXCEPT ![r] = <<>>]
        /\ UNCHANGED <<bank, target, edited, taken>>
    BY <1>7 DEF Fail
  <2>2. pc' \in [Requests -> {"idle", "write", "grade", "done", "refused", "failed"}]
    BY <2>1, StepType
  <2> QED BY <2>1, <2>2, AskNone DEF TypeOK, AllAnswerable, UpdatesReady, Step, taken
<1>8. ASSUME NEW t \in Takers, Serve(t) PROVE BankInv'
  <2>1. PICK i \in Ids :
          /\ target' = [target EXCEPT ![t] = i]
          /\ served' = [served EXCEPT ![t] = bank[i].question]
          /\ \E a \in PageAnswers(bank[i].question) : answer' = [answer EXCEPT ![t] = a]
    BY <1>8 DEF Serve
  <2>2. PICK a \in PageAnswers(bank[i].question) : answer' = [answer EXCEPT ![t] = a]
    BY <2>1
  <2>3. i \in Nat /\ bank[i].question \in Question
    BY BankRows DEF Ids, BankRow
  <2>4. a \in Values
    BY <2>2, <2>3, PageAnswersType
  <2>5. /\ Step(t, "idle", "grade") /\ edited' = [edited EXCEPT ![t] = {}]
        /\ UNCHANGED <<bank, asked, verdict>>
    BY <1>8 DEF Serve
  <2>6. pc' \in [Requests -> {"idle", "write", "grade", "done", "refused", "failed"}]
    BY <2>5, StepType
  <2>7. TypeOK'
    BY <2>1, <2>2, <2>3, <2>4, <2>5, <2>6 DEF TypeOK
  <2>8. AllAnswerable'
    BY <2>5 DEF AllAnswerable
  <2>9. UpdatesReady'
    BY <2>1, <2>5, RequestAssumption DEF UpdatesReady, Step, TypeOK
  <2> QED BY <2>7, <2>8, <2>9
<1>9. ASSUME NEW t \in Takers, Grade(t) PROVE BankInv'
  <2>1. PICK v \in {"none", "right", "wrong", "unread"} : verdict' = [verdict EXCEPT ![t] = v]
    BY <1>9 DEF Grade
  <2>2. Step(t, "grade", "done") /\ UNCHANGED <<bank, asked, target, served, answer, edited>>
    BY <1>9 DEF Grade
  <2>3. pc' \in [Requests -> {"idle", "write", "grade", "done", "refused", "failed"}]
    BY <2>2, StepType
  <2>4. TypeOK'
    BY <2>1, <2>2, <2>3 DEF TypeOK
  <2>5. AllAnswerable' /\ UpdatesReady'
    BY <2>2 DEF AllAnswerable, UpdatesReady, Step, TypeOK
  <2> QED BY <2>4, <2>5
<1>10. CASE UNCHANGED vars
  BY <1>10 DEF vars, TypeOK, AllAnswerable, UpdatesReady
<1> QED BY <1>1, <1>2, <1>3, <1>4, <1>5, <1>6, <1>7, <1>8, <1>9, <1>10 DEF Next

\* At the start the bank is empty.
LEMMA BankInit == Init => BankInv
<1> SUFFICES ASSUME Init PROVE BankInv
  OBVIOUS
<1>1. /\ <<>> \in Seq(BankRow) /\ <<>> \in Seq(Question) /\ <<>> \in Seq(Texts)
      /\ DOMAIN <<>> = {}
  OBVIOUS
<1>2. NoValue \in Values
  BY DEF NoValue, Values
<1>3. TypeOK
  BY <1>1, <1>2 DEF Init, TypeOK, BankRow
<1>4. AllAnswerable /\ UpdatesReady
  BY <1>1 DEF Init, AllAnswerable, UpdatesReady, Requests, Writers
<1> QED BY <1>3, <1>4 DEF BankInv

\* The variables of QuestionBank always have their types.
THEOREM TypeCorrect == Spec => []TypeOK
<1>1. BankInv => TypeOK
  BY DEF BankInv
<1> QED BY <1>1, BankInit, BankStep, PTL DEF Spec

\* However requests are interleaved and whatever files bring in, a stored
\* question can be answered with what the page shows (validateQuestion).
THEOREM BankWellFormed == Spec => []WellFormed
<1>1. BankInv => WellFormed
  BY Zenon DEF BankInv, AllAnswerable, Answerable, WellFormed
<1> QED BY <1>1, BankInit, BankStep, PTL DEF Spec

-----------------------------------------------------------------------------
(* The marks of the students.                                              *)

\* What a student answers is what he was served, and it is still stored unless
\* it was edited; his mark, if the question was read, is that of IsCorrect.
TakerInv(t) ==
    /\ pc[t] \in {"idle", "grade", "done"}
    /\ pc[t] \in {"grade", "done"} =>
          /\ target[t] \in DOMAIN bank
          /\ Answerable(served[t]) /\ served[t].type \in Objective
          /\ answer[t] \in PageAnswers(served[t])
          /\ target[t] \notin edited[t] =>
                ~bank[target[t]].gone /\ bank[target[t]].question = served[t]
    /\ (pc[t] = "done" /\ verdict[t] # "unread" /\ target[t] \notin edited[t]) =>
          verdict[t] = IF IsCorrect(served[t].type, served[t].answer, answer[t])
                       THEN "right" ELSE "wrong"

MarkInv == \A t \in Takers : TakerInv(t)

\* A step of a teacher's request changes a stored row only where it is noted as
\* edited, and nothing of a student's.
LEMMA WriterFrame ==
    ASSUME BankInv, NEW r \in Writers,
           \/ CreateCheck(r) \/ UpdateFind(r) \/ ImportCheck(r) \/ Fail(r)
           \/ UpdateWrite(r) \/ Delete(r) \/ Insert(r),
           NEW t \in Takers
    PROVE  /\ pc'[t] = pc[t] /\ target'[t] = target[t]
           /\ UNCHANGED taken
           /\ edited[t] \subseteq edited'[t]
           /\ \A i \in DOMAIN bank :
                 i \in DOMAIN bank' /\ (i \notin edited'[t] => bank'[i] = bank[i])
<1>1. t # r /\ t \in Requests /\ r \in Requests
  BY RequestAssumption DEF Requests, Writers
<1>2. TypeOK
  BY DEF BankInv
<1>3. CASE CreateCheck(r) \/ UpdateFind(r) \/ ImportCheck(r) \/ Fail(r)
  <2>1. UNCHANGED <<bank, edited, taken>>
    BY <1>3 DEF CreateCheck, UpdateFind, ImportCheck, Fail
  <2>2. pc'[t] = pc[t] /\ target'[t] = target[t]
    BY <1>1, <1>2, <1>3 DEF CreateCheck, UpdateFind, ImportCheck, Fail, Step, TypeOK
  <2> QED BY <2>1, <2>2 DEF taken
<1>4. CASE UpdateWrite(r) \/ Delete(r)
  <2>1. /\ pc'[t] = pc[t] /\ target'[t] = target[t] /\ UNCHANGED taken
    BY <1>1, <1>2, <1>4 DEF UpdateWrite, Delete, Step, TypeOK
  <2>2. CASE UNCHANGED <<bank, edited>>
    BY <2>1, <2>2
  <2>3. ASSUME NEW i \in Ids, Edit(i), NEW row, bank' = [bank EXCEPT ![i] = row]
        PROVE  /\ edited[t] \subseteq edited'[t]
               /\ \A j \in DOMAIN bank :
                     j \in DOMAIN bank' /\ (j \notin edited'[t] => bank'[j] = bank[j])
    <3>1. edited'[t] = edited[t] \cup {i}
      BY <2>3 DEF Edit
    <3> QED BY <2>3, <3>1
  <2>4. \/ UNCHANGED <<bank, edited>>
        \/ \E i \in Ids : Edit(i) /\ \E row : bank' = [bank EXCEPT ![i] = row]
    BY <1>4, Zenon DEF UpdateWrite, Delete
  <2> QED BY <2>1, <2>2, <2>3, <2>4
<1>5. CASE Insert(r)
  <2>1. /\ pc'[t] = pc[t] /\ target'[t] = target[t] /\ UNCHANGED <<taken, edited>>
    BY <1>1, <1>2, <1>5 DEF Insert, Step, TypeOK
  <2> DEFINE new == [i \in DOMAIN asked[r] |-> [question |-> asked[r][i], gone |-> FALSE]]
  <2>2. bank \in Seq(BankRow) /\ bank' = bank \o new
    BY <1>2, <1>5 DEF Insert, TypeOK, BankRow
  <2>3. new \in Seq(BankRow)
    <3>1. asked[r] \in Seq(Question)
      BY <1>2 DEF TypeOK
    <3>2. /\ Len(asked[r]) \in Nat /\ DOMAIN asked[r] = 1..Len(asked[r])
          /\ \A i \in 1..Len(asked[r]) : asked[r][i] \in Question
      BY <3>1, LenProperties, ElementOfSeq
    <3>3. new \in [1..Len(asked[r]) -> BankRow]
      BY <3>2 DEF BankRow
    <3> QED BY <3>2, <3>3
  <2> HIDE DEF new
  <2>4. \A i \in DOMAIN bank : i \in DOMAIN bank' /\ bank'[i] = bank[i]
    <3>1. /\ bank \o new \in Seq(BankRow)
          /\ Len(bank \o new) = Len(bank) + Len(new)
          /\ \A i \in 1..(Len(bank) + Len(new)) :
                (bank \o new)[i] = IF i <= Len(bank) THEN bank[i] ELSE new[i - Len(bank)]
      BY <2>2, <2>3, ConcatProperties
    <3>2. /\ Len(bank) \in Nat /\ Len(new) \in Nat /\ DOMAIN bank = 1..Len(bank)
          /\ DOMAIN (bank \o new) = 1..(Len(bank) + Len(new))
      BY <2>2, <2>3, <3>1, LenProperties
    <3> QED BY <2>2, <3>1, <3>2
  <2> QED BY <2>1, <2>4
<1> QED BY <1>3, <1>4, <1>5

\* Every step keeps what is known of each student.
LEMMA MarkStep == BankInv /\ MarkInv /\ [Next]_vars => MarkInv'
<1> SUFFICES ASSUME BankInv, MarkInv, [Next]_vars, NEW t \in Takers PROVE TakerInv(t)'
  BY DEF MarkInv
<1>1. TakerInv(t) /\ TypeOK
  BY DEF MarkInv, BankInv
<1>2. ASSUME pc'[t] = pc[t], target'[t] = target[t], served'[t] = served[t],
             answer'[t] = answer[t], verdict'[t] = verdict[t],
             edited[t] \subseteq edited'[t],
             \A i \in DOMAIN bank :
                i \in DOMAIN bank' /\ (i \notin edited'[t] => bank'[i] = bank[i])
      PROVE  TakerInv(t)'
  <2>1. pc[t] \in {"grade", "done"} => target[t] \in DOMAIN bank
    BY <1>1 DEF TakerInv
  <2>2. pc[t] \in {"grade", "done"} /\ target[t] \notin edited'[t] =>
           bank'[target[t]] = bank[target[t]] /\ target[t] \notin edited[t]
    BY <1>2, <2>1
  <2> QED BY <1>1, <1>2, <2>1, <2>2 DEF TakerInv
<1>3. ASSUME NEW r \in Writers,
             \/ CreateCheck(r) \/ UpdateFind(r) \/ ImportCheck(r) \/ Fail(r)
             \/ UpdateWrite(r) \/ Delete(r) \/ Insert(r)
      PROVE  TakerInv(t)'
  BY <1>2, <1>3, WriterFrame DEF taken
<1>4. ASSUME NEW u \in Takers, Serve(u) \/ Grade(u), u # t PROVE TakerInv(t)'
  <2>1. /\ pc'[t] = pc[t] /\ target'[t] = target[t] /\ served'[t] = served[t]
        /\ answer'[t] = answer[t] /\ verdict'[t] = verdict[t] /\ edited'[t] = edited[t]
    BY <1>1, <1>4 DEF Serve, Grade, Step, TypeOK, Requests
  <2>2. bank' = bank
    BY <1>4 DEF Serve, Grade
  <2> QED BY <1>2, <2>1, <2>2
<1>5. CASE Serve(t)
  <2>1. PICK i \in Ids :
          /\ bank[i].question.type \in Objective
          /\ target' = [target EXCEPT ![t] = i]
          /\ served' = [served EXCEPT ![t] = bank[i].question]
          /\ \E a \in PageAnswers(bank[i].question) : answer' = [answer EXCEPT ![t] = a]
    BY <1>5 DEF Serve
  <2>2. i \in DOMAIN bank /\ ~bank[i].gone /\ Answerable(bank[i].question)
    BY DEF Ids, BankInv, AllAnswerable
  <2>3. /\ target'[t] = i /\ served'[t] = bank[i].question
        /\ answer'[t] \in PageAnswers(bank[i].question) /\ pc'[t] = "grade"
    BY <1>1, <1>5, <2>1 DEF Serve, Step, TypeOK, Requests
  <2>4. bank' = bank
    BY <1>5 DEF Serve
  <2> QED BY <2>1, <2>2, <2>3, <2>4 DEF TakerInv
<1>6. CASE Grade(t)
  <2>1. /\ pc[t] = "grade" /\ pc'[t] = "done"
        /\ UNCHANGED <<bank, asked, target, served, answer, edited>>
    BY <1>1, <1>6 DEF Grade, Step, TypeOK, Requests
  <2>2. target[t] \notin edited[t] =>
           /\ target[t] \in Ids
           /\ bank[target[t]].question = served[t] /\ served[t].type \in Objective
    BY <1>1, <2>1 DEF TakerInv, Ids
  <2>3. (verdict'[t] # "unread" /\ target[t] \notin edited[t]) =>
           verdict'[t] = IF IsCorrect(served[t].type, served[t].answer, answer[t])
                         THEN "right" ELSE "wrong"
    BY <1>1, <1>6, <2>2 DEF Grade, TypeOK
  <2> QED BY <1>1, <2>1, <2>3 DEF TakerInv
<1>7. CASE UNCHANGED vars
  BY <1>2, <1>7 DEF vars
<1> QED
  <2>1. \/ \E r \in Writers :
              \/ CreateCheck(r) \/ UpdateFind(r) \/ ImportCheck(r) \/ Fail(r)
              \/ UpdateWrite(r) \/ Delete(r) \/ Insert(r)
        \/ \E u \in Takers : Serve(u) \/ Grade(u)
        \/ UNCHANGED vars
    BY DEF Next, Writers
  <2> QED BY <1>3, <1>4, <1>5, <1>6, <1>7, <2>1

\* Unless its question was edited or deleted meanwhile or could not be read, an
\* answer is marked, and marked right exactly if it is the key its question had
\* when it was served (Submit's look-up and isCorrectObjective).
THEOREM VerdictsFair == Spec => []FairVerdict
<1>1. Init => MarkInv
  BY DEF Init, MarkInv, TakerInv, Requests
<1>2. MarkInv => FairVerdict
  <2> SUFFICES ASSUME MarkInv, NEW t \in Takers, pc[t] = "done",
                      verdict[t] # "unread",
                      target[t] \notin edited[t], Unambiguous(served[t])
               PROVE  /\ verdict[t] # "none"
                      /\ verdict[t] = "right" <=>
                            Members(answer[t].items) = Members(served[t].answer.items)
    BY DEF FairVerdict
  <2>1. /\ Answerable(served[t]) /\ served[t].type \in Objective
        /\ answer[t] \in PageAnswers(served[t])
        /\ verdict[t] = IF IsCorrect(served[t].type, served[t].answer, answer[t])
                        THEN "right" ELSE "wrong"
    BY DEF MarkInv, TakerInv
  <2>2. IsCorrect(served[t].type, served[t].answer, answer[t]) <=>
           Members(answer[t].items) = Members(served[t].answer.items)
    BY <2>1, RightIsKey
  <2> QED BY <2>1, <2>2
<1> QED BY <1>1, <1>2, BankInit, BankStep, MarkStep, PTL DEF Spec
=============================================================================
