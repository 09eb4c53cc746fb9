---------------------------- MODULE ExamsProofs ----------------------------
(***************************************************************************)
(* Theorems about Exams.tla, for any question bank and configuration and   *)
(* any number of students and requests.                                    *)
(***************************************************************************)
EXTENDS Exams, FiniteSetTheorems, SequenceTheorems, TLAPS

USE ExamAssumption

Managers == Publishes \cup Closes \cup Deletes
Points == {"idle"} \cup Running \cup Ended

\* A request is of one kind.
LEMMA Kinds ==
    /\ \A q \in Managers \cup Visits \cup {Creator} : q \in Requests
    /\ \A q \in Managers : q # Creator /\ q \notin Visits
    /\ \A q \in Visits : q # Creator /\ q \in Starts \cup Currents
    /\ \A q \in Starts : q \notin Currents
    /\ \A q \in Publishes : q \notin Closes \cup Deletes
    /\ \A q \in Closes : q \notin Deletes
  BY DEF Managers, Requests, Visits

-----------------------------------------------------------------------------
(* Who writes what.                                                        *)

\* The attempts are numbered rows of their type.
LEMMA AttemptRows ==
    ASSUME TypeOK
    PROVE  /\ Len(attempts) \in Nat
           /\ DOMAIN attempts = 1..Len(attempts)
           /\ \A i \in DOMAIN attempts : attempts[i] \in Attempt
  BY LenProperties, ElementOfSeq DEF TypeOK

\* What a start creates.
NewAttempt(s) == [student |-> visit[s].student, status |-> "in_progress",
                  items |-> visit[s].todo, by |-> s]

\* A new attempt is the last one, the others stay.
LEMMA Created ==
    ASSUME TypeOK, NEW s \in Starts, attempts' = Append(attempts, NewAttempt(s))
    PROVE  /\ attempts' \in Seq(Attempt)
           /\ Len(attempts') = Len(attempts) + 1
           /\ DOMAIN attempts' = 1..Len(attempts')
           /\ attempts'[Len(attempts')] = NewAttempt(s)
           /\ \A i \in DOMAIN attempts : attempts'[i] = attempts[i]
<1>1. visit[s] \in Visit
  BY DEF TypeOK, Visits
<1>2. NewAttempt(s) \in Attempt
  BY <1>1 DEF NewAttempt, Attempt, Visit
<1>3. attempts \in Seq(Attempt)
  BY DEF TypeOK
<1>4. /\ attempts' \in Seq(Attempt)
      /\ Len(attempts') = Len(attempts) + 1
      /\ attempts'[Len(attempts) + 1] = NewAttempt(s)
      /\ \A i \in 1..Len(attempts) : attempts'[i] = attempts[i]
  BY <1>2, <1>3, AppendProperties
<1> QED BY <1>4, AttemptRows, LenProperties

\* A submission changes the status of one attempt.
LEMMA Submitted ==
    ASSUME TypeOK, NEW i \in DOMAIN attempts, SubmitAttempt(i)
    PROVE  /\ attempts' \in Seq(Attempt)
           /\ Len(attempts') = Len(attempts)
           /\ DOMAIN attempts' = DOMAIN attempts
           /\ \A j \in DOMAIN attempts :
                 attempts'[j] = IF j = i THEN [attempts[i] EXCEPT !.status = "submitted"]
                                ELSE attempts[j]
<1>1. [attempts[i] EXCEPT !.status = "submitted"] \in Attempt
  BY AttemptRows DEF Attempt
<1>2. /\ attempts \in Seq(Attempt)
      /\ attempts' = [attempts EXCEPT ![i] = [attempts[i] EXCEPT !.status = "submitted"]]
  BY DEF TypeOK, SubmitAttempt
<1>3. i \in 1..Len(attempts)
  BY AttemptRows
<1> QED BY <1>1, <1>2, <1>3, ExceptSeq, AttemptRows, LenProperties

\* An action of request q itself.
OwnAction(q) ==
    \/ q = Creator /\ (CreateBegin \/ CreateInsert \/ CreateStore
                       \/ \E k \in Configs : CreateDraw(k))
    \/ q \in Managers /\ ManageLoad(q)
    \/ q \in Publishes /\ PublishCount(q)
    \/ q \in Publishes \cup Closes /\ StatusUpdate(q)
    \/ q \in Deletes /\ DeleteExam(q)
    \/ q \in Starts /\ (StartLoad(q) \/ StartPaper(q) \/ StartCreate(q))
    \/ q \in Currents /\ (CurrentBegin(q) \/ CurrentExam(q))
    \/ q \in Visits /\ (VisitFind(q) \/ VisitItems(q) \/ VisitRead(q))
    \/ Fail(q)

\* What is another request's business stays.
Untouched(q) == /\ pc'[q] = pc[q] /\ before'[q] = before[q]
                /\ q \in Visits => visit'[q] = visit[q]

\* What the requests do not share is written by their own actions.
LEMMA OwnStep ==
    ASSUME TypeOK, [Next]_vars, NEW q \in Requests
    PROVE  OwnAction(q) \/ Untouched(q)
<1> USE DEF TypeOK, Untouched, OwnAction
<1> DEFINE Moves(p) == \E to : Goto(p, to) /\ (UNCHANGED before \/ Begin(p, to))
<1>1. ASSUME NEW p \in Requests, p # q, Moves(p)
      PROVE  pc'[q] = pc[q] /\ before'[q] = before[q]
  BY <1>1 DEF Goto, Begin
<1>2. ASSUME CreateBegin \/ CreateInsert \/ CreateStore \/ \E k \in Configs : CreateDraw(k)
      PROVE  OwnAction(q) \/ Untouched(q)
  <2>1. Moves(Creator) /\ UNCHANGED visit
    BY <1>2 DEF CreateBegin, CreateInsert, CreateStore, CreateDraw, Begin, Step, locals
  <2> QED BY <1>1, <1>2, <2>1, Kinds
<1>3. ASSUME NEW p \in Managers, ManageLoad(p) PROVE OwnAction(q) \/ Untouched(q)
  <2>1. Moves(p) /\ UNCHANGED visit
    BY <1>3 DEF ManageLoad, Begin, Step, locals
  <2> QED BY <1>1, <1>3, <2>1, Kinds
<1>4. ASSUME NEW p \in Publishes, PublishCount(p) PROVE OwnAction(q) \/ Untouched(q)
  <2>1. Moves(p) /\ UNCHANGED visit
    BY <1>4 DEF PublishCount, Step, locals
  <2> QED BY <1>1, <1>4, <2>1, Kinds DEF Managers
<1>5. ASSUME NEW p \in Publishes \cup Closes, StatusUpdate(p) PROVE OwnAction(q) \/ Untouched(q)
  <2>1. Moves(p) /\ UNCHANGED visit
    BY <1>5 DEF StatusUpdate, Step, locals
  <2> QED BY <1>1, <1>5, <2>1, Kinds DEF Managers
<1>6. ASSUME NEW p \in Deletes, DeleteExam(p) PROVE OwnAction(q) \/ Untouched(q)
  <2>1. Moves(p) /\ UNCHANGED visit
    BY <1>6 DEF DeleteExam, Step, locals
  <2> QED BY <1>1, <1>6, <2>1, Kinds DEF Managers
<1>7. ASSUME NEW p \in Starts, StartLoad(p) \/ StartPaper(p) \/ StartCreate(p)
      PROVE  OwnAction(q) \/ Untouched(q)
  <2>1. Moves(p) /\ \E w : visit' = [visit EXCEPT ![p] = w]
    BY <1>7 DEF StartLoad, VisitBegin, StartPaper, StartCreate, Begin, Step
  <2> QED BY <1>1, <1>7, <2>1, Kinds DEF Visits
<1>8. ASSUME NEW p \in Currents, CurrentBegin(p) \/ CurrentExam(p)
      PROVE  OwnAction(q) \/ Untouched(q)
  <2>1. Moves(p) /\ (UNCHANGED visit \/ \E w : visit' = [visit EXCEPT ![p] = w])
    BY <1>8 DEF CurrentBegin, VisitBegin, CurrentExam, Begin, Step, locals
  <2> QED BY <1>1, <1>8, <2>1, Kinds DEF Visits
<1>9. ASSUME NEW p \in Visits, VisitFind(p) \/ VisitItems(p) \/ VisitRead(p)
      PROVE  OwnAction(q) \/ Untouched(q)
  <2>1. Moves(p) /\ (UNCHANGED visit \/ \E w : visit' = [visit EXCEPT ![p] = w])
    BY <1>9 DEF VisitFind, VisitItems, VisitRead, Step
  <2> QED BY <1>1, <1>9, <2>1, Kinds
<1>10. ASSUME NEW p \in Requests, Fail(p) PROVE OwnAction(q) \/ Untouched(q)
  <2>1. Moves(p) /\ UNCHANGED visit
    BY <1>10 DEF Fail, locals
  <2> QED BY <1>1, <1>10, <2>1
<1>11. ASSUME \/ \E i \in DOMAIN attempts : SubmitAttempt(i)
              \/ \E r \in Questions : DeleteQuestion(r)
              \/ Tick \/ UNCHANGED vars
       PROVE  Untouched(q)
  BY <1>11 DEF SubmitAttempt, DeleteQuestion, Tick, others, vars, locals
<1> QED BY <1>2, <1>3, <1>4, <1>5, <1>6, <1>7, <1>8, <1>9, <1>10, <1>11
        DEF Next, Managers

\* Each table is written by few actions.
LEMMA TableWriters ==
    ASSUME [Next]_vars
    PROVE  /\ \/ exam' = exam
              \/ CreateInsert /\ paper' = paper
              \/ \E q \in Publishes \cup Closes : StatusUpdate(q) /\ paper' = paper
              \/ \E d \in Deletes : DeleteExam(d)
           /\ \/ paper' = paper
              \/ CreateStore /\ exam' = exam
              \/ \E d \in Deletes : DeleteExam(d)
           /\ \/ attempts' = attempts
              \/ \E s \in Starts : StartCreate(s) /\ exam' = exam /\ paper' = paper
              \/ /\ exam' = exam /\ paper' = paper
                 /\ \E i \in DOMAIN attempts : SubmitAttempt(i)
  BY DEF Next, vars, tables, locals, others, CreateBegin, CreateInsert, CreateStore,
         CreateDraw, ManageLoad, PublishCount, StatusUpdate, DeleteExam, StartLoad,
         StartPaper, StartCreate, CurrentBegin, CurrentExam, VisitBegin, VisitFind,
         VisitItems, VisitRead, Fail, SubmitAttempt, DeleteQuestion, Tick

\* The rest is written by the creation, by reads and by the clock.
LEMMA OtherWriters ==
    ASSUME [Next]_vars
    PROVE  /\ \/ drawn' = drawn /\ left' = left
              \/ \E k \in Configs : CreateDraw(k)
           /\ bank' = bank \/ \E q \in Questions : DeleteQuestion(q)
           /\ glitches' = glitches \/ \E v \in Visits : VisitRead(v)
           /\ clock' = clock \/ Tick
  BY DEF Next, vars, tables, locals, others, CreateBegin, CreateInsert, CreateStore,
         CreateDraw, ManageLoad, PublishCount, StatusUpdate, DeleteExam, StartLoad,
         StartPaper, StartCreate, CurrentBegin, CurrentExam, VisitBegin, VisitFind,
         VisitItems, VisitRead, Fail, SubmitAttempt, DeleteQuestion, Tick

\* The functions kept for each request stay functions.
LEMMA Domains ==
    ASSUME TypeOK, [Next]_vars
    PROVE  /\ DOMAIN pc' = Requests /\ pc' = [q \in Requests |-> pc'[q]]
           /\ DOMAIN before' = Requests /\ before' = [q \in Requests |-> before'[q]]
           /\ DOMAIN visit' = Visits /\ visit' = [v \in Visits |-> visit'[v]]
<1> USE DEF TypeOK
<1>1. ASSUME NEW p, NEW to, Goto(p, to)
      PROVE  DOMAIN pc' = Requests /\ pc' = [q \in Requests |-> pc'[q]]
  BY <1>1 DEF Goto
<1>2. ASSUME NEW p, NEW to, Begin(p, to)
      PROVE  DOMAIN before' = Requests /\ before' = [q \in Requests |-> before'[q]]
  BY <1>2 DEF Begin
<1>3. ASSUME UNCHANGED before
      PROVE  DOMAIN before' = Requests /\ before' = [q \in Requests |-> before'[q]]
  BY <1>3
<1>4. ASSUME UNCHANGED visit
      PROVE  DOMAIN visit' = Visits /\ visit' = [v \in Visits |-> visit'[v]]
  BY <1>4
<1>5. ASSUME NEW p, NEW w, visit' = [visit EXCEPT ![p] = w]
      PROVE  DOMAIN visit' = Visits /\ visit' = [v \in Visits |-> visit'[v]]
  BY <1>5
<1>6. DOMAIN pc' = Requests /\ pc' = [q \in Requests |-> pc'[q]]
  <2>1. UNCHANGED pc \/ \E p, to : Goto(p, to)
    BY DEF Next, vars, others, CreateBegin, CreateInsert, CreateStore,
           CreateDraw, ManageLoad, PublishCount, StatusUpdate, DeleteExam, StartLoad,
           StartPaper, StartCreate, CurrentBegin, CurrentExam, VisitBegin, VisitFind,
           VisitItems, VisitRead, Fail, SubmitAttempt, DeleteQuestion, Tick, Step, Begin
  <2> QED BY <1>1, <2>1
<1>7. DOMAIN before' = Requests /\ before' = [q \in Requests |-> before'[q]]
  <2>1. UNCHANGED before \/ \E p, to : Begin(p, to)
    BY DEF Next, vars, others, CreateBegin, CreateInsert, CreateStore,
           CreateDraw, ManageLoad, PublishCount, StatusUpdate, DeleteExam, StartLoad,
           StartPaper, StartCreate, CurrentBegin, CurrentExam, VisitBegin, VisitFind,
           VisitItems, VisitRead, Fail, SubmitAttempt, DeleteQuestion, Tick, Step
  <2> QED BY <1>2, <1>3, <2>1
<1>8. ASSUME NEW v \in Visits, VisitRead(v)
      PROVE  DOMAIN visit' = Visits /\ visit' = [w \in Visits |-> visit'[w]]
  BY <1>8 DEF VisitRead
<1>9. DOMAIN visit' = Visits /\ visit' = [v \in Visits |-> visit'[v]]
  <2>1. \/ UNCHANGED visit \/ \E p, w : visit' = [visit EXCEPT ![p] = w]
        \/ \E v \in Visits : VisitRead(v)
    BY DEF Next, vars, others, locals, CreateBegin, CreateInsert, CreateStore,
           CreateDraw, ManageLoad, PublishCount, StatusUpdate, DeleteExam, StartLoad,
           StartPaper, StartCreate, CurrentBegin, CurrentExam, VisitBegin, VisitFind,
           VisitItems, Fail, SubmitAttempt, DeleteQuestion, Tick
  <2> QED BY <1>4, <1>5, <1>8, <2>1
<1> QED BY <1>6, <1>7, <1>9

\* A request's own action moves it on; the requests answered are noted at its
\* first, and not changed later.
LEMMA OwnMove ==
    ASSUME TypeOK, NEW q \in Requests, OwnAction(q)
    PROVE  /\ pc[q] \in {"idle"} \cup Running
           /\ pc'[q] \in Points \ {"idle"}
           /\ \/ pc[q] # "idle" /\ before'[q] = before[q]
              \/ pc[q] = "idle" /\ before'[q] = {p \in Requests : pc[p] = "done"}
<1> USE DEF Points, Running, Ended, Step, Begin, Goto, TypeOK
<1> DEFINE Conclusion == /\ pc[q] \in {"idle"} \cup Running
                         /\ pc'[q] \in Points \ {"idle"}
                         /\ \/ pc[q] # "idle" /\ before'[q] = before[q]
                            \/ /\ pc[q] = "idle"
                               /\ before'[q] = {p \in Requests : pc[p] = "done"}
<1>1. CASE q = Creator /\ (CreateBegin \/ CreateInsert \/ CreateStore)
  BY <1>1 DEF CreateBegin, CreateInsert, CreateStore
<1>2. ASSUME q = Creator, NEW k \in Configs, CreateDraw(k) PROVE Conclusion
  BY <1>2 DEF CreateDraw
<1>3. CASE ManageLoad(q)
  BY <1>3 DEF ManageLoad
<1>4. CASE PublishCount(q) \/ DeleteExam(q)
  BY <1>4 DEF PublishCount, DeleteExam
<1>5. CASE StatusUpdate(q)
  BY <1>5 DEF StatusUpdate
<1>6. CASE StartLoad(q) \/ CurrentBegin(q)
  BY <1>6 DEF StartLoad, CurrentBegin, VisitBegin
<1>7. CASE StartPaper(q) \/ StartCreate(q) \/ CurrentExam(q)
  BY <1>7 DEF StartPaper, StartCreate, CurrentExam
<1>8. CASE VisitFind(q)
  BY <1>8 DEF VisitFind
<1>9. CASE VisitItems(q) \/ VisitRead(q)
  BY <1>9 DEF VisitItems, VisitRead
<1>10. CASE Fail(q)
  BY <1>10 DEF Fail
<1> HIDE DEF Conclusion
<1>11. Conclusion
  BY <1>1, <1>2, <1>3, <1>4, <1>5, <1>6, <1>7, <1>8, <1>9, <1>10 DEF OwnAction, Conclusion
<1> QED BY <1>11 DEF Conclusion

\* Requests that were answered stay answered, those that began stay begun, with
\* what was noted when they began.
Progress ==
    \A q \in Requests :
        /\ pc[q] = "done" => pc'[q] = "done"
        /\ pc[q] # "idle" => pc'[q] # "idle" /\ before'[q] = before[q]
        /\ \/ before'[q] = before[q]
           \/ pc[q] = "idle" /\ before'[q] = {p \in Requests : pc[p] = "done"}

\* Every step respects them.
LEMMA StepProgress == ASSUME TypeOK, [Next]_vars PROVE Progress
  BY OwnStep, OwnMove DEF Progress, Untouched, Running

\* A visit that serves its questions is done, adds one to the response, or
\* leaves one out.
LEMMA ReadCases ==
    ASSUME NEW v \in Visits, VisitRead(v)
    PROVE  \/ /\ visit[v].todo = {} /\ Goto(v, "done")
              /\ visit' = visit /\ glitches' = glitches
           \/ /\ Goto(v, "read") /\ glitches' = glitches
              /\ \E r \in visit[v].todo :
                    visit' = [visit EXCEPT ![v].todo = @ \ {r},
                                           ![v].views = @ \cup {r}]
           \/ /\ Goto(v, "read")
              /\ \E r \in visit[v].todo :
                    /\ visit' = [visit EXCEPT ![v].todo = @ \ {r}]
                    /\ \/ r[2] \in bank /\ glitches < MaxGlitches
                          /\ glitches' = glitches + 1
                       \/ r[2] \notin bank /\ glitches' = glitches
  BY DEF VisitRead, Step

\* A visit keeps its student, and what was submitted when it began.
LEMMA VisitMove ==
    ASSUME TypeOK, NEW v \in Visits, OwnAction(v)
    PROVE  /\ visit'[v] \in Visit
           /\ visit'[v].student = visit[v].student
           /\ pc[v] # "idle" => visit'[v].past = visit[v].past
<1> DEFINE Conclusion == /\ visit'[v] \in Visit
                         /\ visit'[v].student = visit[v].student
                         /\ pc[v] # "idle" => visit'[v].past = visit[v].past
<1> v \in Requests /\ v # Creator /\ v \notin Managers
  BY Kinds
<1>0. visit[v] \in Visit
  BY DEF TypeOK
<1> USE DEF TypeOK, Visit
<1>1. CASE VisitFind(v)
  <2>1. DOMAIN attempts \subseteq Nat
    BY AttemptRows
  <2>2. visit' = visit \/ \E i \in Nat : visit' = [visit EXCEPT ![v].attempt = i]
    BY <1>1, <2>1 DEF VisitFind, Unfinished
  <2>3. ASSUME NEW i \in Nat, visit' = [visit EXCEPT ![v].attempt = i] PROVE Conclusion
    BY <1>0, <2>3
  <2> QED BY <1>0, <2>2, <2>3
<1>2. CASE StartLoad(v) \/ CurrentBegin(v)
  <2>1. DOMAIN attempts \subseteq Nat
    BY AttemptRows
  <2>2. /\ pc[v] = "idle"
        /\ \E S \in SUBSET Nat : visit' = [visit EXCEPT ![v].past = S]
    BY <1>2, <2>1 DEF StartLoad, CurrentBegin, VisitBegin, Begin
  <2>3. ASSUME NEW S \in SUBSET Nat, pc[v] = "idle", visit' = [visit EXCEPT ![v].past = S]
        PROVE  Conclusion
    BY <1>0, <2>3
  <2> QED BY <2>2, <2>3
<1>3. CASE StartPaper(v)
  BY <1>0, <1>3 DEF StartPaper
<1>4. CASE v \in Starts /\ StartCreate(v)
  <2>1. Len(attempts') \in Nat
    BY <1>4, Created, AttemptRows DEF StartCreate, NewAttempt
  <2> QED BY <1>0, <1>4, <2>1 DEF StartCreate
<1>5. CASE CurrentExam(v) \/ Fail(v)
  BY <1>0, <1>5 DEF CurrentExam, Fail, locals
<1>6. CASE VisitItems(v)
  BY <1>0, <1>6 DEF VisitItems
<1>7. CASE VisitRead(v)
  <2>1. CASE visit' = visit
    BY <1>0, <2>1
  <2>2. ASSUME NEW r \in visit[v].todo,
               visit' = [visit EXCEPT ![v].todo = @ \ {r}, ![v].views = @ \cup {r}]
        PROVE  Conclusion
    <3>1. visit'[v] = [visit[v] EXCEPT !.todo = @ \ {r}, !.views = @ \cup {r}]
      BY <2>2
    <3>2. /\ visit[v].todo \ {r} \in SUBSET Rows
          /\ visit[v].views \cup {r} \in SUBSET Rows
      BY <1>0, <2>2
    <3>3. visit'[v] \in Visit
      BY <1>0, <3>1, <3>2
    <3>4. visit'[v].student = visit[v].student /\ visit'[v].past = visit[v].past
      BY <1>0, <3>1
    <3> QED BY <3>3, <3>4
  <2>3. ASSUME NEW r \in visit[v].todo, visit' = [visit EXCEPT ![v].todo = @ \ {r}]
        PROVE  Conclusion
    <3>1. visit'[v] = [visit[v] EXCEPT !.todo = @ \ {r}]
      BY <2>3
    <3> QED BY <1>0, <3>1
  <2> QED BY <1>7, <2>1, <2>2, <2>3, ReadCases
<1> QED BY <1>1, <1>2, <1>3, <1>4, <1>5, <1>6, <1>7 DEF OwnAction, Managers

-----------------------------------------------------------------------------
(* Types.                                                                  *)

\* Every step keeps the types.
LEMMA TypeStep == ASSUME TypeOK, [Next]_vars PROVE TypeOK'
<1>1. exam' \in {"none", "draft", "published", "closed"}
  BY TableWriters DEF TypeOK, CreateInsert, StatusUpdate, DeleteExam
<1>2. paper' \subseteq Rows
  BY TableWriters DEF TypeOK, CreateStore, DeleteExam
<1>3. bank' \subseteq Questions /\ clock' \in {"early", "open", "over"}
  BY OtherWriters DEF TypeOK, DeleteQuestion, Tick
<1>4. attempts' \in Seq(Attempt)
  BY TableWriters, Created, Submitted DEF TypeOK, StartCreate, NewAttempt
<1>5. pc' \in [Requests -> {"idle"} \cup Running \cup Ended]
  BY Domains, OwnStep, OwnMove DEF TypeOK, Untouched, Points
<1>6. drawn' \subseteq Rows /\ left' \subseteq Configs
  <2>1. ASSUME NEW k \in Configs, CreateDraw(k)
        PROVE  drawn' \subseteq Rows /\ left' \subseteq Configs
    BY <2>1 DEF CreateDraw, TypeOK, Rows
  <2> QED BY <2>1, OtherWriters DEF TypeOK
<1>7. visit' \in [Visits -> Visit]
  <2>1. \A v \in Visits : visit'[v] \in Visit
    BY OwnStep, VisitMove, Kinds DEF TypeOK, Untouched
  <2> QED BY <2>1, Domains
<1>8. before' \in [Requests -> SUBSET Requests]
  <2>1. \A q \in Requests : before'[q] \in SUBSET Requests
    BY StepProgress DEF Progress, TypeOK
  <2> QED BY <2>1, Domains
<1>9. glitches' \in 0..MaxGlitches
  BY OtherWriters, ReadCases DEF TypeOK
<1> QED BY <1>1, <1>2, <1>3, <1>4, <1>5, <1>6, <1>7, <1>8, <1>9 DEF TypeOK

\* The types hold at the start.
LEMMA TypeInit == Init => TypeOK
<1> SUFFICES ASSUME Init PROVE TypeOK
  OBVIOUS
<1>1. visit \in [Visits -> Visit]
  BY DEF Init, Visit
<1>2. attempts \in Seq(Attempt)
  BY EmptySeq DEF Init
<1>3. pc \in [Requests -> {"idle"} \cup Running \cup Ended]
  BY DEF Init, Requests, Ended
<1> QED BY <1>1, <1>2, <1>3 DEF Init, TypeOK

\* The variables of Exams always have their types.
THEOREM TypeCorrect == Spec => []TypeOK
<1>1. TypeOK /\ [Next]_vars => TypeOK'
  BY TypeStep
<1> QED BY <1>1, TypeInit, PTL DEF Spec

-----------------------------------------------------------------------------
(* How requests get from one point to the next.                            *)

\* The creation.
LEMMA CreatorMove ==
    ASSUME TypeOK, [Next]_vars
    PROVE  \/ pc'[Creator] = pc[Creator] /\ drawn' = drawn /\ left' = left
           \/ pc[Creator] = "idle" /\ pc'[Creator] = "draw" /\ drawn' = drawn /\ left' = left
           \/ /\ pc[Creator] = "draw" /\ pc'[Creator] \in {"draw", "insert", "refused"}
              /\ \E k \in Configs : CreateDraw(k)
           \/ /\ pc[Creator] = "insert" /\ pc'[Creator] = "store" /\ CreateInsert
              /\ exam' = "draft" /\ drawn' = drawn /\ left' = left
           \/ pc[Creator] = "store" /\ pc'[Creator] \in {"done", "failed"} /\ CreateStore
           \/ pc'[Creator] \in {"refused", "failed"}
<1> Creator \in Requests /\ Creator \notin Managers /\ Creator \notin Visits
  BY Kinds
<1> USE DEF TypeOK, Goto, Step, Begin, locals
<1>1. CASE Untouched(Creator)
  <2>1. ASSUME NEW k \in Configs, CreateDraw(k)
        PROVE  pc[Creator] = "draw" /\ pc'[Creator] \in {"draw", "insert", "refused"}
    BY <2>1 DEF CreateDraw
  <2> QED BY <1>1, <2>1, OtherWriters DEF Untouched
<1>2. CASE CreateBegin \/ CreateInsert \/ CreateStore
  BY <1>2 DEF CreateBegin, CreateInsert, CreateStore
<1>3. ASSUME NEW k \in Configs, CreateDraw(k)
      PROVE  pc[Creator] = "draw" /\ pc'[Creator] \in {"draw", "insert", "refused"}
  BY <1>3 DEF CreateDraw
<1>4. CASE Fail(Creator)
  BY <1>4 DEF Fail
<1> QED BY <1>1, <1>2, <1>3, <1>4, OwnStep DEF OwnAction, Managers, Visits

\* Publications, closes and deletions.
LEMMA ManagerMove ==
    ASSUME TypeOK, [Next]_vars, NEW q \in Managers
    PROVE  \/ pc'[q] = pc[q]
           \/ pc'[q] \in {"refused", "failed"}
           \/ /\ pc[q] = "idle" /\ exam # "none"
              /\ \/ q \in Publishes /\ pc'[q] = "count"
                 \/ q \in Closes /\ pc'[q] = "update"
                 \/ q \in Deletes /\ pc'[q] = "delete"
           \/ /\ q \in Publishes /\ pc[q] = "count" /\ pc'[q] = "update"
              /\ paper # {} /\ exam' = exam /\ paper' = paper
           \/ /\ q \in Publishes \cup Closes /\ pc[q] = "update" /\ pc'[q] = "done"
              /\ exam # "none" /\ paper' = paper /\ attempts' = attempts
              /\ exam' = IF q \in Publishes THEN "published" ELSE "closed"
           \/ /\ q \in Deletes /\ pc[q] = "delete" /\ pc'[q] = "done"
              /\ exam' = "none" /\ paper' = {}
<1> q \in Requests /\ q # Creator /\ q \notin Visits
  BY Kinds
<1> USE DEF TypeOK, Goto, Step, Begin, locals, tables
<1>1. CASE Untouched(q)
  BY <1>1 DEF Untouched
<1>2. CASE ManageLoad(q)
  <2>1. pc[q] = "idle"
    BY <1>2 DEF ManageLoad
  <2>2. pc'[q] = IF ~Found(q) THEN "refused"
                 ELSE IF q \in Publishes THEN "count"
                 ELSE IF q \in Closes THEN "update" ELSE "delete"
    BY <1>2 DEF ManageLoad
  <2>3. q \in Publishes \/ q \in Closes \/ q \in Deletes
    BY DEF Managers
  <2> QED BY <2>1, <2>2, <2>3 DEF Found
<1>3. CASE q \in Publishes /\ PublishCount(q)
  BY <1>3 DEF PublishCount
<1>4. CASE q \in Publishes \cup Closes /\ StatusUpdate(q)
  BY <1>4 DEF StatusUpdate
<1>5. CASE q \in Deletes /\ DeleteExam(q)
  BY <1>5 DEF DeleteExam
<1>6. CASE Fail(q)
  BY <1>6 DEF Fail
<1> QED BY <1>1, <1>2, <1>3, <1>4, <1>5, <1>6, OwnStep DEF OwnAction, Visits

\* The first steps of starts.
LEMMA StartMove ==
    ASSUME TypeOK, [Next]_vars, NEW s \in Starts
    PROVE  \/ pc'[s] = pc[s]
           \/ pc[s] = "idle" /\ pc'[s] = "refused"
           \/ pc[s] = "idle" /\ exam = "published" /\ UNCHANGED tables /\ StartLoad(s)
           \/ pc[s] \in Running
<1> s \in Requests /\ s # Creator /\ s \notin Managers /\ s \notin Currents
  BY Kinds DEF Visits
<1> USE DEF TypeOK, Goto, Step, Begin
<1>1. CASE Untouched(s)
  BY <1>1 DEF Untouched
<1>2. CASE StartLoad(s)
  BY <1>2 DEF StartLoad, VisitBegin
<1>3. CASE StartPaper(s) \/ StartCreate(s) \/ VisitFind(s) \/ VisitItems(s) \/ VisitRead(s)
  BY <1>3 DEF StartPaper, StartCreate, VisitFind, VisitItems, VisitRead, Running
<1>4. CASE Fail(s)
  BY <1>4 DEF Fail
<1> QED BY <1>1, <1>2, <1>3, <1>4, OwnStep DEF OwnAction, Managers

-----------------------------------------------------------------------------
(* The paper.                                                              *)

\* The questions drawn for an entry so far.
DrawnFor(k) == {q \in Questions : <<k, q>> \in drawn}

DrawnRight ==
    /\ pc[Creator] = "idle" => drawn = {} /\ left = Configs
    /\ pc[Creator] \in {"draw", "insert", "store"} =>
          \A k \in Configs :
             IF k \in left THEN DrawnFor(k) = {}
             ELSE DrawnFor(k) \subseteq Pool[k] /\ Cardinality(DrawnFor(k)) = Count[k]
    /\ pc[Creator] \in {"insert", "store"} => left = {}

\* A complete paper has a question.
LEMMA CompleteNotEmpty ==
    ASSUME NEW S, Complete(S)
    PROVE  S # {}
<1> SUFFICES ASSUME S = {} PROVE FALSE
  OBVIOUS
<1>1. PICK k \in Configs : TRUE
  OBVIOUS
<1>2. {q \in Questions : <<k, q>> \in S} = {}
  OBVIOUS
<1>3. Cardinality({q \in Questions : <<k, q>> \in S}) = Count[k]
  BY DEF Complete
<1>4. Cardinality({}) = Count[k] /\ Count[k] # 0
  BY <1>2, <1>3
<1> QED BY <1>4, FS_EmptySet

\* What is stored was drawn as the configuration asks for it.
LEMMA DrawnStep ==
    ASSUME TypeOK, DrawnRight, [Next]_vars
    PROVE  DrawnRight'
<1> USE DEF DrawnRight
<1>1. ASSUME NEW k \in Configs, CreateDraw(k) PROVE DrawnRight'
  <2>1. pc[Creator] = "draw" /\ k \in left /\ Creator \in Requests
    BY <1>1, Kinds DEF CreateDraw, Step
  <2>2. CASE pc'[Creator] = "refused"
    BY <2>2
  <2>3. ASSUME NEW S \in SUBSET (Pool[k] \cap bank), Cardinality(S) = Count[k],
               drawn' = drawn \cup ({k} \X S), left' = left \ {k},
               pc'[Creator] = IF left = {k} THEN "insert" ELSE "draw"
        PROVE  DrawnRight'
    <3>1. DrawnFor(k)' = S
      <4>1. DrawnFor(k) = {}
        BY <2>1
      <4>2. S \subseteq Questions
        BY DEF TypeOK
      <4> QED BY <2>3, <4>1, <4>2 DEF DrawnFor
    <3>2. \A j \in Configs \ {k} : DrawnFor(j)' = DrawnFor(j)
      BY <2>3 DEF DrawnFor
    <3>3. \A j \in Configs : IF j \in left' THEN DrawnFor(j)' = {}
                              ELSE /\ DrawnFor(j)' \subseteq Pool[j]
                                   /\ Cardinality(DrawnFor(j)') = Count[j]
      <4>1. ASSUME NEW j \in Configs, j # k
            PROVE  IF j \in left' THEN DrawnFor(j)' = {}
                   ELSE /\ DrawnFor(j)' \subseteq Pool[j]
                        /\ Cardinality(DrawnFor(j)') = Count[j]
        <5>1. j \in left' <=> j \in left
          BY <2>3, <4>1
        <5>2. DrawnFor(j)' = DrawnFor(j)
          BY <3>2, <4>1
        <5>3. IF j \in left THEN DrawnFor(j) = {}
              ELSE /\ DrawnFor(j) \subseteq Pool[j]
                   /\ Cardinality(DrawnFor(j)) = Count[j]
          BY <2>1
        <5> QED BY <5>1, <5>2, <5>3
      <4>2. k \notin left' /\ S \subseteq Pool[k]
        BY <2>3
      <4> QED BY <2>3, <3>1, <4>1, <4>2
    <3>4. pc'[Creator] \in {"insert", "store"} => left' = {}
      BY <2>3
    <3>5. pc'[Creator] # "idle"
      BY <2>3
    <3> QED BY <3>3, <3>4, <3>5
  <2>4. \/ pc' = [pc EXCEPT ![Creator] = "refused"]
        \/ \E S \in SUBSET (Pool[k] \cap bank) :
              /\ Cardinality(S) = Count[k]
              /\ drawn' = drawn \cup ({k} \X S) /\ left' = left \ {k}
              /\ pc' = [pc EXCEPT ![Creator] = IF left = {k} THEN "insert" ELSE "draw"]
    BY <1>1 DEF CreateDraw, Step, Goto
  <2> QED BY <2>1, <2>2, <2>3, <2>4 DEF TypeOK
<1>2. ASSUME drawn' = drawn, left' = left PROVE \A k \in Configs : DrawnFor(k)' = DrawnFor(k)
  BY <1>2 DEF DrawnFor
<1>3. CASE pc'[Creator] = pc[Creator] /\ drawn' = drawn /\ left' = left
  BY <1>2, <1>3
<1>4. CASE pc[Creator] = "idle" /\ pc'[Creator] = "draw" /\ drawn' = drawn /\ left' = left
  <2>1. \A k \in Configs : DrawnFor(k) = {}
    BY <1>4 DEF DrawnFor
  <2> QED BY <1>2, <1>4, <2>1
<1>5. CASE pc[Creator] = "insert" /\ pc'[Creator] = "store" /\ drawn' = drawn /\ left' = left
  BY <1>2, <1>5
<1>6. CASE pc'[Creator] \in {"done", "refused", "failed"}
  BY <1>6
<1> QED BY <1>1, <1>3, <1>4, <1>5, <1>6, CreatorMove

\* So the paper CreateStore stores is complete.
LEMMA DrawnComplete ==
    ASSUME DrawnRight, pc[Creator] = "store"
    PROVE  Complete(drawn)
  BY DEF DrawnRight, DrawnFor, Complete

\* Until the paper is stored nobody publishes or starts; until the exam is
\* there nobody closes or deletes it.
Preparing == pc[Creator] \in {"idle", "draw", "insert", "store"}
NotReady ==
    Preparing =>
        /\ paper = {} /\ attempts = <<>> /\ exam # "published"
        /\ \A s \in Starts : pc[s] \in {"idle", "refused"}
        /\ \A p \in Publishes : pc[p] \notin {"update", "done"}
        /\ pc[Creator] # "store" =>
              exam = "none" /\ \A q \in Managers : pc[q] \in {"idle", "refused"}

\* Every step keeps it so.
LEMMA NotReadyStep ==
    ASSUME TypeOK, NotReady, [Next]_vars
    PROVE  NotReady'
<1> USE DEF NotReady
<1> SUFFICES ASSUME Preparing' PROVE NotReady'
  OBVIOUS
<1>1. /\ Preparing
      /\ pc'[Creator] # "store" => pc[Creator] # "store"
      /\ pc'[Creator] # "store" => ~CreateInsert \/ exam' = exam
  <2>1. CreateInsert => pc'[Creator] = "store" \/ exam' = exam
    BY Kinds DEF CreateInsert, Step, Goto, TypeOK
  <2> QED BY <2>1, CreatorMove DEF Preparing
<1>2. paper' = {}
  <2>1. ~CreateStore
    BY Kinds DEF CreateStore, Step, Goto, TypeOK, Preparing
  <2>2. \A d \in Deletes : DeleteExam(d) => paper' = {}
    BY <1>1 DEF DeleteExam
  <2> QED BY <1>1, <2>1, <2>2, TableWriters
<1>3. attempts' = <<>>
  <2>1. \A s \in Starts : ~StartCreate(s)
    BY <1>1 DEF StartCreate, Step
  <2>2. DOMAIN attempts = {}
    BY <1>1
  <2> QED BY <1>1, <2>1, <2>2, TableWriters
<1>4. /\ exam' # "published"
      /\ pc'[Creator] # "store" => exam' = "none"
  <2>1. \A p \in Publishes : ~StatusUpdate(p)
    BY <1>1 DEF StatusUpdate, Step
  <2>2. \A c \in Closes : StatusUpdate(c) =>
           pc[c] = "update" /\ exam' \in {exam, "closed"}
    BY Kinds DEF StatusUpdate, Step
  <2>3. \A c \in Closes : c \in Managers
    BY DEF Managers
  <2> QED BY <1>1, <2>1, <2>2, <2>3, TableWriters DEF CreateInsert, DeleteExam
<1>5. \A s \in Starts : pc'[s] \in {"idle", "refused"}
  <2>1. \A s \in Starts : pc[s] \notin Running
    BY <1>1 DEF Running
  <2> QED BY <1>1, <2>1, StartMove
<1>6. \A p \in Publishes : pc'[p] \notin {"update", "done"}
  <2>1. ASSUME NEW p \in Publishes PROVE pc'[p] \notin {"update", "done"}
    <3>1. p \in Managers /\ p \notin Closes /\ p \notin Deletes
      BY Kinds DEF Managers
    <3> QED BY <1>1, <3>1, ManagerMove
  <2> QED BY <2>1
<1>7. ASSUME pc'[Creator] # "store", NEW q \in Managers PROVE pc'[q] \in {"idle", "refused"}
  <2>1. pc[q] \in {"idle", "refused"} /\ exam = "none"
    BY <1>1, <1>7
  <2>2. ~Fail(q)
    BY <2>1 DEF Fail, Running
  <2>3. q \in Requests /\ q # Creator /\ q \notin Visits
    BY Kinds
  <2>4. ManageLoad(q) => pc'[q] = "refused"
    BY <2>1, <2>3 DEF ManageLoad, Begin, Goto, Found, TypeOK
  <2>5. ~PublishCount(q) /\ ~StatusUpdate(q) /\ ~DeleteExam(q)
    BY <2>1 DEF PublishCount, StatusUpdate, DeleteExam, Step
  <2> QED BY <2>1, <2>2, <2>3, <2>4, <2>5, OwnStep DEF OwnAction, Untouched, Visits
<1> QED BY <1>2, <1>3, <1>4, <1>5, <1>6, <1>7

\* Answers noted when a request began were given.
BeforeDone == \A q \in Requests : \A p \in before[q] : pc[p] = "done"

\* They still are after every step.
LEMMA BeforeStep ==
    ASSUME TypeOK, BeforeDone, [Next]_vars
    PROVE  BeforeDone'
  BY StepProgress DEF BeforeDone, Progress, TypeOK

\* A publication about to be written saw the paper, unless the exam is gone.
PublishReady == \A p \in Publishes : pc[p] = "update" => paper # {} \/ exam = "none"

\* An exam deleted before its paper is stored: the deletion overlaps.
StoreOrphan == pc[Creator] = "store" /\ exam = "none" =>
                  \E d \in Deletes : pc[d] = "done" /\ Creator \notin before[d]

PaperInv == /\ BeforeDone
            /\ NotReady
            /\ DrawnRight
            /\ PublishReady
            /\ StoreOrphan
            /\ PaperSound

\* Publication needs a paper, also when it was deleted or stored meanwhile.
LEMMA PublishReadyStep ==
    ASSUME TypeOK, PaperInv, [Next]_vars
    PROVE  PublishReady' /\ PublishedHasPaper'
<1> USE DEF PaperInv, PaperSound, PublishReady, PublishedHasPaper
<1>1. ASSUME NEW d \in Deletes, DeleteExam(d)
      PROVE  exam' = "none" \/ (exam' = exam /\ paper' = paper)
  BY <1>1 DEF DeleteExam
<1>2. CreateInsert => exam' \in {exam, "draft"} /\ Preparing
  BY DEF CreateInsert, Step, Preparing
<1>3. CreateStore => paper' # {}
  BY DrawnComplete, CompleteNotEmpty DEF CreateStore, Step
<1>4. ASSUME NEW q \in Publishes \cup Closes, StatusUpdate(q)
      PROVE  /\ exam = "none" <=> exam' = "none"
             /\ exam' = "published" => exam = "published" \/ paper # {}
  BY <1>4, Kinds DEF StatusUpdate, Step
<1>5. PublishedHasPaper'
  BY <1>1, <1>2, <1>3, <1>4, TableWriters
<1>6. ASSUME NEW p \in Publishes, pc'[p] = "update" PROVE paper' # {} \/ exam' = "none"
  <2>1. p \in Managers /\ p \notin Closes /\ p \notin Deletes
    BY Kinds DEF Managers
  <2>2. CASE pc[p] = "update"
    <3>1. ~Preparing
      BY <2>2 DEF NotReady
    <3> QED BY <1>1, <1>2, <1>3, <1>4, <2>2, <3>1, TableWriters
  <2>3. CASE pc[p] # "update"
    BY <1>6, <2>1, <2>3, ManagerMove
  <2> QED BY <2>2, <2>3
<1> QED BY <1>5, <1>6

\* The paper stays whole, and what is left of it without an exam is explained.
LEMMA PaperStep ==
    ASSUME TypeOK, PaperInv, [Next]_vars
    PROVE  PaperInv'
<1> USE DEF PaperInv, PaperSound
<1>1. BeforeDone' /\ NotReady' /\ DrawnRight'
  BY BeforeStep, NotReadyStep, DrawnStep
<1>2. PublishReady' /\ PublishedHasPaper'
  BY PublishReadyStep
<1>3. PaperWhole'
  <2>1. CreateStore => Complete(drawn) /\ paper' = drawn
    BY DrawnComplete DEF CreateStore, Step
  <2>2. \A d \in Deletes : DeleteExam(d) => paper' \in {{}, paper}
    BY DEF DeleteExam
  <2>3. paper' = {} \/ Complete(paper')
    BY <2>1, <2>2, TableWriters DEF PaperWhole
  <2> QED BY <2>3 DEF PaperWhole, Complete
<1>4. ASSUME NEW d \in Deletes, pc[d] = "done", Creator \notin before[d]
      PROVE  pc'[d] = "done" /\ Creator \notin before'[d]
  <2>1. d \in Requests
    BY DEF Requests
  <2> QED BY <1>4, <2>1, StepProgress DEF Progress
<1>5. StoreOrphan'
  <2> SUFFICES ASSUME pc'[Creator] = "store", exam' = "none"
               PROVE  \E d \in Deletes : pc'[d] = "done" /\ Creator \notin before'[d]
    BY DEF StoreOrphan
  <2>1. pc[Creator] = "store"
    BY CreatorMove
  <2>2. CASE exam = "none"
    BY <1>4, <2>1, <2>2 DEF StoreOrphan
  <2>3. CASE exam # "none"
    <3>1. PICK d \in Deletes : DeleteExam(d)
      BY <2>1, <2>3, TableWriters, Kinds DEF CreateInsert, StatusUpdate, Step
    <3>2. d \in Requests /\ pc[d] = "delete" /\ pc'[d] = "done" /\ before' = before
      BY <2>3, <3>1, Kinds DEF DeleteExam, Step, Goto, TypeOK, Managers
    <3>3. Creator \notin before[d]
      BY <2>1, <3>2 DEF BeforeDone
    <3> QED BY <3>2, <3>3
  <2> QED BY <2>2, <2>3
<1>6. OrphansOnlyByOverlap'
  <2> SUFFICES ASSUME exam' = "none", paper' # {}
               PROVE  \E d \in Deletes : pc'[d] = "done" /\ Creator \notin before'[d]
    BY DEF OrphansOnlyByOverlap
  <2>1. CASE exam = "none" /\ paper # {}
    BY <1>4, <2>1 DEF OrphansOnlyByOverlap
  <2>2. CASE CreateStore /\ exam' = exam
    <3>1. pc[Creator] = "store"
      BY <2>2 DEF CreateStore, Step
    <3> QED BY <1>4, <2>2, <3>1 DEF StoreOrphan
  <2>3. CASE exam = "none" /\ paper' = paper
    BY <2>1, <2>3
  <2>4. CASE exam # "none"
    <3>1. \A d \in Deletes : DeleteExam(d) => exam' # "none" \/ paper' = {}
      BY <2>4 DEF DeleteExam
    <3>2. CreateInsert => exam' # "none"
      BY <2>4 DEF CreateInsert
    <3>3. \A q \in Publishes \cup Closes : StatusUpdate(q) => exam' # "none"
      BY <2>4 DEF StatusUpdate
    <3> QED BY <2>2, <2>4, <3>1, <3>2, <3>3, TableWriters
  <2>5. \A d \in Deletes : DeleteExam(d) => paper' = {} \/ paper' = paper
    BY DEF DeleteExam
  <2> QED BY <2>1, <2>2, <2>3, <2>4, <2>5, TableWriters
<1> QED BY <1>1, <1>2, <1>3, <1>5, <1>6

\* At the start.
LEMMA PaperInit == Init => PaperInv
<1> SUFFICES ASSUME Init PROVE PaperInv
  OBVIOUS
<1> USE DEF Init
<1>1. \A q \in Requests : before[q] = {} /\ pc[q] \in {"idle", "done"}
  OBVIOUS
<1>2. \A q \in Requests : q # Creator => pc[q] = "idle"
  OBVIOUS
<1>3. Creator \in Requests /\ \A q \in Managers \cup Visits : q \in Requests /\ q # Creator
  BY Kinds
<1>4. pc[Creator] = "idle" => exam = "none" /\ paper = {}
  BY <1>3
<1>5. paper = {} \/ Complete(paper)
  OBVIOUS
<1>6. exam = "none" => paper = {}
  OBVIOUS
<1>7. BeforeDone
  BY <1>1 DEF BeforeDone
<1>8. NotReady
  BY <1>1, <1>2, <1>3, <1>4 DEF NotReady, Preparing, Managers, Visits
<1>9. DrawnRight
  BY <1>1, <1>3 DEF DrawnRight
<1>10. PublishReady /\ StoreOrphan
  BY <1>1, <1>2, <1>3 DEF PublishReady, StoreOrphan, Managers
<1>11. PaperWhole /\ OrphansOnlyByOverlap
  BY <1>5, <1>6 DEF PaperWhole, OrphansOnlyByOverlap
<1>12. PublishedHasPaper
  <2>1. exam = "published" => Complete(paper)
    OBVIOUS
  <2> QED BY <2>1, CompleteNotEmpty DEF PublishedHasPaper
<1> QED BY <1>7, <1>8, <1>9, <1>10, <1>11, <1>12 DEF PaperInv, PaperSound

\* The paper invariant always holds.
LEMMA PaperInvariant == Spec => [](TypeOK /\ PaperInv)
<1>1. Init => TypeOK /\ PaperInv
  BY TypeInit, PaperInit
<1>2. (TypeOK /\ PaperInv) /\ [Next]_vars => (TypeOK /\ PaperInv)'
  BY TypeStep, PaperStep
<1> QED BY <1>1, <1>2, PTL DEF Spec

\* A published exam has its whole paper, however creation, publication, closing
\* and deletion overlap or fail, and a paper without an exam is left behind only
\* by a deletion that overlaps with the creation.
THEOREM PapersSound == Spec => []PaperSound
<1>1. TypeOK /\ PaperInv => PaperSound
  BY DEF PaperInv
<1> QED BY <1>1, PaperInvariant, PTL

-----------------------------------------------------------------------------
(* Closing.                                                                *)

\* A publication that was answered, and not before request q began.
Republished(q) == \E p \in Publishes : pc[p] = "done" /\ p \notin before[q]

\* It stays so for requests that have begun.
LEMMA RepublishedStays ==
    ASSUME TypeOK, [Next]_vars, NEW c \in Closes, pc[c] # "idle", Republished(c)
    PROVE  Republished(c)'
<1>1. PICK p \in Publishes : pc[p] = "done" /\ p \notin before[c]
  BY DEF Republished
<1>2. p \in Requests /\ c \in Requests
  BY DEF Requests
<1> QED BY <1>1, <1>2, StepProgress DEF Republished, Progress

\* The step that publishes republishes for every close answered before it.
LEMMA CloseStep ==
    ASSUME TypeOK, PaperInv, CloseSticks, [Next]_vars
    PROVE  CloseSticks'
<1> SUFFICES ASSUME NEW c \in Closes, pc'[c] = "done", exam' # "none"
             PROVE  exam' = "closed" \/ Republished(c)'
  BY DEF CloseSticks, Republished
<1>1. c \in Requests /\ c \in Managers /\ c \notin Publishes /\ c \notin Deletes
  BY Kinds DEF Managers
<1>2. CASE pc[c] # "done"
  BY <1>1, <1>2, ManagerMove
<1>3. CASE pc[c] = "done"
  <2>1. ~CreateInsert
    <3>1. pc[Creator] = "insert" => pc[c] \in {"idle", "refused"}
      BY <1>1 DEF PaperInv, NotReady, Preparing
    <3> QED BY <1>3, <3>1 DEF CreateInsert, Step
  <2>2. CASE exam' = exam
    BY <1>1, <1>3, <2>2, RepublishedStays DEF CloseSticks, Republished
  <2>3. ASSUME NEW q \in Closes, StatusUpdate(q) PROVE exam' \in {"none", "closed"}
    BY <2>3, Kinds DEF StatusUpdate
  <2>4. ASSUME NEW p \in Publishes, StatusUpdate(p), exam # "none" PROVE Republished(c)'
    <3>1. p \in Requests /\ pc[p] = "update" /\ pc'[p] = "done" /\ before' = before
      BY <2>4, Kinds DEF StatusUpdate, Step, Goto, TypeOK, Managers
    <3>2. p \notin before[c]
      BY <1>1, <3>1 DEF PaperInv, BeforeDone
    <3> QED BY <3>1, <3>2 DEF Republished
  <2>5. \A p \in Publishes : StatusUpdate(p) /\ exam = "none" => exam' = exam
    BY DEF StatusUpdate
  <2>6. \A d \in Deletes : DeleteExam(d) => exam' = "none"
    BY DEF DeleteExam
  <2> QED BY <2>1, <2>2, <2>3, <2>4, <2>5, <2>6, TableWriters
<1> QED BY <1>2, <1>3

\* Starts under way or answered, and the starts of the attempts, began before
\* every close answered by then, or a publication came after it.
Admits(s) == \A c \in Closes \cap before[s] : Republished(c)
Admitted == \A s \in Starts : pc[s] \notin {"idle", "refused", "failed"} => Admits(s)

\* They are let in for good.
LEMMA AdmitsStays ==
    ASSUME TypeOK, BeforeDone, [Next]_vars, NEW s \in Starts, pc[s] # "idle", Admits(s)
    PROVE  Admits(s)'
<1>1. s \in Requests /\ before'[s] = before[s] /\ \A c \in before[s] : pc[c] # "idle"
  <2>1. s \in Requests
    BY Kinds DEF Visits
  <2> QED BY <2>1, StepProgress DEF Progress, BeforeDone
<1>2. ASSUME NEW c \in Closes \cap before'[s] PROVE Republished(c)'
  BY <1>1, <1>2, RepublishedStays DEF Admits
<1> QED BY <1>2 DEF Admits

\* A start is let in only by a published exam.
LEMMA AdmittedStep ==
    ASSUME TypeOK, PaperInv, CloseSticks, Admitted, [Next]_vars
    PROVE  Admitted'
<1> SUFFICES ASSUME NEW s \in Starts, pc'[s] \notin {"idle", "refused", "failed"}
             PROVE  Admits(s)'
  BY DEF Admitted
<1>1. s \in Requests
  BY Kinds DEF Visits
<1>2. CASE pc[s] \notin {"idle", "refused", "failed"}
  BY <1>2, AdmitsStays DEF Admitted, PaperInv
<1>3. CASE pc[s] = "idle" /\ exam = "published" /\ UNCHANGED tables /\ StartLoad(s)
  <2>1. /\ before' = [before EXCEPT ![s] = {p \in Requests : pc[p] = "done"}]
        /\ pc' = [pc EXCEPT ![s] = IF exam = "published" /\ clock = "open"
                                   THEN "find" ELSE "refused"]
    BY <1>3 DEF StartLoad, VisitBegin, Begin, Goto
  <2>2. ASSUME NEW c \in Closes, pc[c] = "done" PROVE Republished(c)'
    <3>1. Republished(c)
      BY <1>3, <2>2 DEF CloseSticks, Republished
    <3> QED BY <2>2, <3>1, RepublishedStays
  <2>3. before'[s] = {p \in Requests : pc[p] = "done"}
    BY <1>1, <2>1 DEF TypeOK
  <2> QED BY <2>2, <2>3 DEF Admits
<1>4. CASE pc[s] \in {"refused", "failed"}
  <2>1. pc'[s] = pc[s]
    BY <1>4, StartMove DEF Running
  <2> QED BY <1>4, <2>1
<1> QED BY <1>2, <1>3, <1>4, StartMove DEF Running

\* The start that created an attempt has begun.
ByBegun == \A i \in DOMAIN attempts : pc[attempts[i].by] # "idle"

\* What becomes of the attempts in a step.
LEMMA AttemptStep ==
    ASSUME TypeOK, [Next]_vars
    PROVE  /\ DOMAIN attempts \subseteq DOMAIN attempts'
           /\ \A i \in DOMAIN attempts :
                 /\ attempts'[i].student = attempts[i].student
                 /\ attempts'[i].items = attempts[i].items
                 /\ attempts'[i].by = attempts[i].by
                 /\ attempts[i].status = "submitted" => attempts'[i].status = "submitted"
           /\ \/ DOMAIN attempts' = DOMAIN attempts
              \/ \E s \in Starts :
                    /\ StartCreate(s) /\ exam' = exam /\ paper' = paper
                    /\ Len(attempts') = Len(attempts) + 1
                    /\ DOMAIN attempts' = 1..Len(attempts')
                    /\ attempts'[Len(attempts')] = NewAttempt(s)
<1> USE AttemptRows
<1>1. CASE attempts' = attempts
  BY <1>1
<1>2. ASSUME NEW s \in Starts, StartCreate(s), exam' = exam, paper' = paper
      PROVE  /\ DOMAIN attempts \subseteq DOMAIN attempts'
             /\ \A i \in DOMAIN attempts : attempts'[i] = attempts[i]
             /\ Len(attempts') = Len(attempts) + 1
             /\ DOMAIN attempts' = 1..Len(attempts')
             /\ attempts'[Len(attempts')] = NewAttempt(s)
  <2>1. attempts' = Append(attempts, NewAttempt(s))
    BY <1>2 DEF StartCreate, NewAttempt
  <2> QED BY <2>1, Created
<1>3. ASSUME NEW i \in DOMAIN attempts, SubmitAttempt(i)
      PROVE  /\ DOMAIN attempts' = DOMAIN attempts
             /\ \A j \in DOMAIN attempts :
                   /\ attempts'[j].student = attempts[j].student
                   /\ attempts'[j].items = attempts[j].items
                   /\ attempts'[j].by = attempts[j].by
                   /\ attempts[j].status = "submitted" => attempts'[j].status = "submitted"
  <2>1. /\ DOMAIN attempts' = DOMAIN attempts
        /\ \A j \in DOMAIN attempts :
              attempts'[j] = IF j = i THEN [attempts[i] EXCEPT !.status = "submitted"]
                             ELSE attempts[j]
    BY <1>3, Submitted
  <2>2. attempts[i] \in Attempt
    OBVIOUS
  <2>3. /\ attempts'[i].student = attempts[i].student
        /\ attempts'[i].items = attempts[i].items
        /\ attempts'[i].by = attempts[i].by
        /\ attempts'[i].status = "submitted"
    BY <2>1, <2>2 DEF Attempt
  <2> QED BY <2>1, <2>3
<1> QED BY <1>1, <1>2, <1>3, TableWriters

\* Attempts come from starts that were let in.
LEMMA ClosedStep ==
    ASSUME TypeOK, PaperInv, CloseSticks, Admitted, ClosedToNewStarts, ByBegun, [Next]_vars
    PROVE  ClosedToNewStarts' /\ ByBegun'
<1> USE AttemptRows
<1>1. \A i \in DOMAIN attempts : attempts[i].by \in Starts
  BY DEF Attempt
<1>2. ASSUME NEW i \in DOMAIN attempts
      PROVE  Admits(attempts[i].by)' /\ pc'[attempts[i].by] # "idle"
  <2>1. attempts[i].by \in Starts /\ pc[attempts[i].by] # "idle" /\ attempts'[i].by = attempts[i].by
    BY <1>1, AttemptStep DEF ByBegun
  <2>2. PICK s \in Starts : s = attempts[i].by /\ s = attempts'[i].by
    BY <2>1
  <2>3. Admits(s)
    BY <2>2 DEF ClosedToNewStarts, Admits, Republished
  <2>4. s \in Requests
    BY Kinds DEF Visits
  <2>5. Admits(s)' /\ pc'[s] # "idle"
    BY <2>1, <2>2, <2>3, <2>4, AdmitsStays, StepProgress DEF PaperInv, Progress
  <2> QED BY <2>2, <2>5 DEF Admits
<1>3. ASSUME NEW s \in Starts, StartCreate(s) PROVE Admits(s)' /\ pc'[s] # "idle"
  <2>1. pc[s] = "create" /\ s \in Requests
    BY <1>3, Kinds DEF StartCreate, Step, Visits
  <2>2. Admits(s)
    BY <2>1 DEF Admitted
  <2> QED BY <2>1, <2>2, AdmitsStays, StepProgress DEF PaperInv, Progress
<1>4. ASSUME NEW i \in DOMAIN attempts'
      PROVE  \E s \in Starts : attempts'[i].by = s /\ Admits(s)' /\ pc'[s] # "idle"
  <2>1. CASE i \in DOMAIN attempts
    <3>1. PICK s \in Starts : s = attempts[i].by /\ s = attempts'[i].by
      BY <1>1, <2>1, AttemptStep
    <3>2. Admits(s)' /\ pc'[s] # "idle"
      BY <1>2, <2>1, <3>1 DEF Admits
    <3> QED BY <3>1, <3>2
  <2>2. ASSUME NEW s \in Starts, StartCreate(s), Len(attempts') = Len(attempts) + 1,
               DOMAIN attempts' = 1..Len(attempts'),
               attempts'[Len(attempts')] = NewAttempt(s), i \notin DOMAIN attempts
        PROVE  attempts'[i].by = s
    BY <1>4, <2>2 DEF NewAttempt
  <2> QED BY <1>3, <1>4, <2>1, <2>2, AttemptStep
<1> QED BY <1>4 DEF ClosedToNewStarts, ByBegun, Admits, Republished

-----------------------------------------------------------------------------
(* Attempts and visits.                                                    *)

\* The steps of a visit: what each does to its local state.
Entered(v) == /\ pc[v] = "idle" /\ pc'[v] = "find" /\ UNCHANGED tables
              /\ visit'[v] = [visit[v] EXCEPT !.past =
                     {i \in DOMAIN attempts : attempts[i].status = "submitted"}]
FoundOne(v) == /\ pc[v] = "find" /\ pc'[v] \in {"items", "exam"} /\ UNCHANGED tables
               /\ \E i \in Unfinished(visit[v].student) :
                     visit'[v] = [visit[v] EXCEPT !.attempt = i]
FoundNone(v) == /\ v \in Starts /\ pc[v] = "find" /\ pc'[v] = "paper" /\ UNCHANGED tables
                /\ Unfinished(visit[v].student) = {} /\ visit'[v] = visit[v]
Prepared(v) == /\ v \in Starts /\ pc[v] = "paper" /\ pc'[v] = "create"
               /\ paper # {} /\ UNCHANGED tables
               /\ visit'[v] = [visit[v] EXCEPT !.todo = paper]
CreatedOne(v) == /\ v \in Starts /\ pc[v] = "create" /\ pc'[v] = "items" /\ StartCreate(v)
                 /\ visit'[v] = [visit[v] EXCEPT !.attempt = Len(attempts')]
ExamThere(v) == /\ pc[v] = "exam" /\ pc'[v] = "items" /\ UNCHANGED tables
                /\ visit'[v] = visit[v]
Listed(v) == /\ pc[v] = "items" /\ pc'[v] = "read" /\ UNCHANGED tables
             /\ visit'[v] = [visit[v] EXCEPT !.todo =
                    paper \cap attempts[visit[v].attempt].items]
ReadOne(v) ==
    /\ pc[v] = "read" /\ UNCHANGED tables
    /\ \/ /\ pc'[v] = "done" /\ visit[v].todo = {}
          /\ visit'[v] = visit[v] /\ glitches' = glitches
       \/ /\ pc'[v] = "read" /\ glitches' = glitches
          /\ \E r \in visit[v].todo :
                visit'[v] = [visit[v] EXCEPT !.todo = @ \ {r}, !.views = @ \cup {r}]
       \/ /\ pc'[v] = "read"
          /\ \E r \in visit[v].todo :
                /\ visit'[v] = [visit[v] EXCEPT !.todo = @ \ {r}]
                /\ glitches' = glitches + 1 \/ (r[2] \notin bank /\ glitches' = glitches)

\* There are no others, but for refusals and failures.
LEMMA VisitCases ==
    ASSUME TypeOK, [Next]_vars, NEW v \in Visits
    PROVE  \/ Untouched(v) \/ pc'[v] \in {"refused", "failed"}
           \/ Entered(v) \/ FoundOne(v) \/ FoundNone(v) \/ Prepared(v)
           \/ CreatedOne(v) \/ ExamThere(v) \/ Listed(v) \/ ReadOne(v)
<1> v \in Requests /\ v # Creator /\ v \notin Managers /\ (v \in Starts => v \notin Currents)
  BY Kinds
<1> USE DEF TypeOK, Goto, Step, Begin
<1>1. CASE (v \in Starts /\ StartLoad(v)) \/ (v \in Currents /\ CurrentBegin(v))
  BY <1>1 DEF StartLoad, CurrentBegin, VisitBegin, Entered
<1>2. CASE VisitFind(v)
  <2>1. CASE Unfinished(visit[v].student) = {}
    BY <1>2, <2>1 DEF VisitFind, FoundNone
  <2>2. CASE Unfinished(visit[v].student) # {}
    <3>1. pc[v] = "find" /\ pc'[v] \in {"items", "exam"} /\ UNCHANGED tables
      BY <1>2, <2>2 DEF VisitFind
    <3>2. \E i \in Unfinished(visit[v].student) : visit' = [visit EXCEPT ![v].attempt = i]
      BY <1>2, <2>2 DEF VisitFind
    <3> QED BY <3>1, <3>2 DEF FoundOne
  <2> QED BY <2>1, <2>2
<1>3. CASE v \in Starts /\ StartPaper(v)
  BY <1>3 DEF StartPaper, Prepared
<1>4. CASE v \in Starts /\ StartCreate(v)
  <2>1. pc[v] = "create" /\ pc'[v] = "items"
    BY <1>4 DEF StartCreate
  <2>2. visit'[v] = [visit[v] EXCEPT !.attempt = Len(attempts')]
    BY <1>4 DEF StartCreate
  <2> QED BY <1>4, <2>1, <2>2 DEF CreatedOne
<1>5. CASE v \in Currents /\ CurrentExam(v)
  BY <1>5 DEF CurrentExam, ExamThere, locals
<1>6. CASE VisitItems(v)
  BY <1>6 DEF VisitItems, Listed
<1>7. CASE VisitRead(v)
  <2>1. pc[v] = "read" /\ UNCHANGED tables
    BY <1>7 DEF VisitRead
  <2>2. \A to : Goto(v, to) => pc'[v] = to
    OBVIOUS
  <2>3. CASE /\ visit[v].todo = {} /\ Goto(v, "done")
             /\ visit' = visit /\ glitches' = glitches
    BY <2>1, <2>3 DEF ReadOne
  <2>4. CASE /\ Goto(v, "read") /\ glitches' = glitches
             /\ \E r \in visit[v].todo :
                   visit' = [visit EXCEPT ![v].todo = @ \ {r}, ![v].views = @ \cup {r}]
    <3>1. PICK r \in visit[v].todo :
             visit' = [visit EXCEPT ![v].todo = @ \ {r}, ![v].views = @ \cup {r}]
      BY <2>4
    <3>2. visit'[v] = [visit[v] EXCEPT !.todo = @ \ {r}, !.views = @ \cup {r}]
      BY <3>1
    <3> QED BY <2>1, <2>4, <3>2 DEF ReadOne
  <2>5. CASE /\ Goto(v, "read")
             /\ \E r \in visit[v].todo :
                   /\ visit' = [visit EXCEPT ![v].todo = @ \ {r}]
                   /\ \/ r[2] \in bank /\ glitches < MaxGlitches
                         /\ glitches' = glitches + 1
                      \/ r[2] \notin bank /\ glitches' = glitches
    BY <2>1, <2>5 DEF ReadOne
  <2> QED BY <1>7, <2>3, <2>4, <2>5, ReadCases
<1>8. CASE Fail(v)
  BY <1>8 DEF Fail
<1> QED BY <1>1, <1>2, <1>3, <1>4, <1>5, <1>6, <1>7, <1>8, OwnStep
        DEF OwnAction, Managers, Visits

\* Once the paper is stored it changes only by the deletion of its exam.
LEMMA PaperFixed ==
    ASSUME ~Preparing, [Next]_vars, exam' # "none"
    PROVE  exam # "none" /\ paper' = paper
<1>1. ~CreateInsert /\ ~CreateStore
  BY DEF Preparing, CreateInsert, CreateStore, Step
<1>2. \A d \in Deletes : DeleteExam(d) => exam' = "none"
  BY DEF DeleteExam
<1>3. \A q \in Publishes \cup Closes : StatusUpdate(q) => exam # "none" \/ exam' = exam
  BY DEF StatusUpdate
<1> QED BY <1>1, <1>2, <1>3, TableWriters

\* What a start has read and is about to create an attempt of.
StartReady == \A s \in Starts : pc[s] = "create" =>
                 /\ Complete(visit[s].todo)
                 /\ exam # "none" => visit[s].todo = paper

\* Attempts are of the whole paper.
LEMMA WholeStep ==
    ASSUME TypeOK, PaperInv, StartReady, AttemptsWhole, [Next]_vars
    PROVE  StartReady' /\ AttemptsWhole'
<1> USE AttemptRows DEF PaperInv, NotReady
<1>1. ASSUME NEW s \in Starts, pc'[s] = "create"
      PROVE  Complete(visit'[s].todo) /\ (exam' # "none" => visit'[s].todo = paper')
  <2>1. s \in Visits /\ visit[s] \in Visit
    BY DEF Visits, TypeOK
  <2>2. CASE Untouched(s)
    <3>1. pc[s] = "create" /\ visit'[s] = visit[s] /\ ~Preparing
      BY <1>1, <2>1, <2>2 DEF Untouched
    <3> QED BY <3>1, PaperFixed DEF StartReady
  <2>3. CASE Prepared(s)
    <3>1. visit'[s].todo = paper
      BY <2>1, <2>3 DEF Prepared, Visit
    <3>2. paper' = paper /\ Complete(paper)
      BY <2>3 DEF Prepared, tables, PaperSound, PaperWhole
    <3> QED BY <3>1, <3>2
  <2> QED BY <1>1, <2>1, <2>2, <2>3, VisitCases
          DEF Entered, FoundOne, FoundNone, CreatedOne, ExamThere, Listed, ReadOne
<1>2. ASSUME NEW i \in DOMAIN attempts'
      PROVE  /\ Complete(attempts'[i].items)
             /\ exam' # "none" => attempts'[i].items = paper'
  <2>1. CASE i \in DOMAIN attempts
    <3>1. ~Preparing
      BY <2>1
    <3>2. attempts'[i].items = attempts[i].items
      BY <2>1, AttemptStep
    <3> QED BY <2>1, <3>1, <3>2, PaperFixed DEF AttemptsWhole
  <2>2. ASSUME NEW s \in Starts, StartCreate(s), exam' = exam, paper' = paper,
               Len(attempts') = Len(attempts) + 1, DOMAIN attempts' = 1..Len(attempts'),
               attempts'[Len(attempts')] = NewAttempt(s), i \notin DOMAIN attempts
        PROVE  /\ Complete(attempts'[i].items)
               /\ exam' # "none" => attempts'[i].items = paper'
    <3>1. attempts'[i].items = visit[s].todo
      BY <1>2, <2>2 DEF NewAttempt
    <3>2. pc[s] = "create"
      BY <2>2 DEF StartCreate, Step
    <3> QED BY <2>2, <3>1, <3>2 DEF StartReady
  <2> QED BY <1>2, <2>1, <2>2, AttemptStep
<1> QED BY <1>1, <1>2 DEF StartReady, AttemptsWhole

\* A start that found no unfinished attempt of its student: those there are now
\* come from starts that were not answered when it began.
LookedUp == \A s \in Starts : pc[s] \in {"paper", "create"} =>
               \A i \in DOMAIN attempts :
                  /\ attempts[i].student = visit[s].student
                  /\ attempts[i].status = "in_progress"
                  => attempts[i].by \notin before[s]

\* Only overlapping starts leave two unfinished attempts.
LEMMA DoubleStep ==
    ASSUME TypeOK, BeforeDone, ByBegun, LookedUp, DoubleOnlyByOverlap, [Next]_vars
    PROVE  LookedUp' /\ DoubleOnlyByOverlap'
<1> USE AttemptRows
<1>0. \A s \in Starts : s \in Visits /\ s \in Requests /\ visit[s] \in Visit
  BY Kinds DEF Visits, TypeOK
<1>1. \A i \in DOMAIN attempts : /\ attempts[i].by \in Starts
                                 /\ attempts'[i].status = "in_progress" =>
                                        attempts[i].status = "in_progress"
  BY AttemptStep DEF Attempt
<1>2. ASSUME NEW s \in Starts, pc[s] \in {"paper", "create"}, NEW i \in DOMAIN attempts',
             attempts'[i].student = visit[s].student, attempts'[i].status = "in_progress"
      PROVE  attempts'[i].by \notin before[s]
  <2>1. CASE i \in DOMAIN attempts
    BY <1>1, <1>2, <2>1, AttemptStep DEF LookedUp
  <2>2. CASE i \notin DOMAIN attempts
    <3>1. PICK t \in Starts : StartCreate(t) /\ attempts'[i].by = t
      <4>1. PICK t \in Starts : /\ StartCreate(t) /\ Len(attempts') = Len(attempts) + 1
                                /\ DOMAIN attempts' = 1..Len(attempts')
                                /\ attempts'[Len(attempts')] = NewAttempt(t)
        BY <1>2, <2>2, AttemptStep
      <4>2. i = Len(attempts')
        BY <1>2, <2>2, <4>1
      <4> QED BY <4>1, <4>2 DEF NewAttempt
    <3>2. pc[t] # "done"
      BY <3>1 DEF StartCreate, Step
    <3> QED BY <1>0, <3>1, <3>2 DEF BeforeDone
  <2> QED BY <2>1, <2>2
<1>3. ASSUME NEW s \in Starts, pc'[s] \in {"paper", "create"}, NEW i \in DOMAIN attempts',
             attempts'[i].student = visit'[s].student, attempts'[i].status = "in_progress"
      PROVE  attempts'[i].by \notin before'[s]
  <2>1. CASE pc[s] \in {"paper", "create"}
    <3>1. before'[s] = before[s]
      BY <1>0, <2>1, StepProgress DEF Progress
    <3>2. visit'[s].student = visit[s].student
      BY <1>0, VisitMove, OwnStep DEF Untouched
    <3> QED BY <1>2, <1>3, <2>1, <3>1, <3>2
  <2>2. CASE pc[s] \notin {"paper", "create"}
    <3>1. FoundNone(s)
      BY <1>0, <1>3, <2>2, VisitCases
         DEF Untouched, Entered, FoundOne, Prepared, CreatedOne, ExamThere, Listed, ReadOne
    <3>2. attempts' = attempts /\ visit'[s] = visit[s]
      BY <3>1 DEF FoundNone, tables
    <3>3. i \in Unfinished(visit[s].student)
      BY <1>3, <3>2 DEF Unfinished
    <3> QED BY <3>1, <3>3 DEF FoundNone
  <2> QED BY <2>1, <2>2
<1>4. ASSUME NEW i \in DOMAIN attempts', NEW j \in DOMAIN attempts', i < j,
             attempts'[i].student = attempts'[j].student,
             attempts'[i].status = "in_progress"
      PROVE  attempts'[i].by \notin before'[attempts'[j].by]
  <2>1. CASE j \in DOMAIN attempts
    <3>1. i \in DOMAIN attempts
      <4>1. i \in Nat /\ i >= 1
        BY <1>4, AttemptStep
      <4> QED BY <1>4, <2>1, <4>1
    <3>2. attempts[i].by \notin before[attempts[j].by]
      BY <1>1, <1>4, <2>1, <3>1, AttemptStep DEF DoubleOnlyByOverlap
    <3>3. PICK t \in Starts : t = attempts[j].by /\ t = attempts'[j].by /\ pc[t] # "idle"
      BY <1>1, <2>1, AttemptStep DEF ByBegun
    <3>4. before'[t] = before[t]
      BY <1>0, <3>3, StepProgress DEF Progress
    <3> QED BY <3>1, <3>2, <3>3, <3>4, AttemptStep
  <2>2. CASE j \notin DOMAIN attempts
    <3>1. PICK t \in Starts : /\ StartCreate(t) /\ Len(attempts') = Len(attempts) + 1
                              /\ DOMAIN attempts' = 1..Len(attempts')
                              /\ attempts'[Len(attempts')] = NewAttempt(t)
      BY <1>4, <2>2, AttemptStep
    <3>2. j = Len(attempts') /\ i \in DOMAIN attempts
      BY <1>4, <2>2, <3>1
    <3>3. attempts'[j].by = t /\ attempts'[j].student = visit[t].student
      BY <3>1, <3>2 DEF NewAttempt
    <3>4. pc[t] = "create"
      BY <3>1 DEF StartCreate, Step
    <3>5. before'[t] = before[t]
      BY <1>0, <3>4, StepProgress DEF Progress
    <3>6. attempts'[i].by \notin before[t]
      BY <1>2, <1>4, <3>3, <3>4
    <3> QED BY <3>3, <3>5, <3>6
  <2> QED BY <2>1, <2>2
<1> QED BY <1>3, <1>4 DEF LookedUp, DoubleOnlyByOverlap

\* What a visit knows of the past is what was submitted when it began.
LEMMA PastMove ==
    ASSUME TypeOK, [Next]_vars, NEW v \in Visits
    PROVE  \/ visit'[v].past = visit[v].past
           \/ visit'[v].past = {i \in DOMAIN attempts : attempts[i].status = "submitted"}
<1> v \in Requests /\ v # Creator /\ v \notin Managers /\ visit[v] \in Visit
  BY Kinds DEF TypeOK
<1>1. CASE Untouched(v)
  BY <1>1 DEF Untouched
<1>2. CASE OwnAction(v) /\ pc[v] # "idle"
  BY <1>2, VisitMove
<1>3. CASE StartLoad(v) \/ CurrentBegin(v)
  <2>1. visit' = [visit EXCEPT ![v].past =
                     {i \in DOMAIN attempts : attempts[i].status = "submitted"}]
    BY <1>3 DEF StartLoad, CurrentBegin, VisitBegin
  <2> QED BY <2>1 DEF TypeOK, Visit
<1>4. CASE pc[v] = "idle" /\ OwnAction(v) /\ ~StartLoad(v) /\ ~CurrentBegin(v)
  BY <1>4 DEF OwnAction, StartPaper, StartCreate, CurrentExam, VisitFind, VisitItems,
     VisitRead, Fail, Step, Running, Managers
<1> QED BY <1>1, <1>2, <1>3, <1>4, OwnStep

\* Nothing got lost that a visit would serve.
Undisturbed == exam # "none" /\ bank = Questions /\ glitches = 0

\* What got lost does not come back.
LEMMA UndisturbedStep ==
    ASSUME TypeOK, [Next]_vars, ~Preparing, Undisturbed'
    PROVE  Undisturbed /\ exam' # "none" /\ paper' = paper /\ glitches' = glitches
<1> USE DEF Undisturbed
<1>1. exam # "none" /\ paper' = paper
  BY PaperFixed
<1>2. bank = Questions
  BY OtherWriters DEF DeleteQuestion, TypeOK
<1>3. glitches = 0 /\ glitches' = glitches
  BY OtherWriters, ReadCases DEF TypeOK
<1> QED BY <1>1, <1>2, <1>3

\* Visits serve an attempt of their student that was not submitted before, and
\* its questions are in the response or still to be read.
OwnAttempt(v) == /\ visit[v].attempt \in DOMAIN attempts
                 /\ attempts[visit[v].attempt].student = visit[v].student
                 /\ visit[v].attempt \notin visit[v].past
PastSubmitted == \A v \in Visits : \A i \in visit[v].past :
                    i \in DOMAIN attempts /\ attempts[i].status = "submitted"
VisitsOwn == \A v \in Visits :
                pc[v] \in {"exam", "items", "read", "done"} => OwnAttempt(v)
NoViews == \A v \in Visits :
              pc[v] \in {"idle", "find", "paper", "create", "exam", "items"} =>
                 visit[v].views = {}
ViewsWhole == \A v \in Visits :
                 /\ pc[v] = "done" => visit[v].todo = {}
                 /\ pc[v] \in {"read", "done"} /\ Undisturbed =>
                       visit[v].views \cup visit[v].todo = attempts[visit[v].attempt].items

\* What was submitted before a visit stays so.
LEMMA PastStep ==
    ASSUME TypeOK, PastSubmitted, [Next]_vars
    PROVE  PastSubmitted'
<1> SUFFICES ASSUME NEW v \in Visits, NEW i \in visit'[v].past
             PROVE  i \in DOMAIN attempts' /\ attempts'[i].status = "submitted"
  BY DEF PastSubmitted
<1>1. i \in DOMAIN attempts /\ attempts[i].status = "submitted"
  BY PastMove DEF PastSubmitted
<1> QED BY <1>1, AttemptStep

\* A visit keeps the attempt it found or created.
LEMMA OwnAttemptStep ==
    ASSUME TypeOK, PastSubmitted, VisitsOwn, [Next]_vars
    PROVE  VisitsOwn'
<1> USE AttemptRows
<1> SUFFICES ASSUME NEW v \in Visits, pc'[v] \in {"exam", "items", "read", "done"}
             PROVE  OwnAttempt(v)'
  BY DEF VisitsOwn
<1>0. visit[v] \in Visit
  BY DEF TypeOK
<1>1. ASSUME pc[v] \in {"exam", "items", "read", "done"},
             visit'[v].attempt = visit[v].attempt, visit'[v].student = visit[v].student,
             visit'[v].past = visit[v].past
      PROVE  OwnAttempt(v)'
  <2>1. OwnAttempt(v)
    BY <1>1 DEF VisitsOwn
  <2> QED BY <1>1, <2>1, AttemptStep DEF OwnAttempt
<1>2. CASE Untouched(v)
  BY <1>1, <1>2 DEF Untouched
<1>3. CASE ExamThere(v)
  BY <1>1, <1>3 DEF ExamThere
<1>4. CASE Listed(v)
  <2>1. /\ visit'[v].attempt = visit[v].attempt /\ visit'[v].student = visit[v].student
        /\ visit'[v].past = visit[v].past
    BY <1>0, <1>4 DEF Listed, Visit
  <2> QED BY <1>1, <1>4, <2>1 DEF Listed
<1>5. CASE ReadOne(v)
  <2>1. pc[v] = "read"
    BY <1>5 DEF ReadOne
  <2>2. \/ visit'[v] = visit[v]
        \/ \E r : visit'[v] = [visit[v] EXCEPT !.todo = @ \ {r}, !.views = @ \cup {r}]
        \/ \E r : visit'[v] = [visit[v] EXCEPT !.todo = @ \ {r}]
    BY <1>5 DEF ReadOne
  <2>3. /\ visit'[v].attempt = visit[v].attempt /\ visit'[v].student = visit[v].student
        /\ visit'[v].past = visit[v].past
    BY <1>0, <2>2 DEF Visit
  <2> QED BY <1>1, <2>1, <2>3
<1>6. CASE FoundOne(v)
  <2>1. PICK i \in Unfinished(visit[v].student) :
           visit'[v] = [visit[v] EXCEPT !.attempt = i]
    BY <1>6 DEF FoundOne
  <2>2. i \in DOMAIN attempts /\ attempts' = attempts
        /\ attempts[i].student = visit[v].student /\ attempts[i].status = "in_progress"
    BY <1>6 DEF FoundOne, Unfinished, tables
  <2>3. i \notin visit[v].past
    BY <2>2 DEF PastSubmitted
  <2>4. /\ visit'[v].attempt = i /\ visit'[v].student = visit[v].student
        /\ visit'[v].past = visit[v].past
    BY <1>0, <2>1 DEF Visit
  <2> QED BY <2>2, <2>3, <2>4 DEF OwnAttempt
<1>7. CASE CreatedOne(v)
  <2>1. attempts' = Append(attempts, NewAttempt(v)) /\ v \in Starts
    BY <1>7 DEF CreatedOne, StartCreate, NewAttempt
  <2>2. /\ Len(attempts') = Len(attempts) + 1
        /\ DOMAIN attempts' = 1..Len(attempts')
        /\ attempts'[Len(attempts')] = NewAttempt(v)
    BY <2>1, Created
  <2>3. /\ visit'[v].attempt = Len(attempts') /\ visit'[v].student = visit[v].student
        /\ visit'[v].past = visit[v].past
    BY <1>0, <1>7 DEF CreatedOne, Visit
  <2>4. Len(attempts') \notin visit[v].past
    BY <2>2 DEF PastSubmitted
  <2>5. Len(attempts') \in DOMAIN attempts'
    BY <2>2
  <2> QED BY <2>2, <2>3, <2>4, <2>5 DEF OwnAttempt, NewAttempt
<1> QED BY <1>2, <1>3, <1>4, <1>5, <1>6, <1>7, VisitCases
        DEF Entered, FoundNone, Prepared

\* Until questions are read the response has none.
LEMMA NoViewsStep ==
    ASSUME TypeOK, NoViews, [Next]_vars
    PROVE  NoViews'
<1> SUFFICES ASSUME NEW v \in Visits,
                    pc'[v] \in {"idle", "find", "paper", "create", "exam", "items"}
             PROVE  visit'[v].views = {}
  BY DEF NoViews
<1>0. visit[v] \in Visit
  BY DEF TypeOK
<1>1. CASE Untouched(v)
  BY <1>1 DEF Untouched, NoViews
<1>2. CASE Entered(v) \/ FoundOne(v) \/ FoundNone(v) \/ Prepared(v) \/ CreatedOne(v) \/ ExamThere(v)
  <2>1. pc[v] \in {"idle", "find", "paper", "create", "exam"}
    BY <1>2 DEF Entered, FoundOne, FoundNone, Prepared, CreatedOne, ExamThere
  <2>2. visit'[v].views = visit[v].views
    BY <1>0, <1>2 DEF Entered, FoundOne, FoundNone, Prepared, CreatedOne, ExamThere, Visit
  <2> QED BY <2>1, <2>2 DEF NoViews
<1> QED BY <1>1, <1>2, VisitCases DEF Listed, ReadOne

\* A visit serves every question unless something was lost.
LEMMA ViewsStep ==
    ASSUME TypeOK, PaperInv, AttemptsWhole, VisitsOwn, NoViews, ViewsWhole, [Next]_vars
    PROVE  ViewsWhole'
<1> USE AttemptRows
<1> SUFFICES ASSUME NEW v \in Visits, pc'[v] \in {"read", "done"}
             PROVE  /\ pc'[v] = "done" => visit'[v].todo = {}
                    /\ Undisturbed' => visit'[v].views \cup visit'[v].todo
                                        = attempts'[visit'[v].attempt].items
  BY DEF ViewsWhole
<1> DEFINE a == visit[v].attempt
<1>0. visit[v] \in Visit
  BY DEF TypeOK
<1>1. pc[v] \in {"items", "read", "done"} => OwnAttempt(v) /\ ~Preparing
  BY DEF VisitsOwn, OwnAttempt, PaperInv, NotReady
<1>2. OwnAttempt(v) => attempts'[a].items = attempts[a].items
  BY AttemptStep DEF OwnAttempt
<1>3. CASE Untouched(v)
  <2>1. pc[v] \in {"read", "done"} /\ pc'[v] = pc[v] /\ visit'[v] = visit[v]
    BY <1>3 DEF Untouched
  <2> QED BY <1>1, <1>2, <2>1, UndisturbedStep DEF ViewsWhole
<1>4. CASE Listed(v)
  <2>1. pc[v] = "items" /\ pc'[v] = "read" /\ OwnAttempt(v) /\ visit[v].views = {}
    BY <1>1, <1>4 DEF Listed, NoViews
  <2>2. /\ visit'[v].todo = paper \cap attempts[a].items
        /\ visit'[v].views = visit[v].views /\ visit'[v].attempt = a
    BY <1>0, <1>4 DEF Listed, Visit
  <2>3. ASSUME Undisturbed' PROVE attempts[a].items = paper
    <3>1. exam # "none"
      BY <1>1, <2>1, <2>3, UndisturbedStep DEF Undisturbed
    <3> QED BY <2>1, <3>1 DEF AttemptsWhole, OwnAttempt
  <2> QED BY <1>2, <2>1, <2>2, <2>3
<1>5. CASE ReadOne(v)
  <2>1. pc[v] = "read" /\ OwnAttempt(v)
    BY <1>1, <1>5 DEF ReadOne
  <2>2. Undisturbed' => /\ visit[v].views \cup visit[v].todo = attempts[a].items
                        /\ glitches' = glitches /\ bank = Questions
                        /\ glitches \in Nat
    BY <1>1, <2>1, UndisturbedStep DEF ViewsWhole, Undisturbed, TypeOK
  <2>3. CASE pc'[v] = "done" /\ visit[v].todo = {} /\ visit'[v] = visit[v]
    BY <1>2, <2>1, <2>2, <2>3
  <2>4. ASSUME NEW r \in visit[v].todo, pc'[v] = "read",
               visit'[v] = [visit[v] EXCEPT !.todo = @ \ {r}, !.views = @ \cup {r}]
        PROVE  Undisturbed' => visit'[v].views \cup visit'[v].todo
                                = attempts'[visit'[v].attempt].items
    <3>1. /\ visit'[v].todo = visit[v].todo \ {r}
          /\ visit'[v].views = visit[v].views \cup {r} /\ visit'[v].attempt = a
      BY <1>0, <2>4 DEF Visit
    <3>2. visit'[v].views \cup visit'[v].todo = visit[v].views \cup visit[v].todo
      BY <2>4, <3>1
    <3> QED BY <1>2, <2>1, <2>2, <3>1, <3>2
  <2>5. ASSUME NEW r \in visit[v].todo,
               glitches' = glitches + 1 \/ (r[2] \notin bank /\ glitches' = glitches)
        PROVE  ~Undisturbed'
    <3>1. r[2] \in Questions
      BY <1>0 DEF Visit, Rows
    <3>2. glitches \in Nat
      BY DEF TypeOK
    <3> QED BY <2>2, <2>5, <3>1, <3>2
  <2> QED BY <1>5, <2>3, <2>4, <2>5 DEF ReadOne
<1> QED BY <1>3, <1>4, <1>5, VisitCases
        DEF Entered, FoundOne, FoundNone, Prepared, CreatedOne, ExamThere

-----------------------------------------------------------------------------
(* The whole invariant.                                                    *)

ExamInv == /\ TypeOK
           /\ PaperInv
           /\ CloseSticks /\ Admitted /\ ClosedToNewStarts /\ ByBegun
           /\ StartReady /\ AttemptsWhole
           /\ LookedUp /\ DoubleOnlyByOverlap
           /\ PastSubmitted /\ VisitsOwn /\ NoViews /\ ViewsWhole

\* At the start only the creation may have run.
LEMMA ExamInvInit == Init => ExamInv
<1> SUFFICES ASSUME Init PROVE ExamInv
  OBVIOUS
<1>1. TypeOK /\ PaperInv
  BY TypeInit, PaperInit
<1>2. attempts = <<>> /\ DOMAIN attempts = {}
  BY DEF Init
<1>3. \A q \in Requests : q # Creator => pc[q] = "idle"
  BY DEF Init
<1>4. \A v \in Visits : pc[v] = "idle" /\ visit[v].past = {} /\ visit[v].views = {}
  <2>1. \A v \in Visits : visit[v].past = {} /\ visit[v].views = {}
    BY DEF Init
  <2> QED BY <1>3, <2>1, Kinds
<1>5. \A q \in Starts \cup Closes : pc[q] = "idle"
  BY <1>3, Kinds DEF Managers, Visits
<1>6. CloseSticks /\ Admitted /\ ClosedToNewStarts /\ ByBegun
  BY <1>2, <1>5 DEF CloseSticks, Admitted, ClosedToNewStarts, ByBegun
<1>7. StartReady /\ AttemptsWhole /\ LookedUp /\ DoubleOnlyByOverlap
  BY <1>2, <1>5 DEF StartReady, AttemptsWhole, LookedUp, DoubleOnlyByOverlap
<1>8. PastSubmitted /\ VisitsOwn /\ NoViews /\ ViewsWhole
  BY <1>4 DEF PastSubmitted, VisitsOwn, NoViews, ViewsWhole
<1> QED BY <1>1, <1>6, <1>7, <1>8 DEF ExamInv

\* Every step keeps it.
LEMMA ExamInvStep == ExamInv /\ [Next]_vars => ExamInv'
<1> SUFFICES ASSUME ExamInv, [Next]_vars PROVE ExamInv'
  OBVIOUS
<1> USE DEF ExamInv
<1>1. TypeOK' /\ PaperInv'
  BY TypeStep, PaperStep
<1>2. CloseSticks' /\ Admitted' /\ ClosedToNewStarts' /\ ByBegun'
  BY CloseStep, AdmittedStep, ClosedStep
<1>3. StartReady' /\ AttemptsWhole'
  BY WholeStep
<1>4. LookedUp' /\ DoubleOnlyByOverlap'
  BY DoubleStep DEF PaperInv
<1>5. PastSubmitted' /\ VisitsOwn' /\ NoViews' /\ ViewsWhole'
  BY PastStep, OwnAttemptStep, NoViewsStep, ViewsStep
<1> QED BY <1>1, <1>2, <1>3, <1>4, <1>5

\* It always holds.
LEMMA ExamInvariant == Spec => []ExamInv
BY ExamInvInit, ExamInvStep, PTL DEF Spec

\* A close that was answered stands unless a publication overlaps with it or
\* comes later, although both write back what they read before.
THEOREM ClosesStick == Spec => []CloseSticks
<1>1. ExamInv => CloseSticks
  BY DEF ExamInv
<1> QED BY <1>1, ExamInvariant, PTL

\* Attempts created after a close come from starts that began before it was
\* answered.
THEOREM ClosedForStarts == Spec => []ClosedToNewStarts
<1>1. ExamInv => ClosedToNewStarts
  BY DEF ExamInv
<1> QED BY <1>1, ExamInvariant, PTL

\* Attempts are of the whole paper, and what is served of one is whole and the
\* student's own, unless the exam or a question is gone or an error swallowed.
THEOREM AttemptsServedWhole == Spec => []ServedWhole
<1>1. ExamInv => ServedWhole
  BY DEF ExamInv, ServedWhole, VisitsOwn, OwnAttempt, ViewsWhole, Undisturbed
<1> QED BY <1>1, ExamInvariant, PTL

\* A student has two unfinished attempts only by starts that overlap.
THEOREM DoublesOverlap == Spec => []DoubleOnlyByOverlap
<1>1. ExamInv => DoubleOnlyByOverlap
  BY DEF ExamInv
<1> QED BY <1>1, ExamInvariant, PTL

\* What was submitted before a visit began is never served by it.
THEOREM SubmittedNotServed == Spec => []PastIsPast
<1>1. ExamInv => PastIsPast
  BY DEF ExamInv, VisitsOwn, OwnAttempt, PastIsPast
<1> QED BY <1>1, ExamInvariant, PTL
=============================================================================
