--------------------------- MODULE ExamTakeProofs ---------------------------
(***************************************************************************)
(* Theorems about ExamTake.tla, for any paper, and any number of edits,    *)
(* refreshes and lost messages.                                            *)
(***************************************************************************)
EXTENDS ExamTake, SequenceTheorems, TLAPS

USE PageAssumption DEF Saving, Submitting

-----------------------------------------------------------------------------
(* The attempts of the page and of the messages under way.                 *)

\* Messages about an attempt.
About == {"started", "event"} \cup Saving \cup Submitting

\* A start is that of the current load, which has not been answered yet; other
\* messages are about attempts that exist.
Posted ==
    \A m \in net :
        /\ m.kind = "start" =>
              /\ m.load = loads /\ phase = "loading" /\ Len(attempts) < loads
              /\ \A n \in net : n.kind = "started" => n.load # loads
        /\ m.kind = "started" => m.load <= loads
        /\ m.kind \in About => m.attempt \in DOMAIN attempts

\* A load creates one attempt at most; the page shows one that exists.
Paged == /\ Len(attempts) <= loads
         /\ phase = "taking" => attempt \in DOMAIN attempts

\* A student with one page has one attempt in progress.
OneUnfinished == \A i, j \in Unfinished : i = j

USE DEF About

PageInv == TypeOK /\ Posted /\ Paged /\ OneUnfinished

\* An attempt that exists is a row, and its number an id.
LEMMA AttemptRows ==
    ASSUME TypeOK
    PROVE  /\ Len(attempts) \in Nat /\ DOMAIN attempts = 1..Len(attempts)
           /\ DOMAIN attempts \subseteq Ids
           /\ \A i \in DOMAIN attempts : attempts[i] \in Row
<1>1. attempts \in Seq(Row) /\ Len(attempts) <= MaxLeaves + 1
  BY DEF TypeOK
<1>2. Len(attempts) \in Nat /\ DOMAIN attempts = 1..Len(attempts)
  BY <1>1, LenProperties
<1> QED BY <1>1, <1>2, ElementOfSeq DEF Ids

\* The fields of a message under way.
LEMMA MessageFields ==
    ASSUME TypeOK, NEW m \in net
    PROVE  /\ m.kind \in {"start", "answered"} \cup About
           /\ m.kind = "start" => m = [kind |-> "start", load |-> m.load] /\ m.load \in Nat
           /\ m.kind = "started" => m.load \in Nat /\ m.attempt \in Ids /\ m.answers \in Answers
           /\ m.kind \in Saving =>
                 /\ m.attempt \in Ids /\ m.q \in Questions /\ m.answer \in 0..MaxEdits
                 /\ m = [kind |-> m.kind, attempt |-> m.attempt, q |-> m.q, answer |-> m.answer]
           /\ m.kind \in Submitting => m.attempt \in Ids /\ m.load \in Nat
           /\ m.kind = "submit" => m = [kind |-> "submit", attempt |-> m.attempt, load |-> m.load]
           /\ m.kind = "grading" =>
                 /\ m.answers \in Answers /\ m.todo \subseteq Questions
                 /\ m = [kind |-> "grading", attempt |-> m.attempt, load |-> m.load,
                         answers |-> m.answers, todo |-> m.todo]
           /\ m.kind = "event" => m.attempt \in Ids
           /\ m.kind = "answered" => m.load \in Nat
<1>1. m \in Message
  BY DEF TypeOK
<1> QED BY <1>1 DEF Message

\* What a start is answered with is an attempt in progress, a new one if there
\* was none.
LEMMA ServeStartRow ==
    ASSUME PageInv, NEW m \in net, ServeStart(m)
    PROVE  /\ attempts' \in Seq(Row)
           /\ Len(attempts) <= Len(attempts') /\ Len(attempts') <= loads
           /\ \A i \in DOMAIN attempts : i \in DOMAIN attempts' /\ attempts'[i] = attempts[i]
           /\ \A i \in DOMAIN attempts' \ DOMAIN attempts :
                 attempts'[i].status = "in_progress" /\ attempts'[i].saved = Blank
           /\ OneUnfinished'
           /\ \E i \in DOMAIN attempts' :
                 net' = (net \ {m}) \cup {[kind |-> "started", load |-> m.load, attempt |-> i,
                                           answers |-> attempts'[i].saved]}
<1> DEFINE fresh == [status |-> "in_progress", saved |-> Blank, graded |-> Blank]
<1>1. attempts' = IF Unfinished = {} THEN Append(attempts, fresh) ELSE attempts
  BY DEF ServeStart
<1>2. /\ attempts \in Seq(Row) /\ Len(attempts) \in Nat /\ DOMAIN attempts = 1..Len(attempts)
      /\ Len(attempts) < loads /\ loads \in Nat
  BY AttemptRows DEF PageInv, Posted, ServeStart, TypeOK
<1>3. fresh \in Row
  BY DEF Row, Answers, Blank
<1> HIDE DEF fresh
<1>4. Unfinished = {} =>
         /\ attempts' \in Seq(Row) /\ Len(attempts') = Len(attempts) + 1
         /\ DOMAIN attempts' = 1..(Len(attempts) + 1)
         /\ \A i \in 1..Len(attempts) : attempts'[i] = attempts[i]
         /\ attempts'[Len(attempts) + 1] = fresh
  <2> SUFFICES ASSUME Unfinished = {}
               PROVE /\ attempts' \in Seq(Row) /\ Len(attempts') = Len(attempts) + 1
                     /\ DOMAIN attempts' = 1..(Len(attempts) + 1)
                     /\ \A i \in 1..Len(attempts) : attempts'[i] = attempts[i]
                     /\ attempts'[Len(attempts) + 1] = fresh
    OBVIOUS
  <2>1. attempts' = Append(attempts, fresh)
    BY <1>1
  <2>2. /\ Append(attempts, fresh) \in Seq(Row)
        /\ Len(Append(attempts, fresh)) = Len(attempts) + 1
        /\ \A i \in 1..Len(attempts) : Append(attempts, fresh)[i] = attempts[i]
        /\ Append(attempts, fresh)[Len(attempts) + 1] = fresh
    BY <1>2, <1>3, AppendProperties
  <2> QED BY <1>2, <2>1, <2>2, LenProperties
<1>5. fresh.status = "in_progress" /\ fresh.saved = Blank
  BY DEF fresh
<1>6. \E i \in DOMAIN attempts' :
         /\ attempts'[i].status = "in_progress"
         /\ \A j \in DOMAIN attempts' : j > i => attempts'[j].status # "in_progress"
  <2>1. CASE Unfinished = {}
    <3>1. \A j \in DOMAIN attempts' : ~(j > Len(attempts) + 1)
      BY <1>2, <1>4, <2>1
    <3> QED BY <1>2, <1>4, <1>5, <2>1, <3>1
  <2>2. CASE Unfinished # {}
    <3>1. PICK i \in Unfinished : TRUE
      BY <2>2
    <3>2. attempts' = attempts
      BY <1>1, <2>2
    <3>3. \A j \in DOMAIN attempts : j > i => attempts[j].status # "in_progress"
      BY <1>2, <3>1 DEF PageInv, OneUnfinished, Unfinished
    <3> QED BY <3>1, <3>2, <3>3 DEF Unfinished
  <2> QED BY <2>1, <2>2
<1>7. OneUnfinished'
  <2>1. CASE Unfinished = {}
    <3>1. \A j \in 1..Len(attempts) : attempts'[j].status # "in_progress"
      BY <1>2, <1>4, <2>1 DEF Unfinished
    <3>2. \A j \in Unfinished' : j \in 1..(Len(attempts) + 1) /\ j \notin 1..Len(attempts)
      BY <1>4, <2>1, <3>1 DEF Unfinished
    <3>3. \A j \in Unfinished' : j = Len(attempts) + 1
      BY <1>2, <3>2
    <3> QED BY <3>3 DEF OneUnfinished
  <2>2. CASE Unfinished # {}
    <3>1. attempts' = attempts
      BY <1>1, <2>2
    <3> QED BY <3>1 DEF PageInv, OneUnfinished, Unfinished
  <2> QED BY <2>1, <2>2
<1>8. \E i \in DOMAIN attempts' :
         net' = (net \ {m}) \cup {[kind |-> "started", load |-> m.load, attempt |-> i,
                                   answers |-> attempts'[i].saved]}
  <2> DEFINE j == CHOOSE i \in DOMAIN attempts' :
                    /\ attempts'[i].status = "in_progress"
                    /\ \A k \in DOMAIN attempts' : k > i => attempts'[k].status # "in_progress"
  <2>1. j \in DOMAIN attempts'
    BY <1>6
  <2>2. net' = (net \ {m}) \cup {[kind |-> "started", load |-> m.load, attempt |-> j,
                                   answers |-> attempts'[j].saved]}
    BY DEF ServeStart
  <2> QED BY <2>1, <2>2
<1> QED BY <1>1, <1>2, <1>4, <1>5, <1>7, <1>8

\* A step that adds no start, no attempt and no load, whose other messages are
\* about existing attempts, keeps the messages sound.
LEMMA PostedKept ==
    ASSUME Posted, Paged, NEW sent, net' \subseteq net \cup sent,
           \A m \in sent :
              /\ m.kind \notin {"start", "started"}
              /\ m.kind \in About => m.attempt \in DOMAIN attempts,
           DOMAIN attempts' = DOMAIN attempts, Len(attempts') = Len(attempts),
           loads' = loads, phase = "loading" => phase' = "loading",
           phase' = "taking" => phase = "taking" /\ attempt' = attempt
    PROVE  Posted' /\ Paged'
<1>1. Posted'
  <2> SUFFICES ASSUME NEW m \in net'
               PROVE  /\ m.kind = "start" =>
                            /\ m.load = loads' /\ phase' = "loading" /\ Len(attempts') < loads'
                            /\ \A n \in net' : n.kind = "started" => n.load # loads'
                      /\ m.kind = "started" => m.load <= loads'
                      /\ m.kind \in About =>
                            m.attempt \in DOMAIN attempts'
    BY DEF Posted
  <2>1. \A n \in net' : n.kind = "started" => n \in net
    OBVIOUS
  <2>2. CASE m \in net
    <3>1. /\ m.kind = "start" =>
                /\ m.load = loads /\ phase = "loading" /\ Len(attempts) < loads
                /\ \A n \in net : n.kind = "started" => n.load # loads
          /\ m.kind = "started" => m.load <= loads
          /\ m.kind \in About => m.attempt \in DOMAIN attempts
      BY <2>2 DEF Posted
    <3> QED BY <2>1, <3>1
  <2>3. CASE m \in sent
    BY <2>3
  <2> QED BY <2>2, <2>3
<1>2. Paged'
  BY DEF Paged
<1> QED BY <1>1, <1>2

\* Changing columns of a row of the attempts keeps the table.
LEMMA RowChanged ==
    ASSUME TypeOK, NEW i \in DOMAIN attempts, NEW row \in Row,
           attempts' = [attempts EXCEPT ![i] = row]
    PROVE  /\ attempts' \in Seq(Row) /\ Len(attempts') = Len(attempts)
           /\ DOMAIN attempts' = DOMAIN attempts
           /\ attempts'[i] = row
           /\ \A j \in DOMAIN attempts \ {i} : attempts'[j] = attempts[j]
<1>1. attempts \in Seq(Row) /\ DOMAIN attempts = 1..Len(attempts)
  BY AttemptRows DEF TypeOK
<1>2. /\ [attempts EXCEPT ![i] = row] \in Seq(Row)
      /\ Len([attempts EXCEPT ![i] = row]) = Len(attempts)
  BY <1>1, ExceptSeq
<1> QED BY <1>1, <1>2

\* The steps of the server and of failures, but the start.
Work(m) == \/ ServeEvent(m) \/ SaveCheck(m) \/ SaveWrite(m) \/ SubmitCheck(m)
           \/ SubmitRead(m) \/ GradeRow(m) \/ SubmitFinish(m) \/ Lose(m)

\* The next messages of a request: what a check and a reading let go on, and
\* the rows to write getting fewer.
LEMMA Onward ==
    ASSUME TypeOK, NEW m \in net
    PROVE  /\ m.kind = "save" =>
                 /\ [m EXCEPT !.kind = "saving"] \in Message
                 /\ [m EXCEPT !.kind = "saving"].kind = "saving"
                 /\ [m EXCEPT !.kind = "saving"].attempt = m.attempt
                 /\ [m EXCEPT !.kind = "saving"].q = m.q
                 /\ [m EXCEPT !.kind = "saving"].answer = m.answer
           /\ m.kind = "submit" =>
                 /\ [m EXCEPT !.kind = "submitting"] \in Message
                 /\ [m EXCEPT !.kind = "submitting"].kind = "submitting"
                 /\ [m EXCEPT !.kind = "submitting"].attempt = m.attempt
           /\ m.kind = "grading" =>
                 \A q \in m.todo :
                    /\ [m EXCEPT !.todo = @ \ {q}] \in Message
                    /\ [m EXCEPT !.todo = @ \ {q}].kind = "grading"
                    /\ [m EXCEPT !.todo = @ \ {q}].attempt = m.attempt
                    /\ [m EXCEPT !.todo = @ \ {q}].answers = m.answers
                    /\ [m EXCEPT !.todo = @ \ {q}].todo = m.todo \ {q}
           /\ m.kind \in Submitting => Answered(m) \in Message /\ Answered(m).kind = "answered"
<1>1. CASE m.kind = "save"
  <2>1. /\ m.attempt \in Ids /\ m.q \in Questions /\ m.answer \in 0..MaxEdits
        /\ m = [kind |-> "save", attempt |-> m.attempt, q |-> m.q, answer |-> m.answer]
    BY <1>1, MessageFields
  <2>2. [m EXCEPT !.kind = "saving"] =
           [kind |-> "saving", attempt |-> m.attempt, q |-> m.q, answer |-> m.answer]
    BY <2>1
  <2> QED BY <1>1, <2>1, <2>2 DEF Message
<1>2. CASE m.kind = "submit"
  <2>1. /\ m.attempt \in Ids /\ m.load \in Nat
        /\ m = [kind |-> "submit", attempt |-> m.attempt, load |-> m.load]
    BY <1>2, MessageFields
  <2>2. [m EXCEPT !.kind = "submitting"] =
           [kind |-> "submitting", attempt |-> m.attempt, load |-> m.load]
    BY <2>1
  <2>3. Answered(m) \in Message /\ Answered(m).kind = "answered"
    BY <2>1 DEF Answered, Message
  <2> QED BY <1>2, <2>1, <2>2, <2>3 DEF Message
<1>3. CASE m.kind = "submitting"
  <2>1. m.load \in Nat
    BY <1>3, MessageFields
  <2> QED BY <1>3, <2>1 DEF Answered, Message
<1>4. CASE m.kind = "grading"
  <2>1. /\ m.attempt \in Ids /\ m.load \in Nat
        /\ m.answers \in Answers /\ m.todo \subseteq Questions
        /\ m = [kind |-> "grading", attempt |-> m.attempt, load |-> m.load,
                answers |-> m.answers, todo |-> m.todo]
    BY <1>4, MessageFields
  <2>2. ASSUME NEW q \in m.todo
        PROVE  /\ [m EXCEPT !.todo = @ \ {q}] \in Message
               /\ [m EXCEPT !.todo = @ \ {q}].kind = "grading"
               /\ [m EXCEPT !.todo = @ \ {q}].attempt = m.attempt
               /\ [m EXCEPT !.todo = @ \ {q}].answers = m.answers
               /\ [m EXCEPT !.todo = @ \ {q}].todo = m.todo \ {q}
    <3>1. [m EXCEPT !.todo = @ \ {q}] =
             [kind |-> "grading", attempt |-> m.attempt, load |-> m.load,
              answers |-> m.answers, todo |-> m.todo \ {q}]
      BY <2>1
    <3>2. m.todo \ {q} \in SUBSET Questions
      BY <2>1
    <3> QED BY <2>1, <3>1, <3>2 DEF Message
  <2>3. Answered(m) \in Message /\ Answered(m).kind = "answered"
    BY <2>1 DEF Answered, Message
  <2> QED BY <1>4, <2>2, <2>3
<1> QED BY <1>1, <1>2, <1>3, <1>4

\* A request goes on, is answered or is gone; nothing else of the messages and
\* of the page changes.
LEMMA WorkNet ==
    ASSUME TypeOK, Posted, NEW m \in net, Work(m)
    PROVE  /\ \A n \in net' : n \in net \/ n \in Message
           /\ \A n \in net' \ net :
                 \/ n.kind = "answered"
                 \/ /\ n.kind \in {"saving", "submitting", "grading"} /\ n.attempt = m.attempt
                    /\ n.kind = "saving" <=> m.kind \in Saving
                    /\ m.kind \in Saving \cup Submitting
           /\ net \ {m} \subseteq net'
           /\ UNCHANGED <<late, phase, attempt, shown, typing, loads, edits, final>>
           /\ failures' \in 0..MaxFailures /\ careful' \subseteq careful
<1> USE DEF server, counters, paper
<1>0. failures \in 0..MaxFailures
  BY DEF TypeOK
<1>1. CASE ServeEvent(m)
  BY <1>0, <1>1 DEF ServeEvent
<1>2. CASE SaveCheck(m)
  <2> DEFINE n == [m EXCEPT !.kind = "saving"]
  <2>1. m.kind = "save" /\ (net' = (net \ {m}) \cup {n} \/ net' = net \ {m})
    BY <1>2 DEF SaveCheck
  <2>2. n \in Message /\ n.kind = "saving" /\ n.attempt = m.attempt
    BY <2>1, Onward
  <2>3. /\ UNCHANGED <<late, phase, attempt, shown, typing, loads, edits, final, failures>>
        /\ careful' \subseteq careful
    BY <1>2 DEF SaveCheck
  <2> HIDE DEF n
  <2> QED BY <1>0, <2>1, <2>2, <2>3
<1>3. CASE SaveWrite(m)
  BY <1>0, <1>3 DEF SaveWrite
<1>4. CASE SubmitCheck(m)
  <2>1. PICK n : /\ n \in {[m EXCEPT !.kind = "submitting"], Answered(m)}
                 /\ net' = (net \ {m}) \cup {n}
    BY <1>4 DEF SubmitCheck
  <2>2. m.kind = "submit"
    BY <1>4 DEF SubmitCheck
  <2>3. /\ Answered(m) \in Message /\ Answered(m).kind = "answered"
        /\ [m EXCEPT !.kind = "submitting"] \in Message
        /\ [m EXCEPT !.kind = "submitting"].kind = "submitting"
        /\ [m EXCEPT !.kind = "submitting"].attempt = m.attempt
    BY <2>2, Onward
  <2>4. n \in Message /\ (n.kind = "answered" \/ (n.kind = "submitting" /\ n.attempt = m.attempt))
    BY <2>1, <2>3, Zenon
  <2> QED BY <1>0, <1>4, <2>1, <2>2, <2>4 DEF SubmitCheck
<1>5. CASE SubmitRead(m)
  <2> DEFINE n == [kind |-> "grading", attempt |-> m.attempt, load |-> m.load,
                   answers |-> attempts[m.attempt].saved, todo |-> Questions]
  <2>1. attempts[m.attempt].saved \in Answers
    BY <1>5, AttemptRows DEF SubmitRead, Posted, Row
  <2>2. n \in Message
    BY <1>5, <2>1, MessageFields DEF SubmitRead, Message
  <2> QED BY <1>0, <1>5, <2>2 DEF SubmitRead
<1>6. CASE GradeRow(m)
  <2>1. PICK q \in m.todo : net' = (net \ {m}) \cup {[m EXCEPT !.todo = @ \ {q}]}
    BY <1>6 DEF GradeRow
  <2>2. m.kind = "grading"
    BY <1>6 DEF GradeRow
  <2> DEFINE n == [m EXCEPT !.todo = @ \ {q}]
  <2>3. n \in Message /\ n.kind = "grading" /\ n.attempt = m.attempt
    BY <2>2, Onward
  <2>4. net' = (net \ {m}) \cup {n}
    BY <2>1
  <2> HIDE DEF n
  <2> QED BY <1>0, <1>6, <2>2, <2>3, <2>4 DEF GradeRow
<1>7. CASE SubmitFinish(m)
  BY <1>0, <1>7, Onward DEF SubmitFinish
<1>8. CASE Lose(m)
  <2>1. failures' \in 0..MaxFailures
    BY <1>0, <1>8 DEF Lose, FailMessage, Timeout, MissRow, Fail
  <2>2. CASE FailMessage(m)
    BY <2>1, <2>2, Onward DEF FailMessage, Fail
  <2>3. CASE Timeout(m)
    BY <2>1, <2>3, Onward DEF Timeout, Fail
  <2>4. CASE MissRow(m)
    <3>1. PICK q \in m.todo : net' = (net \ {m}) \cup {[m EXCEPT !.todo = @ \ {q}]}
      BY <2>4 DEF MissRow
    <3>2. m.kind = "grading"
      BY <2>4 DEF MissRow
    <3> DEFINE n == [m EXCEPT !.todo = @ \ {q}]
    <3>3. n \in Message /\ n.kind = "grading" /\ n.attempt = m.attempt
      BY <3>2, Onward
    <3>4. net' = (net \ {m}) \cup {n}
      BY <3>1
    <3> HIDE DEF n
    <3> QED BY <2>1, <2>4, <3>2, <3>3, <3>4 DEF MissRow, Fail
  <2> QED BY <1>8, <2>2, <2>3, <2>4 DEF Lose
<1> QED BY <1>1, <1>2, <1>3, <1>4, <1>5, <1>6, <1>7, <1>8 DEF Work

\* What the steps of a request do to the attempts.
LEMMA WorkRow ==
    ASSUME TypeOK, Posted, NEW m \in net, Work(m)
    PROVE  /\ attempts' \in Seq(Row) /\ Len(attempts') = Len(attempts)
           /\ DOMAIN attempts' = DOMAIN attempts
           /\ \A i \in DOMAIN attempts :
                 /\ m.kind \notin {"saving", "grading"} \/ i # m.attempt =>
                       attempts'[i] = attempts[i]
                 /\ attempts'[i].status = "in_progress" => attempts[i].status = "in_progress"
                 /\ attempts[i].status = "submitted" => attempts'[i].status = "submitted"
           /\ SaveWrite(m) =>
                 /\ attempts'[m.attempt].status = attempts[m.attempt].status
                 /\ attempts'[m.attempt].saved = [attempts[m.attempt].saved EXCEPT ![m.q] = m.answer]
           /\ SubmitFinish(m) =>
                 /\ attempts'[m.attempt].saved = attempts[m.attempt].saved
                 /\ attempts'[m.attempt].graded = attempts[m.attempt].graded
<1> DEFINE i == m.attempt
           r == attempts[i]
<1> USE DEF server, counters, paper
<1>1. attempts \in Seq(Row)
  BY DEF TypeOK
<1>2. ASSUME m.kind \in {"saving", "grading"} PROVE i \in DOMAIN attempts /\ r \in Row
  BY <1>2, AttemptRows DEF Posted
<1>3. CASE attempts' = attempts
  <2>1. SaveWrite(m) =>
           /\ attempts'[i].status = r.status
           /\ attempts'[i].saved = [r.saved EXCEPT ![m.q] = m.answer]
    <3> SUFFICES ASSUME SaveWrite(m)
                 PROVE  attempts'[i].saved = [r.saved EXCEPT ![m.q] = m.answer]
      BY <1>3
    <3>1. /\ m.kind = "saving" /\ m.q \in Questions
          /\ attempts' = [attempts EXCEPT ![i].saved[m.q] = m.answer, ![i].graded[m.q] = 0]
      BY MessageFields DEF SaveWrite
    <3>2. i \in DOMAIN attempts /\ r \in Row
      BY <1>2, <3>1
    <3> QED BY <1>3, <3>1, <3>2 DEF Row
  <2> QED BY <1>1, <1>3, <2>1
<1>4. CASE SaveWrite(m)
  <2>1. /\ m.kind = "saving" /\ m.q \in Questions /\ m.answer \in 0..MaxEdits
        /\ attempts' = [attempts EXCEPT ![i].saved[m.q] = m.answer, ![i].graded[m.q] = 0]
    BY <1>4, MessageFields DEF SaveWrite
  <2>2. i \in DOMAIN attempts /\ r \in Row
    BY <1>2, <2>1
  <2> DEFINE row == [r EXCEPT !.saved[m.q] = m.answer, !.graded[m.q] = 0]
  <2>3. /\ row \in Row /\ row.status = r.status
        /\ row.saved = [r.saved EXCEPT ![m.q] = m.answer]
    BY <2>1, <2>2 DEF Row, Answers
  <2>4. attempts' = [attempts EXCEPT ![i] = row]
    BY <2>1, <2>2
  <2> HIDE DEF row
  <2>5. /\ attempts' \in Seq(Row) /\ Len(attempts') = Len(attempts)
        /\ DOMAIN attempts' = DOMAIN attempts
        /\ attempts'[i] = row
        /\ \A j \in DOMAIN attempts \ {i} : attempts'[j] = attempts[j]
    BY <2>2, <2>3, <2>4, RowChanged
  <2>6. ~SubmitFinish(m)
    BY <2>1 DEF SubmitFinish
  <2> QED BY <2>1, <2>3, <2>5, <2>6
<1>5. CASE GradeRow(m)
  <2>1. PICK q \in m.todo :
           attempts' = [attempts EXCEPT ![i].saved[q] = m.answers[q], ![i].graded[q] = m.answers[q]]
    BY <1>5 DEF GradeRow
  <2>2. m.kind = "grading" /\ m.answers \in Answers /\ q \in Questions
    BY <1>5, <2>1, MessageFields DEF GradeRow
  <2>3. i \in DOMAIN attempts /\ r \in Row /\ m.answers[q] \in 0..MaxEdits
    BY <1>2, <2>2 DEF Answers
  <2> DEFINE row == [r EXCEPT !.saved[q] = m.answers[q], !.graded[q] = m.answers[q]]
  <2>4. row \in Row /\ row.status = r.status
    BY <2>2, <2>3 DEF Row, Answers
  <2>5. attempts' = [attempts EXCEPT ![i] = row]
    BY <2>1, <2>3
  <2> HIDE DEF row
  <2>6. /\ attempts' \in Seq(Row) /\ Len(attempts') = Len(attempts)
        /\ DOMAIN attempts' = DOMAIN attempts
        /\ attempts'[i] = row
        /\ \A j \in DOMAIN attempts \ {i} : attempts'[j] = attempts[j]
    BY <2>3, <2>4, <2>5, RowChanged
  <2>7. ~SaveWrite(m) /\ ~SubmitFinish(m)
    BY <2>1, <2>2 DEF SaveWrite, SubmitFinish
  <2> QED BY <2>2, <2>4, <2>6, <2>7
<1>6. CASE SubmitFinish(m)
  <2>1. /\ m.kind = "grading"
        /\ attempts' = [attempts EXCEPT ![i].status = "submitted"]
    BY <1>6 DEF SubmitFinish
  <2>2. i \in DOMAIN attempts /\ r \in Row
    BY <1>2, <2>1
  <2> DEFINE row == [r EXCEPT !.status = "submitted"]
  <2>3. row \in Row /\ row.status = "submitted" /\ row.saved = r.saved /\ row.graded = r.graded
    BY <2>2 DEF Row
  <2>4. attempts' = [attempts EXCEPT ![i] = row]
    BY <2>1, <2>2
  <2> HIDE DEF row
  <2>5. /\ attempts' \in Seq(Row) /\ Len(attempts') = Len(attempts)
        /\ DOMAIN attempts' = DOMAIN attempts
        /\ attempts'[i] = row
        /\ \A j \in DOMAIN attempts \ {i} : attempts'[j] = attempts[j]
    BY <2>2, <2>3, <2>4, RowChanged
  <2>6. ~SaveWrite(m)
    BY <2>1 DEF SaveWrite
  <2> QED BY <2>1, <2>3, <2>5, <2>6
<1>7. ServeEvent(m) \/ SaveCheck(m) \/ SubmitCheck(m) \/ SubmitRead(m) \/ Lose(m) =>
         attempts' = attempts
  BY DEF ServeEvent, SaveCheck, SubmitCheck, SubmitRead, Lose, FailMessage, Timeout, MissRow, Fail
<1> QED BY <1>3, <1>4, <1>5, <1>6, <1>7 DEF Work

\* The page's steps send messages about its attempt and keep the types.
LEMMA PageTypes ==
    ASSUME PageInv, Page \/ ByTimer
    PROVE  TypeOK'
<1> USE DEF PageInv, server, counters
<1>1. ASSUME NEW q \in Questions, Edit(q) PROVE TypeOK'
  BY <1>1 DEF TypeOK, Edit, Answers
<1>2. ASSUME NEW q \in Questions, Change(q) PROVE TypeOK'
  <2> DEFINE m == [kind |-> "save", attempt |-> attempt, q |-> q, answer |-> shown[q]]
  <2>1. attempt \in Ids
    BY <1>2, AttemptRows DEF Change, Paged
  <2>2. m \in Message
    BY <2>1 DEF TypeOK, Answers, Message
  <2> QED BY <1>2, <2>2 DEF TypeOK, Change
<1>3. CASE DoSubmit
  <2>1. attempt \in Ids
    BY <1>3, AttemptRows DEF DoSubmit, Paged
  <2>2. SubmitOf(attempt) \in Message
    BY <2>1 DEF TypeOK, SubmitOf, Message, Ids
  <2> QED BY <1>3, <2>1, <2>2 DEF TypeOK, DoSubmit
<1>5. CASE Reopen
  <2>1. [kind |-> "start", load |-> loads + 1] \in Message /\ loads' \in 1..(MaxLeaves + 1)
    BY <1>5 DEF Reopen, TypeOK, Message
  <2> QED BY <1>5, <2>1 DEF Reopen, TypeOK, Answers, Blank
<1>6. CASE Unload
  <2>1. attempt \in Ids
    BY <1>6, AttemptRows DEF Unload, Paged
  <2>2. SubmitOf(attempt) \in Message /\ [kind |-> "start", load |-> loads + 1] \in Message
    BY <2>1 DEF TypeOK, SubmitOf, Message, Ids
  <2>4. EventOf(attempt) \in Message
    BY <2>1 DEF TypeOK, EventOf, Message, Ids
  <2>5. net' \subseteq Message
    BY <1>6, <2>2, <2>4 DEF Unload, TypeOK
  <2>6. loads' \in 1..(MaxLeaves + 1)
    BY <1>6 DEF Unload, TypeOK
  <2>7. final' \in [Ids -> Answers] /\ shown' \in Answers
    BY <1>6, <2>1 DEF Unload, TypeOK, Answers, Blank
  <2> QED BY <1>6, <2>5, <2>6, <2>7 DEF TypeOK, Unload
<1>7. CASE Navigate
  BY <1>7 DEF TypeOK, Navigate
<1> QED BY <1>1, <1>2, <1>3, <1>5, <1>6, <1>7 DEF Page, ByButton, ByTimer

\* So do the server's, the network's and the clock's.
LEMMA ServerTypes ==
    ASSUME PageInv,
           \/ \E m \in net : Serve(m) \/ Load(m) \/ Refuse(m) \/ Leave(m) \/ Lose(m)
           \/ \E i \in Ids : Deadline(i)
    PROVE  TypeOK'
<1> USE DEF PageInv, server, counters, paper
<1>1. ASSUME NEW m \in net, Load(m) PROVE TypeOK'
  BY <1>1, MessageFields DEF Load, TypeOK
<1>2. ASSUME NEW m \in net, Leave(m) \/ Refuse(m) PROVE TypeOK'
  BY <1>2 DEF Leave, Refuse, TypeOK
<1>3. ASSUME NEW m \in net, ServeStart(m) PROVE TypeOK'
  <2>1. /\ attempts' \in Seq(Row) /\ Len(attempts') <= loads
        /\ \E i \in DOMAIN attempts' :
              net' = (net \ {m}) \cup {[kind |-> "started", load |-> m.load, attempt |-> i,
                                        answers |-> attempts'[i].saved]}
    BY <1>3, ServeStartRow
  <2>2. PICK i \in DOMAIN attempts' :
              net' = (net \ {m}) \cup {[kind |-> "started", load |-> m.load, attempt |-> i,
                                        answers |-> attempts'[i].saved]}
    BY <2>1
  <2>3. Len(attempts') <= MaxLeaves + 1
    BY <2>1, LenProperties DEF TypeOK
  <2>4. i \in Ids /\ attempts'[i] \in Row /\ attempts'[i].saved \in Answers
    <3>1. i \in 1..Len(attempts') /\ Len(attempts') \in Nat
      BY <2>1, LenProperties
    <3>2. i \in Ids
      BY <2>3, <3>1 DEF Ids
    <3>3. attempts'[i] \in Row
      BY <2>1, <3>1, ElementOfSeq
    <3> QED BY <3>2, <3>3 DEF Row
  <2>5. m.load \in Nat
    BY <1>3, MessageFields DEF ServeStart
  <2>6. net' \subseteq Message
    BY <2>2, <2>4, <2>5 DEF Message, TypeOK
  <2> QED BY <1>3, <2>1, <2>3, <2>6 DEF ServeStart, TypeOK
<1>4. ASSUME NEW m \in net, Work(m) PROVE TypeOK'
  <2>1. /\ attempts' \in Seq(Row) /\ Len(attempts') = Len(attempts)
        /\ DOMAIN attempts' = DOMAIN attempts
    BY <1>4, WorkRow
  <2>2. /\ net' \subseteq Message
        /\ UNCHANGED <<late, phase, attempt, shown, typing, loads, edits, final>>
        /\ failures' \in 0..MaxFailures /\ careful' \subseteq careful
    BY <1>4, WorkNet DEF TypeOK
  <2> QED BY <2>1, <2>2 DEF TypeOK
<1>8. ASSUME NEW i \in Ids, Deadline(i) PROVE TypeOK'
  BY <1>8 DEF Deadline, TypeOK
<1> QED BY <1>1, <1>2, <1>3, <1>4, <1>8 DEF Serve, Work

\* Every step keeps types, messages and attempts sound.
LEMMA PageStep == PageInv /\ [Next]_vars => PageInv'
<1> SUFFICES ASSUME PageInv, [Next]_vars PROVE PageInv'
  OBVIOUS
<1>0. TypeOK /\ Posted /\ Paged /\ OneUnfinished
  BY DEF PageInv
<1> USE DEF server, counters, paper
<1>1. TypeOK'
  <2>1. CASE UNCHANGED vars
    BY <1>0, <2>1 DEF vars, TypeOK
  <2> QED BY <2>1, PageTypes, ServerTypes DEF Next
<1>2. ASSUME NEW q \in Questions, Change(q) PROVE PageInv'
  <2> DEFINE sent == {[kind |-> "save", attempt |-> attempt, q |-> q, answer |-> shown[q]]}
  <2>1. /\ net' = net \cup sent
        /\ UNCHANGED <<attempts, loads, phase, attempt>> /\ phase = "taking"
    BY <1>2 DEF Change
  <2>2. \A m \in sent : m.kind = "save" /\ m.attempt \in DOMAIN attempts
    BY <1>0, <2>1 DEF Paged
  <2> HIDE DEF sent
  <2>3. Posted' /\ Paged'
    BY <1>0, <2>1, <2>2, PostedKept
  <2> QED BY <1>0, <1>1, <2>1, <2>3 DEF PageInv, OneUnfinished, Unfinished
<1>3. CASE DoSubmit
  <2> DEFINE sent == {SubmitOf(attempt)}
  <2>1. /\ net' = net \cup sent /\ phase = "taking" /\ phase' = "leaving"
        /\ UNCHANGED <<attempts, loads, attempt>>
    BY <1>3 DEF DoSubmit
  <2>2. \A m \in sent : m.kind = "submit" /\ m.attempt \in DOMAIN attempts
    BY <1>0, <2>1 DEF Paged, SubmitOf
  <2> HIDE DEF sent
  <2>3. Posted' /\ Paged'
    BY <1>0, <2>1, <2>2, PostedKept
  <2> QED BY <1>0, <1>1, <2>1, <2>3 DEF PageInv, OneUnfinished, Unfinished
<1>5. CASE Unload \/ Reopen
  <2> DEFINE start == [kind |-> "start", load |-> loads + 1]
             sent == IF Unload THEN {SubmitOf(attempt), EventOf(attempt)} ELSE {}
  <2>1. /\ net' = (net \cup {start}) \cup sent /\ phase # "loading" /\ phase' = "loading"
        /\ loads' = loads + 1 /\ attempts' = attempts
    BY <1>5 DEF Unload, Reopen
  <2>2. \A m \in sent : m.kind \in {"submit", "event"} /\ m.attempt \in DOMAIN attempts
    BY <1>0, <2>1 DEF Unload, Paged, SubmitOf, EventOf
  <2>3. start.kind = "start" /\ start.load = loads + 1
    OBVIOUS
  <2> HIDE DEF sent, start
  <2>4. loads \in Nat /\ Len(attempts) \in Nat /\ Len(attempts) <= loads
    BY <1>0, AttemptRows DEF TypeOK, Paged
  <2>5. ASSUME NEW m \in net'
        PROVE  /\ m.kind = "start" =>
                     /\ m.load = loads' /\ phase' = "loading" /\ Len(attempts') < loads'
                     /\ \A n \in net' : n.kind = "started" => n.load # loads'
               /\ m.kind = "started" => m.load <= loads'
               /\ m.kind \in About =>
                     m.attempt \in DOMAIN attempts'
    <3>1. \A n \in net' : n.kind = "started" => n \in net /\ n.load <= loads /\ n.load \in Nat
      BY <1>0, <2>1, <2>2, <2>3, MessageFields DEF Posted
    <3>2. m.kind = "start" => m = start
      BY <1>0, <2>1, <2>2 DEF Posted
    <3>3. m.kind = "start" => m.load = loads'
      BY <2>1, <2>3, <3>2
    <3>4. \A n \in net' : n.kind = "started" => n.load # loads' /\ n.load <= loads'
      BY <2>1, <2>4, <3>1
    <3>5. m.kind \in About => m.attempt \in DOMAIN attempts'
      BY <1>0, <2>1, <2>2, <2>3 DEF Posted
    <3>6. Len(attempts') < loads'
      BY <2>1, <2>4
    <3> QED BY <2>1, <3>3, <3>4, <3>5, <3>6
  <2>6. Posted' /\ Paged'
    BY <2>1, <2>4, <2>5 DEF Posted, Paged
  <2> QED BY <1>0, <1>1, <2>1, <2>6 DEF PageInv, OneUnfinished, Unfinished
<1>6. ASSUME NEW m \in net, Load(m) PROVE PageInv'
  <2>1. /\ m.kind = "started" /\ m.load = loads /\ net' \subseteq net
        /\ phase' = "taking" /\ attempt' = m.attempt /\ UNCHANGED <<attempts, loads>>
    BY <1>6 DEF Load
  <2>2. \A n \in net : n.kind # "start"
    BY <1>0, <2>1 DEF Posted
  <2>3. Posted'
    BY <1>0, <2>1, <2>2 DEF Posted
  <2>4. Paged'
    BY <1>0, <2>1 DEF Paged, Posted
  <2> QED BY <1>0, <1>1, <2>1, <2>3, <2>4 DEF PageInv, OneUnfinished, Unfinished
<1>7. ASSUME NEW m \in net, ServeStart(m) PROVE PageInv'
  <2>1. /\ attempts' \in Seq(Row)
        /\ Len(attempts) <= Len(attempts') /\ Len(attempts') <= loads
        /\ \A i \in DOMAIN attempts : i \in DOMAIN attempts'
        /\ OneUnfinished'
        /\ \E i \in DOMAIN attempts' :
              net' = (net \ {m}) \cup {[kind |-> "started", load |-> m.load, attempt |-> i,
                                        answers |-> attempts'[i].saved]}
    BY <1>7, ServeStartRow
  <2>2. PICK i \in DOMAIN attempts' :
              net' = (net \ {m}) \cup {[kind |-> "started", load |-> m.load, attempt |-> i,
                                        answers |-> attempts'[i].saved]}
    BY <2>1
  <2>3. /\ m.kind = "start" /\ m.load = loads /\ UNCHANGED <<phase, attempt, loads>>
        /\ phase = "loading" /\ loads \in Nat
    BY <1>0, <1>7 DEF ServeStart, Posted, TypeOK
  <2>4. \A n \in net : n.kind = "start" => n = m
    <3>1. \A n \in net : n.kind = "start" => n = [kind |-> "start", load |-> loads]
      BY <1>0, MessageFields DEF Posted
    <3> QED BY <2>3, <3>1
  <2>5. ASSUME NEW n \in net'
        PROVE  /\ n.kind # "start"
               /\ n.kind = "started" => n.load <= loads'
               /\ n.kind \in About =>
                     n.attempt \in DOMAIN attempts'
    <3>1. CASE n \in net /\ n # m
      BY <1>0, <2>1, <2>3, <2>4, <3>1 DEF Posted
    <3>2. CASE n = [kind |-> "started", load |-> m.load, attempt |-> i,
                    answers |-> attempts'[i].saved]
      BY <2>3, <3>2
    <3> QED BY <2>2, <3>1, <3>2
  <2>6. Posted'
    BY <2>5 DEF Posted
  <2>7. Paged'
    BY <2>1, <2>3 DEF Paged
  <2> QED BY <1>1, <2>1, <2>6, <2>7 DEF PageInv
<1>8. ASSUME NEW m \in net, Work(m) PROVE PageInv'
  <2>1. /\ Len(attempts') = Len(attempts) /\ DOMAIN attempts' = DOMAIN attempts
        /\ \A i \in DOMAIN attempts :
              attempts'[i].status = "in_progress" => attempts[i].status = "in_progress"
    BY <1>0, <1>8, WorkRow
  <2> DEFINE sent == net' \ net
  <2>2. net' \subseteq net \cup sent /\ UNCHANGED <<loads, phase, attempt>>
    BY <1>0, <1>8, WorkNet
  <2>3. \A n \in sent :
           /\ n.kind \notin {"start", "started"}
           /\ n.kind \in About => n.attempt \in DOMAIN attempts
    <3>1. \A n \in sent :
             \/ n.kind = "answered"
             \/ /\ n.kind \in {"saving", "submitting", "grading"} /\ n.attempt = m.attempt
                /\ m.kind \in Saving \cup Submitting
      BY <1>0, <1>8, WorkNet
    <3> QED BY <1>0, <3>1 DEF Posted
  <2> HIDE DEF sent
  <2>4. Posted' /\ Paged'
    BY <1>0, <2>1, <2>2, <2>3, PostedKept
  <2>5. OneUnfinished'
    BY <1>0, <2>1 DEF OneUnfinished, Unfinished
  <2> QED BY <1>1, <2>4, <2>5 DEF PageInv
<1>9. ASSUME NEW m \in net, Refuse(m) PROVE PageInv'
  <2>1. /\ m.kind \in {"start", "started"} /\ m.load = loads /\ net' = net \ {m}
        /\ phase' = "away" /\ UNCHANGED <<attempts, loads, attempt>>
    BY <1>9 DEF Refuse
  <2>2. \A n \in net' : n.kind # "start"
    <3>1. \A n \in net : n.kind = "start" => n = [kind |-> "start", load |-> loads]
      BY <1>0, MessageFields DEF Posted
    <3>2. m.kind = "started" => \A n \in net : n.kind # "start"
      BY <1>0, <2>1 DEF Posted
    <3> QED BY <2>1, <3>1, <3>2
  <2>3. Posted' /\ Paged'
    BY <1>0, <2>1, <2>2 DEF Posted, Paged
  <2> QED BY <1>0, <1>1, <2>1, <2>3 DEF PageInv, OneUnfinished, Unfinished
<1>10. ASSUME net' \subseteq net, UNCHANGED <<attempts, loads, attempt>>,
              phase' = phase \/ (phase # "loading" /\ phase' \notin {"loading", "taking"})
       PROVE  PageInv'
  <2> DEFINE sent == {}
  <2>1. net' \subseteq net \cup sent /\ \A n \in sent : FALSE
    BY <1>10
  <2> HIDE DEF sent
  <2>2. Posted' /\ Paged'
    BY <1>0, <1>10, <2>1, PostedKept
  <2> QED BY <1>0, <1>1, <1>10, <2>2 DEF PageInv, OneUnfinished, Unfinished
<1>11. ASSUME NEW m \in net, Leave(m) PROVE PageInv'
  BY <1>10, <1>11 DEF Leave
<1>12. ASSUME \/ UNCHANGED vars \/ Navigate \/ (\E i \in Ids : Deadline(i))
              \/ (\E q \in Questions : Edit(q))
       PROVE  PageInv'
  <2>1. /\ net' = net /\ UNCHANGED <<attempts, loads, attempt>>
        /\ phase' = phase \/ (phase # "loading" /\ phase' \notin {"loading", "taking"})
    BY <1>12 DEF vars, Navigate, Deadline, Edit
  <2> QED BY <1>10, <2>1
<1> QED BY <1>2, <1>3, <1>5, <1>6, <1>7, <1>8, <1>9, <1>11, <1>12
        DEF Next, Page, ByButton, ByTimer, Serve, Work

\* At the start the page asks for its paper.
LEMMA PageInit == Init => PageInv
<1> SUFFICES ASSUME Init PROVE PageInv
  OBVIOUS
<1>1. /\ <<>> \in Seq(Row) /\ Len(<<>>) = 0 /\ DOMAIN <<>> = {}
  OBVIOUS
<1>2. [kind |-> "start", load |-> 1] \in Message
  BY DEF Message
<1>3. Blank \in Answers /\ 1 \in 1..(MaxLeaves + 1) /\ Ids \subseteq Ids
  BY DEF Blank, Answers
<1>4. TypeOK
  BY <1>1, <1>2, <1>3 DEF Init, TypeOK
<1>5. Posted /\ Paged /\ OneUnfinished
  BY <1>1 DEF Init, Posted, Paged, OneUnfinished, Unfinished
<1> QED BY <1>4, <1>5 DEF PageInv

\* The variables of ExamTake always have their types: no page creates more
\* attempts than it was loaded.
THEOREM TypeCorrect == Spec => []TypeOK
<1>1. PageInv => TypeOK
  BY DEF PageInv
<1> QED BY <1>1, PageInit, PageStep, PTL DEF Spec

\* The page, the network and the clock do not touch the attempts.
LEMMA AttemptsFrame ==
    ASSUME [Next]_vars, \A m \in net : ~ServeStart(m) /\ ~Work(m)
    PROVE  attempts' = attempts
<1> USE DEF server, counters, paper
<1>1. CASE Page \/ ByTimer
  BY <1>1 DEF Page, ByButton, ByTimer, DoSubmit, Unload, Reopen, Navigate, Edit, Change
<1>2. CASE \E m \in net : Serve(m) \/ Load(m) \/ Refuse(m) \/ Leave(m) \/ Lose(m)
  BY <1>2 DEF Serve, Work, Load, Refuse, Leave
<1>3. CASE \E i \in Ids : Deadline(i)
  BY <1>3 DEF Deadline
<1>4. CASE UNCHANGED vars
  BY <1>4 DEF vars
<1> QED BY <1>1, <1>2, <1>3, <1>4 DEF Next

\* Nor do they send a request past its check.
LEMMA RequestsFrame ==
    ASSUME [Next]_vars, \A m \in net : ~Work(m),
           NEW n \in net', n.kind \in {"saving", "submitting", "grading"}
    PROVE  n \in net
<1> USE DEF server, counters, paper
<1>1. CASE Page \/ ByTimer
  BY <1>1 DEF Page, ByButton, ByTimer, DoSubmit, Unload, Reopen, Navigate, Edit, Change,
              SubmitOf, EventOf
<1>2. CASE \E m \in net : Serve(m) \/ Load(m) \/ Refuse(m) \/ Leave(m) \/ Lose(m)
  BY <1>2 DEF Serve, ServeStart, Work, Load, Refuse, Leave
<1>3. CASE \E i \in Ids : Deadline(i)
  BY <1>3 DEF Deadline
<1>4. CASE UNCHANGED vars
  BY <1>4 DEF vars
<1> QED BY <1>1, <1>2, <1>3, <1>4 DEF Next

\* A step of a request leaves an attempt settled: a save and a submission are
\* refused by their checks.
LEMMA SettledWork ==
    ASSUME TypeOK, Posted, NEW m \in net, Work(m), NEW i \in DOMAIN attempts, Settled(i)
    PROVE  Settled(i)' /\ attempts'[i] = attempts[i]
<1> USE DEF server, counters, paper
<1>1. \A n \in net : n.kind \in {"saving", "submitting", "grading"} => n.attempt # i
  BY DEF Settled
<1>2. attempts'[i] = attempts[i] /\ attempts[i].status = "submitted"
  BY <1>1, WorkRow DEF Settled
<1>3. ASSUME NEW n \in net' \ net, n.kind \in {"saving", "submitting", "grading"}, n.attempt = i
      PROVE  FALSE
  <2>1. m.attempt = i /\ m.kind \in {"save", "submit"}
    BY <1>1, <1>3, WorkNet
  <2>2. CASE SaveCheck(m)
    BY <1>2, <1>3, <2>1, <2>2 DEF SaveCheck
  <2>3. CASE SubmitCheck(m)
    BY <1>2, <1>3, <2>1, <2>3 DEF SubmitCheck, Answered
  <2>4. CASE ServeEvent(m) \/ FailMessage(m) \/ Timeout(m)
    BY <1>3, <2>4 DEF ServeEvent, FailMessage, Timeout, Answered
  <2>5. ~SaveWrite(m) /\ ~SubmitRead(m) /\ ~GradeRow(m) /\ ~SubmitFinish(m) /\ ~MissRow(m)
    BY <2>1 DEF SaveWrite, SubmitRead, GradeRow, SubmitFinish, MissRow
  <2> QED BY <2>2, <2>3, <2>4, <2>5 DEF Work, Lose
<1> QED BY <1>1, <1>2, <1>3 DEF Settled

\* A submission is never taken back, and what is late or sent again after it is
\* refused for good, once the requests past their checks (SaveAnswer, Submit)
\* have ended.
THEOREM SubmittedForGood == Spec => SettledForGood
<1>1. PageInv /\ [Next]_vars =>
        [\A i \in DOMAIN attempts :
            /\ attempts[i].status = "submitted" => attempts'[i].status = "submitted"
            /\ Settled(i) => Settled(i)' /\ attempts'[i] = attempts[i]]_vars
  <2> SUFFICES ASSUME PageInv, [Next]_vars, NEW i \in DOMAIN attempts
               PROVE  /\ attempts[i].status = "submitted" => attempts'[i].status = "submitted"
                      /\ Settled(i) => Settled(i)' /\ attempts'[i] = attempts[i]
    OBVIOUS
  <2>1. CASE \E m \in net : Work(m)
    <3>1. PICK m \in net : Work(m)
      BY <2>1
    <3>2. attempts[i].status = "submitted" => attempts'[i].status = "submitted"
      BY <3>1, WorkRow DEF PageInv
    <3>3. Settled(i) => Settled(i)' /\ attempts'[i] = attempts[i]
      BY <3>1, SettledWork DEF PageInv
    <3> QED BY <3>2, <3>3
  <2>2. CASE \A m \in net : ~Work(m)
    <3>1. attempts'[i] = attempts[i]
      <4>1. CASE \E m \in net : ServeStart(m)
        BY <4>1, ServeStartRow
      <4>2. CASE \A m \in net : ~ServeStart(m)
        BY <2>2, <4>2, AttemptsFrame
      <4> QED BY <4>1, <4>2
    <3>2. \A n \in net' : n.kind \in {"saving", "submitting", "grading"} => n \in net
      BY <2>2, RequestsFrame
    <3> QED BY <3>1, <3>2 DEF Settled
  <2> QED BY <2>1, <2>2
<1> QED BY <1>1, PageInit, PageStep, PTL DEF Spec, SettledForGood

-----------------------------------------------------------------------------
(* What is graded is what was shown.                                       *)

Taking(i) == phase = "taking" /\ attempt = i
SubmitSent(i) == \E m \in net : m.kind \in Submitting /\ m.attempt = i
Gradings(i) == {m \in net : m.kind = "grading" /\ m.attempt = i}

BlankMessage(m) == \/ m.kind = "start"
                   \/ m.kind = "started" /\ m.answers = Blank

\* Until the first paper is there nothing is saved.
Unsaved ==
    (loads = 1 /\ phase = "loading") =>
        /\ \A m \in net : BlankMessage(m)
        /\ \A i \in DOMAIN attempts :
              attempts[i].status = "in_progress" /\ attempts[i].saved = Blank

\* Of an attempt on the page, as long as no save of it was late, lost or
\* overtaken, every answer that is not being typed is saved or under way.
UpToDate(i) ==
    Taking(i) =>
        /\ loads = 1 /\ ~SubmitSent(i) /\ attempts[i].status = "in_progress"
        /\ \A q \in Questions \ typing :
              /\ \A m \in Saves(i) : m.q = q => m.answer = shown[q]
              /\ (\A m \in Saves(i) : m.q # q) => attempts[i].saved[q] = shown[q]

\* Once its submission is sent, nothing of it is under way any more, what is
\* saved is what was shown, and so is what its submissions have read and graded.
Frozen(i) ==
    /\ (SubmitSent(i) \/ (i \in DOMAIN attempts /\ attempts[i].status = "submitted")) =>
          /\ Saves(i) = {}
          /\ attempts[i].saved = final[i]
          /\ attempts[i].status = "submitted" => attempts[i].graded = final[i]
    /\ \A m \in Gradings(i) :
          /\ m.answers = final[i]
          /\ \A q \in Questions \ m.todo : attempts[i].graded[q] = final[i][q]

ShownInv == PageInv /\ Unsaved /\ \A i \in careful : UpToDate(i) /\ Frozen(i)

\* Every step leaves the first load unsaved until it is answered.
LEMMA UnsavedStep == PageInv /\ Unsaved /\ [Next]_vars => Unsaved'
<1> SUFFICES ASSUME PageInv, Unsaved, [Next]_vars, loads' = 1, phase' = "loading"
             PROVE  /\ \A m \in net' : BlankMessage(m)
                    /\ \A i \in DOMAIN attempts' :
                          attempts'[i].status = "in_progress" /\ attempts'[i].saved = Blank
  BY DEF Unsaved
<1> USE DEF server, counters, paper
<1>1. loads \in Nat \ {0}
  BY DEF PageInv, TypeOK
<1>2. loads = 1 /\ phase = "loading"
  <2>1. CASE Page \/ ByTimer
    BY <1>1, <2>1 DEF Page, ByButton, ByTimer, DoSubmit, Unload, Reopen, Navigate, Edit, Change
  <2>2. CASE \E m \in net : Serve(m) \/ Load(m) \/ Refuse(m) \/ Leave(m) \/ Lose(m)
    <3>1. PICK m \in net : Serve(m) \/ Load(m) \/ Refuse(m) \/ Leave(m) \/ Lose(m)
      BY <2>2
    <3>2. CASE Load(m) \/ Refuse(m) \/ Leave(m) \/ ServeStart(m)
      BY <3>2 DEF Load, Refuse, Leave, ServeStart
    <3>3. CASE Work(m)
      BY <3>3, WorkNet DEF PageInv
    <3> QED BY <3>1, <3>2, <3>3 DEF Serve, Work
  <2>3. CASE (\E i \in Ids : Deadline(i)) \/ UNCHANGED vars
    BY <2>3 DEF Deadline, vars
  <2> QED BY <2>1, <2>2, <2>3 DEF Next
<1>3. /\ \A m \in net : BlankMessage(m)
      /\ \A i \in DOMAIN attempts :
            attempts[i].status = "in_progress" /\ attempts[i].saved = Blank
  BY <1>2 DEF Unsaved
<1>4. ASSUME NEW m \in net, ServeStart(m)
      PROVE  /\ \A n \in net' : BlankMessage(n)
             /\ \A i \in DOMAIN attempts' :
                   attempts'[i].status = "in_progress" /\ attempts'[i].saved = Blank
  <2>1. /\ \A i \in DOMAIN attempts : attempts'[i] = attempts[i]
        /\ \A i \in DOMAIN attempts' \ DOMAIN attempts :
              attempts'[i].status = "in_progress" /\ attempts'[i].saved = Blank
        /\ \E i \in DOMAIN attempts' :
              net' = (net \ {m}) \cup {[kind |-> "started", load |-> m.load, attempt |-> i,
                                        answers |-> attempts'[i].saved]}
    BY <1>4, ServeStartRow
  <2>2. \A i \in DOMAIN attempts' :
           attempts'[i].status = "in_progress" /\ attempts'[i].saved = Blank
    BY <1>3, <2>1
  <2>3. PICK i \in DOMAIN attempts' :
              net' = (net \ {m}) \cup {[kind |-> "started", load |-> m.load, attempt |-> i,
                                        answers |-> attempts'[i].saved]}
    BY <2>1
  <2> QED BY <1>3, <2>2, <2>3 DEF BlankMessage
<1>5. (net' \subseteq net /\ attempts' = attempts) \/ (\E m \in net : ServeStart(m))
  <2>1. CASE Page \/ ByTimer
    BY <1>2, <2>1 DEF Page, ByButton, ByTimer, DoSubmit, Unload, Reopen, Navigate, Edit, Change
  <2>2. CASE \E m \in net : Serve(m) \/ Load(m) \/ Refuse(m) \/ Leave(m) \/ Lose(m)
    <3>1. PICK m \in net : Serve(m) \/ Load(m) \/ Refuse(m) \/ Leave(m) \/ Lose(m)
      BY <2>2
    <3>2. m.kind = "start" \/ m.kind = "started"
      BY <1>3 DEF BlankMessage
    <3>3. ~Load(m) /\ ~Refuse(m)
      BY DEF Load, Refuse
    <3>4. ~Leave(m) /\ ~Work(m)
      BY <3>2 DEF Leave, Work, ServeEvent, SaveCheck, SaveWrite, SubmitCheck, SubmitRead,
                  GradeRow, SubmitFinish, Lose, FailMessage, Timeout, MissRow
    <3> QED BY <3>1, <3>3, <3>4 DEF Serve, Work
  <2>3. CASE (\E i \in Ids : Deadline(i)) \/ UNCHANGED vars
    BY <2>3 DEF Deadline, vars
  <2> QED BY <2>1, <2>2, <2>3 DEF Next
<1>6. CASE net' \subseteq net /\ attempts' = attempts
  BY <1>3, <1>6
<1> QED BY <1>4, <1>5, <1>6

\* A step that neither sends nor loses anything of an attempt keeps it frozen.
LEMMA FrozenKept ==
    ASSUME NEW i, Frozen(i), Saves(i)' = Saves(i), SubmitSent(i)' => SubmitSent(i),
           Gradings(i)' \subseteq Gradings(i),
           i \in DOMAIN attempts' /\ attempts'[i].status = "submitted" => i \in DOMAIN attempts,
           i \in DOMAIN attempts => attempts'[i] = attempts[i],
           SubmitSent(i) => i \in DOMAIN attempts,
           final'[i] = final[i]
    PROVE  Frozen(i)'
<1>1. \A m \in Gradings(i)' : m \in Gradings(i) /\ i \in DOMAIN attempts
  BY DEF Gradings, SubmitSent
<1>2. \A m \in Gradings(i)' :
         /\ m.answers = final'[i]
         /\ \A q \in Questions \ m.todo : attempts'[i].graded[q] = final'[i][q]
  BY <1>1 DEF Frozen
<1> QED BY <1>2 DEF Frozen

\* And up to date, if the page does not change either.
LEMMA UpToDateKept ==
    ASSUME NEW i, UpToDate(i), Saves(i)' = Saves(i), SubmitSent(i)' => SubmitSent(i),
           i \in DOMAIN attempts => attempts'[i] = attempts[i],
           Taking(i) => i \in DOMAIN attempts,
           Taking(i)' => Taking(i) /\ UNCHANGED <<loads, shown, typing>>
    PROVE  UpToDate(i)'
  BY DEF UpToDate

\* The page's own steps keep what is known of a careful attempt.
LEMMA PageCareful ==
    ASSUME PageInv, Page \/ ByTimer, NEW i \in careful', i \in careful, UpToDate(i), Frozen(i)
    PROVE  UpToDate(i)' /\ Frozen(i)'
<1> USE DEF server, counters
<1>0. TypeOK /\ Posted /\ Paged
  BY DEF PageInv
<1>1. /\ SubmitSent(i) => i \in DOMAIN attempts
      /\ Taking(i) => i \in DOMAIN attempts
      /\ \A m \in Saves(i) : m \in net /\ m.kind \in Saving /\ m.attempt = i
      /\ ~SubmitSent(i) => Gradings(i) = {}
  BY <1>0 DEF SubmitSent, Taking, Posted, Paged, Saves, Gradings
<1>2. ASSUME NEW q \in Questions, Edit(q) PROVE UpToDate(i)' /\ Frozen(i)'
  <2>1. /\ UNCHANGED <<attempts, net, final, loads, phase, attempt>>
        /\ typing \subseteq {q} /\ typing' = {q}
        /\ \A p \in Questions \ {q} : shown'[p] = shown[p]
    BY <1>0, <1>2 DEF Edit, TypeOK, Answers
  <2>2. UNCHANGED <<Saves(i), SubmitSent(i), Taking(i), Gradings(i)>>
    BY <2>1 DEF Saves, SubmitSent, Taking, Gradings
  <2>3. Frozen(i)'
    BY <2>1, <2>2 DEF Frozen
  <2>4. UpToDate(i)'
    BY <2>1, <2>2 DEF UpToDate
  <2> QED BY <2>3, <2>4
<1>3. ASSUME NEW q \in Questions, Change(q) PROVE UpToDate(i)' /\ Frozen(i)'
  <2> DEFINE m == [kind |-> "save", attempt |-> attempt, q |-> q, answer |-> shown[q]]
  <2>1. /\ UNCHANGED <<attempts, shown, final, loads, phase, attempt>>
        /\ typing = {q} /\ typing' = {} /\ net' = net \cup {m} /\ phase = "taking"
        /\ careful' = careful \ {n.attempt : n \in {n \in Saves(attempt) : n.q = q}}
    BY <1>0, <1>3 DEF Change, TypeOK
  <2>2. m.kind = "save" /\ m.attempt = attempt /\ m.q = q /\ m.answer = shown[q]
    OBVIOUS
  <2> HIDE DEF m
  <2>3. (SubmitSent(i)' <=> SubmitSent(i)) /\ Gradings(i)' = Gradings(i)
    BY <2>1, <2>2 DEF SubmitSent, Gradings
  <2>4. Taking(i)' <=> Taking(i)
    BY <2>1 DEF Taking
  <2>5. CASE attempt # i
    <3>1. Saves(i)' = Saves(i)
      BY <2>1, <2>2, <2>5 DEF Saves
    <3>2. ~Taking(i)
      BY <2>5 DEF Taking
    <3> QED BY <1>1, <2>1, <2>3, <2>4, <3>1, <3>2, FrozenKept DEF UpToDate
  <2>6. CASE attempt = i
    <3>1. Saves(i)' = Saves(i) \cup {m}
      BY <2>1, <2>2, <2>6 DEF Saves
    <3>2. \A n \in Saves(i) : n.q # q
      <4> SUFFICES ASSUME NEW n \in Saves(i), n.q = q PROVE FALSE
        OBVIOUS
      <4>1. n.attempt \notin careful'
        BY <2>1, <2>6
      <4> QED BY <1>1, <4>1
    <3>3. Taking(i)
      BY <2>1, <2>6 DEF Taking
    <3>4. /\ loads = 1 /\ ~SubmitSent(i) /\ attempts[i].status = "in_progress"
          /\ \A p \in Questions \ {q} :
                /\ \A n \in Saves(i) : n.q = p => n.answer = shown[p]
                /\ (\A n \in Saves(i) : n.q # p) => attempts[i].saved[p] = shown[p]
      BY <2>1, <3>3 DEF UpToDate
    <3>5. UpToDate(i)'
      <4>1. ASSUME NEW p \in Questions
            PROVE  /\ \A n \in Saves(i)' : n.q = p => n.answer = shown[p]
                   /\ (\A n \in Saves(i)' : n.q # p) => attempts[i].saved[p] = shown[p]
        <5>1. CASE p = q
          BY <2>2, <3>1, <3>2, <5>1
        <5>2. CASE p # q
          BY <2>2, <3>1, <3>4, <5>2
        <5> QED BY <5>1, <5>2
      <4> QED BY <2>1, <2>3, <3>4, <4>1 DEF UpToDate
    <3>6. Frozen(i)'
      BY <1>1, <2>1, <2>3, <3>4 DEF Frozen
    <3> QED BY <3>5, <3>6
  <2> QED BY <2>5, <2>6
<1>4. ASSUME phase = "taking", phase' # "taking", UNCHANGED attempts,
             final' = [final EXCEPT ![attempt] = shown],
             careful' = careful \ Unsettled,
             Saves(i)' = Saves(i), Gradings(i)' = Gradings(i),
             attempt # i => (SubmitSent(i)' => SubmitSent(i))
      PROVE  UpToDate(i)' /\ Frozen(i)'
  <2>1. UpToDate(i)'
    BY <1>4 DEF UpToDate, Taking
  <2>2. attempt \in Ids /\ i \in Ids
    BY <1>0, <1>4, AttemptRows DEF Paged, TypeOK
  <2>3. CASE attempt # i
    <3>1. final'[i] = final[i]
      BY <1>4, <2>3
    <3>2. Frozen(i)'
      BY <1>1, <1>4, <2>3, <3>1, FrozenKept
    <3> QED BY <2>1, <3>2
  <2>4. CASE attempt = i
    <3>1. typing = {} /\ Saves(i) = {}
      BY <1>4, <2>4 DEF Unsettled
    <3>2. /\ attempts[i].status = "in_progress"
          /\ \A q \in Questions : attempts[i].saved[q] = shown[q]
      BY <1>4, <2>4, <3>1 DEF UpToDate, Taking
    <3>3. attempts[i].saved \in Answers /\ shown \in Answers
      BY <1>0, <1>4, <2>4, AttemptRows DEF Paged, Row, TypeOK
    <3>4. attempts[i].saved = shown
      BY <3>2, <3>3 DEF Answers
    <3>5. final'[i] = shown
      BY <1>0, <1>4, <2>2, <2>4 DEF TypeOK
    <3>6. Gradings(i)' = {}
      BY <1>1, <1>4, <2>4 DEF UpToDate, Taking
    <3> QED BY <1>4, <2>1, <3>1, <3>2, <3>4, <3>5, <3>6 DEF Frozen
  <2> QED BY <2>1, <2>3, <2>4
<1>5. CASE DoSubmit
  <2>1. net' = net \cup {SubmitOf(attempt)}
    BY <1>5 DEF DoSubmit
  <2>2. SubmitOf(attempt).kind = "submit" /\ SubmitOf(attempt).attempt = attempt
    BY DEF SubmitOf
  <2>3. /\ Saves(i)' = Saves(i) /\ Gradings(i)' = Gradings(i)
        /\ attempt # i => (SubmitSent(i)' => SubmitSent(i))
    BY <2>1, <2>2 DEF Saves, SubmitSent, Gradings
  <2> QED BY <1>4, <1>5, <2>3 DEF DoSubmit
<1>6. CASE Unload
  <2> DEFINE sent == net' \ net
  <2>1. \A m \in sent : m.kind \in {"start", "event"} \/ (m.kind = "submit" /\ m.attempt = attempt)
    <3>1. sent \subseteq {SubmitOf(attempt), [kind |-> "start", load |-> loads + 1],
                         EventOf(attempt)}
      BY <1>6 DEF Unload
    <3>2. /\ SubmitOf(attempt).kind = "submit" /\ SubmitOf(attempt).attempt = attempt
          /\ EventOf(attempt).kind = "event"
      BY DEF SubmitOf, EventOf
    <3> HIDE DEF sent
    <3> QED BY <3>1, <3>2
  <2>2. net' = net \cup sent
    BY <1>6 DEF Unload
  <2> HIDE DEF sent
  <2>3. /\ Saves(i)' = Saves(i) /\ Gradings(i)' = Gradings(i)
        /\ attempt # i => (SubmitSent(i)' => SubmitSent(i))
    BY <2>1, <2>2 DEF Saves, SubmitSent, Gradings
  <2> QED BY <1>4, <1>6, <2>3 DEF Unload
<1>7. CASE Reopen
  <2>1. /\ net' = net \cup {[kind |-> "start", load |-> loads + 1]}
        /\ phase' = "loading" /\ UNCHANGED <<attempts, final>>
    BY <1>7 DEF Reopen
  <2>2. /\ Saves(i)' = Saves(i) /\ Gradings(i)' = Gradings(i)
        /\ SubmitSent(i)' => SubmitSent(i)
        /\ ~Taking(i)'
    BY <2>1 DEF Saves, SubmitSent, Gradings, Taking
  <2> QED BY <1>1, <2>1, <2>2, FrozenKept DEF UpToDate
<1>8. CASE Navigate
  <2>1. net' = net /\ phase' = "elsewhere" /\ UNCHANGED <<attempts, final>>
    BY <1>8 DEF Navigate
  <2>2. /\ Saves(i)' = Saves(i) /\ Gradings(i)' = Gradings(i)
        /\ SubmitSent(i)' => SubmitSent(i)
        /\ ~Taking(i)'
    BY <2>1 DEF Saves, SubmitSent, Gradings, Taking
  <2> QED BY <1>1, <2>1, <2>2, FrozenKept DEF UpToDate
<1> QED BY <1>2, <1>3, <1>5, <1>6, <1>7, <1>8 DEF Page, ByButton, ByTimer

\* So do the steps of the server, of the network and of the clock.
LEMMA ServerCareful ==
    ASSUME PageInv, Unsaved, [Next]_vars, ~(Page \/ ByTimer),
           NEW i \in careful', i \in careful, UpToDate(i), Frozen(i)
    PROVE  UpToDate(i)' /\ Frozen(i)'
<1> USE DEF server, counters, paper
<1>0. TypeOK /\ Posted /\ Paged
  BY DEF PageInv
<1>1. /\ SubmitSent(i) => i \in DOMAIN attempts
      /\ Taking(i) => i \in DOMAIN attempts
      /\ \A m \in Saves(i) : m \in net /\ m.kind \in Saving /\ m.attempt = i
      /\ ~SubmitSent(i) => Gradings(i) = {}
  BY <1>0 DEF SubmitSent, Taking, Posted, Paged, Saves, Gradings
<1>2. ASSUME NEW m \in net, Load(m) PROVE UpToDate(i)' /\ Frozen(i)'
  <2>1. /\ m.kind = "started" /\ phase = "loading" /\ net' = net \ {m}
        /\ attempt' = m.attempt /\ shown' = m.answers /\ phase' = "taking"
        /\ UNCHANGED <<attempts, loads, final, typing>>
        /\ careful' = careful \ {j \in {m.attempt} : loads > 1}
    BY <1>2 DEF Load
  <2>2. /\ Saves(i)' = Saves(i) /\ (SubmitSent(i)' => SubmitSent(i))
        /\ Gradings(i)' = Gradings(i)
    BY <2>1 DEF Saves, SubmitSent, Gradings
  <2>3. Frozen(i)'
    BY <1>1, <2>1, <2>2, FrozenKept
  <2>4. ASSUME m.attempt = i PROVE UpToDate(i)'
    <3>1. loads = 1
      BY <1>0, <2>1, <2>4 DEF TypeOK
    <3>2. /\ \A n \in net : n.kind \in {"start", "started"}
          /\ m.answers = Blank
          /\ i \in DOMAIN attempts
          /\ attempts[i].status = "in_progress" /\ attempts[i].saved = Blank
      BY <1>0, <2>1, <2>4, <3>1 DEF Unsaved, BlankMessage, Posted
    <3>3. Saves(i) = {} /\ ~SubmitSent(i)
      BY <3>2 DEF Saves, SubmitSent
    <3> QED BY <2>1, <2>2, <3>1, <3>2, <3>3 DEF UpToDate
  <2>5. m.attempt # i => ~Taking(i)'
    BY <2>1 DEF Taking
  <2> QED BY <2>3, <2>4, <2>5 DEF UpToDate
<1>3. ASSUME NEW m \in net, ServeStart(m) PROVE UpToDate(i)' /\ Frozen(i)'
  <2>1. /\ \A j \in DOMAIN attempts : j \in DOMAIN attempts' /\ attempts'[j] = attempts[j]
        /\ \A j \in DOMAIN attempts' \ DOMAIN attempts : attempts'[j].status = "in_progress"
        /\ \E j \in DOMAIN attempts' :
              net' = (net \ {m}) \cup {[kind |-> "started", load |-> m.load, attempt |-> j,
                                        answers |-> attempts'[j].saved]}
    BY <1>3, ServeStartRow
  <2>2. PICK j \in DOMAIN attempts' :
              net' = (net \ {m}) \cup {[kind |-> "started", load |-> m.load, attempt |-> j,
                                        answers |-> attempts'[j].saved]}
    BY <2>1
  <2>3. m.kind = "start" /\ UNCHANGED <<phase, attempt, shown, typing, loads, final>>
    BY <1>3 DEF ServeStart
  <2>4. /\ Saves(i)' = Saves(i) /\ (SubmitSent(i)' => SubmitSent(i)) /\ (Taking(i)' => Taking(i))
        /\ Gradings(i)' = Gradings(i)
    BY <2>2, <2>3 DEF Saves, SubmitSent, Taking, Gradings
  <2>5. i \in DOMAIN attempts' /\ attempts'[i].status = "submitted" => i \in DOMAIN attempts
    BY <2>1
  <2>6. i \in DOMAIN attempts => attempts'[i] = attempts[i]
    BY <2>1
  <2>7. Frozen(i)'
    BY <1>1, <2>3, <2>4, <2>5, <2>6, FrozenKept
  <2>8. UpToDate(i)'
    BY <1>1, <2>3, <2>4, <2>6, UpToDateKept
  <2> QED BY <2>7, <2>8
<1>4. ASSUME NEW m \in net, Work(m),
             m.kind \notin Saving \cup Submitting \/ m.attempt # i
      PROVE  UpToDate(i)' /\ Frozen(i)'
  <2>1. /\ DOMAIN attempts' = DOMAIN attempts
        /\ i \in DOMAIN attempts => attempts'[i] = attempts[i]
    BY <1>0, <1>4, WorkRow
  <2>2. /\ UNCHANGED <<phase, attempt, shown, typing, loads, final>>
        /\ net \ {m} \subseteq net'
        /\ \A n \in net' \ net :
              n.kind \in Saving \cup Submitting => n.attempt = m.attempt /\ n.attempt # i
    BY <1>0, <1>4, WorkNet
  <2>3. /\ Saves(i)' = Saves(i) /\ (SubmitSent(i)' => SubmitSent(i)) /\ (Taking(i)' => Taking(i))
        /\ Gradings(i)' \subseteq Gradings(i)
    BY <1>4, <2>2 DEF Saves, SubmitSent, Taking, Gradings
  <2>4. Frozen(i)'
    BY <1>1, <2>1, <2>2, <2>3, FrozenKept
  <2>5. UpToDate(i)'
    BY <1>1, <2>1, <2>2, <2>3, UpToDateKept
  <2> QED BY <2>4, <2>5
<1>5. ASSUME NEW m \in net, SaveCheck(m), m.attempt = i PROVE UpToDate(i)' /\ Frozen(i)'
  <2> DEFINE n == [m EXCEPT !.kind = "saving"]
  <2>1. /\ m.kind = "save" /\ net' = (net \ {m}) \cup {n}
        /\ UNCHANGED <<attempts, phase, attempt, shown, typing, loads, final>>
    BY <1>5 DEF SaveCheck
  <2>2. n.kind = "saving" /\ n.attempt = i /\ n.q = m.q /\ n.answer = m.answer
    BY <1>0, <1>5, <2>1, Onward
  <2> HIDE DEF n
  <2>3. /\ m \in Saves(i) /\ Saves(i)' = (Saves(i) \ {m}) \cup {n}
        /\ SubmitSent(i)' => SubmitSent(i)
        /\ Taking(i)' <=> Taking(i)
    BY <1>5, <2>1, <2>2 DEF Saves, SubmitSent, Taking
  <2>4. /\ ~SubmitSent(i) /\ ~(i \in DOMAIN attempts /\ attempts[i].status = "submitted")
        /\ Gradings(i)' = {}
    BY <1>1, <2>1, <2>2, <2>3 DEF Frozen, Gradings, SubmitSent
  <2>5. Frozen(i)'
    BY <2>1, <2>3, <2>4 DEF Frozen
  <2>6. ASSUME Taking(i), NEW q \in Questions \ typing
        PROVE  /\ \A k \in Saves(i)' : k.q = q => k.answer = shown[q]
               /\ (\A k \in Saves(i)' : k.q # q) => attempts[i].saved[q] = shown[q]
    <3>1. /\ \A k \in Saves(i) : k.q = q => k.answer = shown[q]
          /\ (\A k \in Saves(i) : k.q # q) => attempts[i].saved[q] = shown[q]
      BY <2>6 DEF UpToDate
    <3> QED BY <2>2, <2>3, <3>1
  <2>7. UpToDate(i)'
    BY <2>1, <2>3, <2>4, <2>6 DEF UpToDate
  <2> QED BY <2>5, <2>7
<1>6. ASSUME NEW m \in net, SaveWrite(m), m.attempt = i PROVE UpToDate(i)' /\ Frozen(i)'
  <2>1. /\ m.kind = "saving" /\ net' = net \ {m}
        /\ UNCHANGED <<phase, attempt, shown, typing, loads, final>>
    BY <1>6 DEF SaveWrite
  <2>2. i \in DOMAIN attempts /\ attempts[i] \in Row /\ m.q \in Questions
    BY <1>0, <1>6, <2>1, AttemptRows, MessageFields DEF Posted
  <2>3. /\ attempts'[i].status = attempts[i].status
        /\ attempts'[i].saved = [attempts[i].saved EXCEPT ![m.q] = m.answer]
        /\ attempts[i].saved \in Answers
    BY <1>0, <1>6, <2>2, WorkRow DEF Work, Row
  <2>4. m \in Saves(i) /\ Saves(i)' = Saves(i) \ {m} /\ (SubmitSent(i)' => SubmitSent(i))
        /\ (Taking(i)' <=> Taking(i)) /\ Gradings(i)' = Gradings(i)
    BY <1>6, <2>1 DEF Saves, SubmitSent, Taking, Gradings
  <2>5. ~SubmitSent(i) /\ attempts[i].status # "submitted" /\ Gradings(i)' = {}
    BY <1>1, <2>2, <2>4 DEF Frozen
  <2>6. Frozen(i)'
    BY <2>3, <2>4, <2>5 DEF Frozen
  <2>7. ASSUME Taking(i), NEW q \in Questions \ typing
        PROVE  /\ \A n \in Saves(i)' : n.q = q => n.answer = shown[q]
               /\ (\A n \in Saves(i)' : n.q # q) => attempts'[i].saved[q] = shown[q]
    <3>1. /\ \A n \in Saves(i) : n.q = q => n.answer = shown[q]
          /\ (\A n \in Saves(i) : n.q # q) => attempts[i].saved[q] = shown[q]
      BY <2>7 DEF UpToDate
    <3>2. CASE m.q = q
      <4>1. attempts'[i].saved[q] = m.answer
        BY <2>3, <3>2 DEF Answers
      <4>2. m.answer = shown[q]
        BY <2>4, <3>1, <3>2
      <4> QED BY <2>4, <3>1, <4>1, <4>2
    <3>3. CASE m.q # q
      <4>1. attempts'[i].saved[q] = attempts[i].saved[q]
        BY <2>3, <3>3 DEF Answers
      <4> QED BY <2>4, <3>1, <3>3, <4>1
    <3> QED BY <3>2, <3>3
  <2>8. UpToDate(i)'
    BY <2>1, <2>3, <2>4, <2>5, <2>7 DEF UpToDate
  <2> QED BY <2>6, <2>8
<1>7. ASSUME NEW m \in net, Work(m), m.kind \in Submitting, m.attempt = i
      PROVE  UpToDate(i)' /\ Frozen(i)'
  <2>1. /\ DOMAIN attempts' = DOMAIN attempts
        /\ UNCHANGED <<phase, attempt, shown, typing, loads, final>>
        /\ net \ {m} \subseteq net'
        /\ \A n \in net' \ net : n.kind \notin Saving
    BY <1>0, <1>7, WorkRow, WorkNet
  <2>2. SubmitSent(i) /\ ~Taking(i) /\ i \in DOMAIN attempts
    BY <1>1, <1>7 DEF SubmitSent, UpToDate
  <2>3. /\ Saves(i) = {} /\ attempts[i].saved = final[i]
        /\ attempts[i].status = "submitted" => attempts[i].graded = final[i]
    BY <2>2 DEF Frozen
  <2>4. Saves(i)' = {} /\ UpToDate(i)'
    BY <1>7, <2>1, <2>2, <2>3 DEF Saves, Taking, UpToDate
  <2>5. attempts[i] \in Row /\ attempts[i].saved \in Answers /\ attempts[i].graded \in Answers
    BY <1>0, <2>2, AttemptRows DEF Row
  <2>6. \A n \in Gradings(i) :
           /\ n \in net /\ n.kind = "grading" /\ n.answers = final[i]
           /\ \A q \in Questions \ n.todo : attempts[i].graded[q] = final[i][q]
    BY DEF Frozen, Gradings
  <2>7. CASE SubmitCheck(m) \/ FailMessage(m) \/ Timeout(m)
    <3>1. attempts' = attempts
      BY <2>7 DEF SubmitCheck, FailMessage, Timeout, Fail, server
    <3>2. Gradings(i)' \subseteq Gradings(i)
      <4>1. ASSUME NEW n \in net', n.kind = "grading" PROVE n \in net
        <5>1. CASE SubmitCheck(m)
          <6>1. PICK k : /\ k \in {[m EXCEPT !.kind = "submitting"], Answered(m)}
                         /\ net' = (net \ {m}) \cup {k}
            BY <5>1 DEF SubmitCheck
          <6>2. k.kind # "grading"
            BY <1>0, <5>1, <6>1, Onward DEF SubmitCheck
          <6> QED BY <4>1, <6>1, <6>2
        <5>2. CASE FailMessage(m) \/ Timeout(m)
          BY <4>1, <5>2 DEF FailMessage, Timeout, Answered
        <5> QED BY <2>7, <5>1, <5>2
      <4> QED BY <4>1 DEF Gradings
    <3> QED BY <2>1, <2>3, <2>4, <2>6, <3>1, <3>2 DEF Frozen
  <2>8. CASE SubmitRead(m)
    <3> DEFINE n == [kind |-> "grading", attempt |-> m.attempt, load |-> m.load,
                     answers |-> attempts[m.attempt].saved, todo |-> Questions]
    <3>1. attempts' = attempts /\ net' = (net \ {m}) \cup {n}
      BY <2>8 DEF SubmitRead, server
    <3>2. n.answers = final[i] /\ n.todo = Questions
      BY <1>7, <2>3
    <3> HIDE DEF n
    <3>3. \A k \in Gradings(i)' : k \in Gradings(i) \/ k = n
      BY <3>1 DEF Gradings
    <3> QED BY <2>1, <2>3, <2>4, <2>6, <3>1, <3>2, <3>3 DEF Frozen
  <2>9. CASE GradeRow(m)
    <3>1. PICK q \in m.todo :
             /\ attempts' = [attempts EXCEPT ![m.attempt].saved[q] = m.answers[q],
                                             ![m.attempt].graded[q] = m.answers[q]]
             /\ net' = (net \ {m}) \cup {[m EXCEPT !.todo = @ \ {q}]}
      BY <2>9 DEF GradeRow
    <3>2. m.kind = "grading" /\ m \in Gradings(i) /\ q \in Questions
      BY <1>0, <1>7, <2>9, MessageFields DEF GradeRow, Gradings
    <3>3. m.answers = final[i] /\ m.answers[q] \in 0..MaxEdits
      BY <1>0, <2>6, <3>2, MessageFields DEF Answers
    <3>4. /\ attempts'[i].status = attempts[i].status
          /\ attempts'[i].saved = [attempts[i].saved EXCEPT ![q] = final[i][q]]
          /\ attempts'[i].graded = [attempts[i].graded EXCEPT ![q] = final[i][q]]
      BY <1>7, <2>2, <2>5, <3>1, <3>3 DEF Row
    <3>5. attempts'[i].saved = final[i]
      BY <2>3, <2>5, <3>4 DEF Answers
    <3>6. /\ attempts'[i].graded[q] = final[i][q]
          /\ \A p \in Questions \ {q} : attempts'[i].graded[p] = attempts[i].graded[p]
      BY <2>5, <3>2, <3>4 DEF Answers
    <3>7. attempts[i].status = "submitted" => attempts'[i].graded = final[i]
      BY <2>3, <2>5, <3>4 DEF Answers
    <3> DEFINE n == [m EXCEPT !.todo = @ \ {q}]
    <3>8. n.answers = m.answers /\ n.todo = m.todo \ {q}
      BY <1>0, <3>2, Onward
    <3>9. net' = (net \ {m}) \cup {n}
      BY <3>1
    <3> HIDE DEF n
    <3>10. \A k \in Gradings(i)' : k \in Gradings(i) \/ k = n
      BY <3>9 DEF Gradings
    <3>11. ASSUME NEW k \in Gradings(i)'
           PROVE  /\ k.answers = final[i]
                  /\ \A p \in Questions \ k.todo : attempts'[i].graded[p] = final[i][p]
      <4>1. CASE k \in Gradings(i)
        BY <2>6, <3>6, <4>1
      <4>2. CASE k = n
        BY <2>6, <3>2, <3>3, <3>6, <3>8, <4>2
      <4> QED BY <3>10, <4>1, <4>2
    <3> QED BY <2>1, <2>4, <3>4, <3>5, <3>7, <3>11 DEF Frozen
  <2>10. CASE SubmitFinish(m)
    <3>1. /\ m.kind = "grading" /\ m.todo = {} /\ net' = (net \ {m}) \cup {Answered(m)}
          /\ attempts'[i].saved = attempts[i].saved /\ attempts'[i].graded = attempts[i].graded
      BY <1>0, <1>7, <2>10, WorkRow DEF SubmitFinish
    <3>2. m \in Gradings(i)
      BY <1>7, <3>1 DEF Gradings
    <3>3. \A q \in Questions : attempts[i].graded[q] = final[i][q]
      BY <2>6, <3>1, <3>2
    <3>4. attempts[i].graded = final[i]
      BY <2>3, <2>5, <3>3 DEF Answers
    <3>5. Gradings(i)' \subseteq Gradings(i)
      BY <3>1 DEF Gradings, Answered
    <3> QED BY <2>1, <2>3, <2>4, <2>6, <3>1, <3>4, <3>5 DEF Frozen
  <2>11. ~MissRow(m) /\ ~SaveCheck(m) /\ ~SaveWrite(m) /\ ~ServeEvent(m)
    BY <1>7 DEF MissRow, SaveCheck, SaveWrite, ServeEvent
  <2> QED BY <1>7, <2>7, <2>8, <2>9, <2>10, <2>11 DEF Work, Lose
<1>8. ASSUME NEW m \in net, Work(m), m.kind \in Saving, m.attempt = i
      PROVE  SaveCheck(m) \/ SaveWrite(m)
  BY <1>8 DEF Work, Lose, FailMessage, Timeout, MissRow, ServeEvent, SubmitCheck, SubmitRead,
              GradeRow, SubmitFinish
<1>9. ASSUME UNCHANGED <<attempts, final, shown, typing, loads, attempt>>,
             \A n : n.kind \in Saving \cup Submitting => (n \in net' <=> n \in net),
             phase' = "taking" => phase = "taking"
      PROVE  UpToDate(i)' /\ Frozen(i)'
  <2>1. /\ Saves(i)' = Saves(i) /\ (SubmitSent(i)' => SubmitSent(i)) /\ (Taking(i)' => Taking(i))
        /\ Gradings(i)' \subseteq Gradings(i)
    BY <1>9 DEF Saves, SubmitSent, Taking, Gradings
  <2>2. Frozen(i)'
    BY <1>1, <1>9, <2>1, FrozenKept
  <2>3. UpToDate(i)'
    BY <1>1, <1>9, <2>1, UpToDateKept
  <2> QED BY <2>2, <2>3
<1>10. ASSUME NEW m \in net, Leave(m) \/ Refuse(m) PROVE UpToDate(i)' /\ Frozen(i)'
  <2>1. m.kind \in {"answered", "start", "started"} /\ net' = net \ {m}
        /\ UNCHANGED <<attempts, final, shown, typing, loads, attempt>>
        /\ (phase' = "taking" => phase = "taking")
    BY <1>10 DEF Leave, Refuse
  <2> QED BY <1>9, <2>1
<1>11. ASSUME (\E j \in Ids : Deadline(j)) \/ UNCHANGED vars PROVE UpToDate(i)' /\ Frozen(i)'
  <2>1. UNCHANGED <<attempts, final, shown, typing, loads, attempt, phase, net>>
    BY <1>11 DEF Deadline, vars
  <2> QED BY <1>9, <2>1
<1>12. ASSUME NEW m \in net, Work(m) PROVE UpToDate(i)' /\ Frozen(i)'
  BY <1>4, <1>5, <1>6, <1>7, <1>8, <1>12
<1> QED BY <1>2, <1>3, <1>10, <1>11, <1>12 DEF Next, Serve, Work

\* No step makes an attempt careful again.
LEMMA CarefulShrinks == PageInv /\ [Next]_vars => careful' \subseteq careful
<1> SUFFICES ASSUME PageInv, [Next]_vars PROVE careful' \subseteq careful
  OBVIOUS
<1>1. CASE Page \/ ByTimer
  BY <1>1 DEF Page, ByButton, ByTimer, DoSubmit, Unload, Reopen, Navigate, Edit, Change
<1>2. ASSUME NEW m \in net, Serve(m) \/ Load(m) \/ Refuse(m) \/ Leave(m) \/ Lose(m)
      PROVE  careful' \subseteq careful
  <2>1. CASE Load(m) \/ Refuse(m) \/ Leave(m) \/ ServeStart(m)
    BY <2>1 DEF Load, Refuse, Leave, ServeStart
  <2>2. CASE Work(m)
    BY <2>2, WorkNet DEF PageInv
  <2> QED BY <1>2, <2>1, <2>2 DEF Serve, Work
<1>3. CASE (\E i \in Ids : Deadline(i)) \/ UNCHANGED vars
  BY <1>3 DEF Deadline, vars
<1> QED BY <1>1, <1>2, <1>3 DEF Next

\* What is graded is what the page showed when it submitted, although it waits
\* for none of its saves (ExamTake.vue), as long as no save was overtaken,
\* refused or lost, no question missed and no page resumed.
THEOREM ShownIsGraded == Spec => []GradedAsShown
<1>1. Init => ShownInv
  <2> SUFFICES ASSUME Init PROVE ShownInv
    OBVIOUS
  <2>1. Unsaved
    BY DEF Init, Unsaved, BlankMessage
  <2>2. \A i \in careful : UpToDate(i) /\ Frozen(i)
    BY DEF Init, UpToDate, Frozen, Taking, SubmitSent, Gradings
  <2> QED BY <2>1, <2>2, PageInit DEF ShownInv
<1>2. ShownInv /\ [Next]_vars => ShownInv'
  <2> SUFFICES ASSUME ShownInv, [Next]_vars PROVE ShownInv'
    OBVIOUS
  <2>1. PageInv' /\ Unsaved'
    BY PageStep, UnsavedStep DEF ShownInv
  <2>2. ASSUME NEW i \in careful' PROVE UpToDate(i)' /\ Frozen(i)'
    <3>1. i \in careful /\ PageInv /\ Unsaved /\ UpToDate(i) /\ Frozen(i)
      BY <2>2, CarefulShrinks DEF ShownInv
    <3>2. CASE Page \/ ByTimer
      BY <2>2, <3>1, <3>2, PageCareful
    <3>3. CASE ~(Page \/ ByTimer)
      BY <2>2, <3>1, <3>3, ServerCareful
    <3> QED BY <3>2, <3>3
  <2> QED BY <2>1, <2>2 DEF ShownInv
<1>3. ShownInv => GradedAsShown
  BY DEF ShownInv, PageInv, Frozen, GradedAsShown
<1> QED BY <1>1, <1>2, <1>3, PTL DEF Spec
=============================================================================
