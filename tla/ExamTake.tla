------------------------------ MODULE ExamTake ------------------------------
(***************************************************************************)
(* One student, the exam page (ExamTake.vue) and the server: the page      *)
(* starts or resumes an attempt, saves an answer on every change, submits  *)
(* at the button, at the deadline and when it is left, and reports that it *)
(* is left.  It waits for none of its saves and reports, so messages may   *)
(* be delivered in any order, and may fail.  What it reports before, a     *)
(* change of tabs for one, is not part of it (Proctor).                    *)
(*                                                                         *)
(* A save and a submission check the attempt in one step of the server and *)
(* write in later ones; a start and a report are one step here (Exams and  *)
(* Proctor have theirs).  An answer is the number of the edit that gave    *)
(* it, 0 for none.                                                         *)
(***************************************************************************)
EXTENDS Naturals, Sequences, FiniteSets

CONSTANTS Questions,
          MaxEdits, MaxLeaves, MaxFailures   \* bounds

ASSUME PageAssumption == /\ IsFiniteSet(Questions) /\ Questions # {}
                         /\ {MaxEdits, MaxLeaves, MaxFailures} \subseteq Nat

VARIABLES
    attempts,  \* rows of exam_attempts: status, answers saved, answers graded
    late,      \* attempts whose deadline has passed
    phase,     \* of the page: loading, taking, leaving (waits for submit), away, elsewhere
    attempt,   \* paper.attempt_id, 0 before the paper is there
    shown,     \* answers
    typing,    \* the question whose field has changed and kept the focus, if any
    net,       \* messages under way, and requests in the server
    loads, edits, failures,   \* counters
    final,     \* what the page showed when it submitted an attempt (history)
    careful    \* attempts none of whose saves mattered and was late or lost (history)

vars == <<attempts, late, phase, attempt, shown, typing, net, loads, edits, failures,
          final, careful>>

Answers == [Questions -> 0..MaxEdits]
Blank == [q \in Questions |-> 0]
Row == [status : {"in_progress", "submitted"}, saved : Answers, graded : Answers]
Ids == 1..(MaxLeaves + 1)

\* A save, and one past its check; a submission, one past its check, and one
\* that has read the answers and has rows to write.
Message == [kind : {"start"}, load : Nat]
             \cup [kind : {"started"}, load : Nat, attempt : Ids, answers : Answers]
             \cup [kind : {"save", "saving"}, attempt : Ids, q : Questions, answer : 0..MaxEdits]
             \cup [kind : {"submit", "submitting"}, attempt : Ids, load : Nat]
             \cup [kind : {"grading"}, attempt : Ids, load : Nat, answers : Answers,
                   todo : SUBSET Questions]
             \cup [kind : {"answered"}, load : Nat]
             \cup [kind : {"event"}, attempt : Ids, load : Nat]

TypeOK == /\ attempts \in Seq(Row) /\ Len(attempts) <= MaxLeaves + 1
          /\ late \subseteq Ids
          /\ phase \in {"loading", "taking", "leaving", "away", "elsewhere"}
          /\ attempt \in {0} \cup Ids
          /\ shown \in Answers
          /\ typing \in {{}} \cup {{q} : q \in Questions}
          /\ net \subseteq Message
          /\ loads \in 1..(MaxLeaves + 1)
          /\ edits \in 0..MaxEdits /\ failures \in 0..MaxFailures
          /\ final \in [Ids -> Answers]
          /\ careful \subseteq Ids

\* onMounted: the page asks for the paper.
Init == /\ attempts = <<>> /\ late = {}
        /\ phase = "loading" /\ attempt = 0 /\ shown = Blank /\ typing = {}
        /\ net = {[kind |-> "start", load |-> 1]}
        /\ loads = 1 /\ edits = 0 /\ failures = 0
        /\ final = [i \in Ids |-> Blank]
        /\ careful = Ids

server == <<attempts, late>>
counters == <<loads, edits, failures>>

Saving == {"save", "saving"}
Submitting == {"submit", "submitting", "grading"}
Saves(i) == {m \in net : m.kind \in Saving /\ m.attempt = i}
\* The attempt of the page, if an answer is not sent or has not arrived.
Unsettled == {i \in {attempt} : typing # {} \/ Saves(i) # {}}
SubmitOf(i) == [kind |-> "submit", attempt |-> i, load |-> loads]
Answered(m) == [kind |-> "answered", load |-> m.load]
EventOf(i) == [kind |-> "event", attempt |-> i, load |-> loads]

-----------------------------------------------------------------------------
(* The page.                                                               *)

\* load: the answers saved so far are shown again.
Load(m) ==
    /\ m.kind = "started" /\ m.load = loads /\ phase = "loading"
    /\ phase' = "taking"
    /\ attempt' = m.attempt /\ shown' = m.answers
    /\ net' = net \ {m}
    /\ careful' = careful \ {i \in {m.attempt} : loads > 1}
    /\ UNCHANGED <<server, typing, counters, final>>

\* A start that is refused, or fails, or whose answer is lost, sends the page back
\* to the exams.
Refuse(m) ==
    /\ m.kind \in {"start", "started"} /\ m.load = loads /\ phase = "loading"
    /\ phase' = "away"
    /\ net' = net \ {m}
    /\ UNCHANGED <<server, attempt, shown, typing, counters, final, careful>>

\* An answer is chosen or typed (v-model); nothing is sent before `change`.
Edit(q) ==
    /\ phase = "taking" /\ typing \subseteq {q} /\ edits < MaxEdits
    /\ edits' = edits + 1
    /\ shown' = [shown EXCEPT ![q] = edits']
    /\ typing' = {q}
    /\ UNCHANGED <<server, phase, attempt, net, loads, failures, final, careful>>

\* Mutant of Change: the change of an answered question is not sent.
ChangeFirst(q) ==
    /\ phase = "taking" /\ q \in typing
    /\ typing' = {}
    /\ net' = net \cup {[kind |-> "save", attempt |-> attempt, q |-> p, answer |-> shown[p]] :
                        p \in {p \in {q} : \A other \in Questions \ {p} : shown[other] = 0}}
    /\ careful' = careful \ {m.attempt : m \in {m \in Saves(attempt) : m.q = q}}
    /\ UNCHANGED <<server, phase, attempt, shown, counters, final>>

\* onAnswerChange, saveAnswer: nothing is waited for.
Change(q) ==
    /\ phase = "taking" /\ q \in typing
    /\ typing' = {}
    /\ net' = net \cup {[kind |-> "save", attempt |-> attempt, q |-> q, answer |-> shown[q]]}
    /\ careful' = careful \ {m.attempt : m \in {m \in Saves(attempt) : m.q = q}}
    /\ UNCHANGED <<server, phase, attempt, shown, counters, final>>

\* Mutant of DoSubmit: the timer submits no attempt that was not answered.
DoSubmitAnswered ==
    /\ phase = "taking" /\ shown # Blank
    /\ phase' = "leaving"
    /\ net' = net \cup {SubmitOf(attempt)}
    /\ final' = [final EXCEPT ![attempt] = shown]
    /\ careful' = careful \ Unsettled
    /\ UNCHANGED <<server, attempt, shown, typing, counters>>

\* doSubmit, by the button or by the timer; `submitted` is set for good.
DoSubmit ==
    /\ phase = "taking"
    /\ phase' = "leaving"
    /\ net' = net \cup {SubmitOf(attempt)}
    /\ final' = [final EXCEPT ![attempt] = shown]
    /\ careful' = careful \ Unsettled
    /\ UNCHANGED <<server, attempt, shown, typing, counters>>

\* The button takes the focus, so the field has changed before.
ByButton == typing = {} /\ DoSubmit
ByTimer == attempt \in late /\ DoSubmit

\* The `finally` of doSubmit: the page goes to the report, whatever the answer.
Leave(m) ==
    /\ m.kind = "answered" /\ m.load = loads /\ phase = "leaving"
    /\ phase' = "away"
    /\ net' = net \ {m}
    /\ UNCHANGED <<server, attempt, shown, typing, counters, final, careful>>

\* A refresh: onBeforeUnload reports, for the first time, then submits;
\* onPageLeave comes after it and is throttled.  The page starts afresh.
Unload ==
    /\ phase = "taking" /\ loads <= MaxLeaves
    /\ net' = net \cup {EventOf(attempt), SubmitOf(attempt),
                        [kind |-> "start", load |-> loads + 1]}
    /\ final' = [final EXCEPT ![attempt] = shown]
    /\ careful' = careful \ Unsettled
    /\ phase' = "loading" /\ loads' = loads + 1
    /\ attempt' = 0 /\ shown' = Blank /\ typing' = {}
    /\ UNCHANGED <<server, edits, failures>>

\* Leaving within the application: no handler submits.
Navigate == /\ phase = "taking"
            /\ phase' = "elsewhere"
            /\ UNCHANGED <<server, attempt, shown, typing, net, counters, final, careful>>

\* The exam is opened once more, while the submission is waited for or later.
Reopen ==
    /\ phase \in {"leaving", "away", "elsewhere"} /\ loads <= MaxLeaves
    /\ net' = net \cup {[kind |-> "start", load |-> loads + 1]}
    /\ phase' = "loading" /\ loads' = loads + 1
    /\ attempt' = 0 /\ shown' = Blank /\ typing' = {}
    /\ UNCHANGED <<server, edits, failures, final, careful>>

-----------------------------------------------------------------------------
(* The server.                                                             *)

Unfinished == {i \in DOMAIN attempts : attempts[i].status = "in_progress"}
paper == <<phase, attempt, shown, typing, counters, final>>

\* Start resumes the newest attempt in progress or creates one.
ServeStart(m) ==
    /\ m.kind = "start"
    /\ LET fresh == [status |-> "in_progress", saved |-> Blank, graded |-> Blank]
       IN  attempts' = IF Unfinished = {} THEN Append(attempts, fresh) ELSE attempts
    /\ LET i == CHOOSE i \in DOMAIN attempts' :
                   /\ attempts'[i].status = "in_progress"
                   /\ \A j \in DOMAIN attempts' : j > i => attempts'[j].status # "in_progress"
       IN  net' = (net \ {m}) \cup {[kind |-> "started", load |-> m.load, attempt |-> i,
                                     answers |-> attempts'[i].saved]}
    /\ UNCHANGED <<late, paper, careful>>

\* Mutant of SaveCheck: an answer is taken after the submission.
SaveCheckEver(m) ==
    /\ m.kind = "save"
    /\ net' = (net \ {m}) \cup {[m EXCEPT !.kind = "saving"]}
    /\ UNCHANGED <<server, paper, careful>>

\* SaveAnswer refuses after submission and after the deadline; the page does
\* not show it.
SaveCheck(m) ==
    /\ m.kind = "save"
    /\ IF attempts[m.attempt].status = "in_progress" /\ m.attempt \notin late
       THEN net' = (net \ {m}) \cup {[m EXCEPT !.kind = "saving"]} /\ UNCHANGED careful
       ELSE net' = net \ {m} /\ careful' = careful \ {m.attempt}
    /\ UNCHANGED <<server, paper>>

\* The row is written whole, not graded, whatever has become of the attempt.
SaveWrite(m) ==
    /\ m.kind = "saving"
    /\ attempts' = [attempts EXCEPT ![m.attempt].saved[m.q] = m.answer,
                                    ![m.attempt].graded[m.q] = 0]
    /\ net' = net \ {m}
    /\ UNCHANGED <<late, paper, careful>>

\* Submit: a conflict, if the attempt is submitted.
SubmitCheck(m) ==
    /\ m.kind = "submit"
    /\ net' = (net \ {m}) \cup {IF attempts[m.attempt].status = "in_progress"
                                 THEN [m EXCEPT !.kind = "submitting"] ELSE Answered(m)}
    /\ UNCHANGED <<server, paper, careful>>
SubmitRead(m) ==
    /\ m.kind = "submitting"
    /\ net' = (net \ {m}) \cup {[kind |-> "grading", attempt |-> m.attempt, load |-> m.load,
                                  answers |-> attempts[m.attempt].saved, todo |-> Questions]}
    /\ UNCHANGED <<server, paper, careful>>

\* The answers read are graded and written back one by one.
GradeRow(m) ==
    /\ m.kind = "grading"
    /\ \E q \in m.todo :
          /\ attempts' = [attempts EXCEPT ![m.attempt].saved[q] = m.answers[q],
                                          ![m.attempt].graded[q] = m.answers[q]]
          /\ net' = (net \ {m}) \cup {[m EXCEPT !.todo = @ \ {q}]}
    /\ UNCHANGED <<late, paper, careful>>
SubmitFinish(m) ==
    /\ m.kind = "grading" /\ m.todo = {}
    /\ attempts' = [attempts EXCEPT ![m.attempt].status = "submitted"]
    /\ net' = (net \ {m}) \cup {Answered(m)}
    /\ UNCHANGED <<late, paper, careful>>

\* Report: stored, refused as the attempt is submitted, or lost; the page never
\* knows.
ServeEvent(m) == /\ m.kind = "event"
                 /\ net' = net \ {m}
                 /\ UNCHANGED <<server, paper, careful>>

Fail == /\ failures < MaxFailures /\ failures' = failures + 1
        /\ UNCHANGED <<server, phase, attempt, shown, typing, loads, edits, final>>

\* The server or the connection fails a request, at whichever of its steps, and
\* the page is told.
FailMessage(m) ==
    /\ m.kind \in Saving \cup Submitting
    /\ Fail
    /\ net' = (net \ {m}) \cup (IF m.kind \in Submitting THEN {Answered(m)} ELSE {})
    /\ careful' = careful \ {i \in {m.attempt} : m.kind \in Saving}

\* The page gives up waiting for a submission that goes on.
Timeout(m) == /\ m.kind \in Submitting
              /\ Fail
              /\ net' = net \cup {Answered(m)}
              /\ UNCHANGED careful

\* findQuestion fails, and the submission leaves the row as it is.
MissRow(m) == /\ m.kind = "grading"
              /\ Fail
              /\ \E q \in m.todo : net' = (net \ {m}) \cup {[m EXCEPT !.todo = @ \ {q}]}
              /\ careful' = careful \ {m.attempt}

Deadline(i) == /\ i \in DOMAIN attempts \ late
               /\ late' = late \cup {i}
               /\ UNCHANGED <<attempts, net, paper, careful>>

Serve(m) == \/ ServeStart(m) \/ ServeEvent(m) \/ SaveCheck(m) \/ SaveWrite(m)
            \/ SubmitCheck(m) \/ SubmitRead(m) \/ GradeRow(m) \/ SubmitFinish(m)
Lose(m) == FailMessage(m) \/ Timeout(m) \/ MissRow(m)
Page == ByButton \/ Unload \/ Navigate \/ Reopen \/ (\E q \in Questions : Edit(q) \/ Change(q))

Next == \/ Page \/ ByTimer
        \/ \E m \in net : Serve(m) \/ Load(m) \/ Refuse(m) \/ Leave(m) \/ Lose(m)
        \/ \E i \in Ids : Deadline(i)

Spec == Init /\ [][Next]_vars

\* Requests under way arrive, the timer ticks and time passes; nothing makes a
\* student do anything.
Fairness == /\ WF_vars(\E m \in net : m.kind \in {"start"} \cup Submitting /\ Serve(m))
            /\ WF_vars(\E m \in net : Load(m) \/ Leave(m))
            /\ WF_vars(ByTimer)
            /\ \A i \in Ids : WF_vars(Deadline(i))
FairSpec == Spec /\ Fairness

-----------------------------------------------------------------------------
(* Safety.                                                                 *)

\* What is graded is what the page showed when it submitted, although it waits
\* for no save, as long as no answer was changed, and nothing submitted, with
\* a save under way, no save was refused or lost, no question was missed by the
\* submission and no page resumed.
GradedAsShown ==
    /\ TypeOK
    /\ \A i \in DOMAIN attempts :
          (attempts[i].status = "submitted" /\ i \in careful) =>
              attempts[i].graded = final[i]

\* Submitted, with no save and no submission past its check in the server.
Settled(i) ==
    /\ attempts[i].status = "submitted"
    /\ \A m \in net : m.kind \in {"saving", "submitting", "grading"} => m.attempt # i

\* A submission is never taken back; and once the requests that passed their
\* checks before it have ended, the saves that are late and the submissions
\* the page, its refresh or its timer send again are refused for good: the
\* answers and what is graded of them stay.
SettledForGood ==
    [][\A i \in DOMAIN attempts :
          /\ attempts[i].status = "submitted" => attempts'[i].status = "submitted"
          /\ Settled(i) => Settled(i)' /\ attempts'[i] = attempts[i]]_vars

(* Liveness.                                                               *)

\* README.md:10: an attempt on the page is submitted, at the deadline at the
\* latest, unless the student goes elsewhere in the application or a request is
\* lost (ExamTake.vue:203); refreshes, resumed attempts and a deadline before the
\* paper is there change nothing.
TakenIsSubmitted ==
    \A i \in Ids : (phase = "taking" /\ attempt = i) ~>
                      \/ phase = "elsewhere"
                      \/ failures > 0
                      \/ i \in DOMAIN attempts /\ attempts[i].status = "submitted"

-----------------------------------------------------------------------------
(* What documents and comments say and the code does not do.               *)

\* README.md:10 "the countdown submits": who is on the page at the deadline, and
\* does not go elsewhere in the application, has submitted in the end.
DeadlineSubmits ==
    \A i \in Ids : (phase = "taking" /\ attempt = i /\ i \in late) ~>
                      \/ phase = "elsewhere"
                      \/ i \in DOMAIN attempts /\ attempts[i].status = "submitted"

\* ExamTake.vue:319 "sent in order, so that the event is not refused after the
\* submission": a leave event arrives before its page's submission.
LeaveEventFirst ==
    [][\A m \in net : (m.kind = "grading" /\ m \notin net' /\
                       attempts'[m.attempt].status # attempts[m.attempt].status) =>
          ~\E e \in net : e.kind = "event" /\ e.load = m.load]_vars

\* README.md:10 "a refresh counts as submission": the page after a refresh does
\* not go on with the attempt that was left.
RefreshEndsAttempt ==
    [][\A m \in net : (m.kind \in Submitting /\ phase = "loading" /\ phase' = "taking") =>
          attempt' # m.attempt]_vars
=============================================================================
