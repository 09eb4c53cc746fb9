--------------------------- MODULE WrongBookProofs ---------------------------
(***************************************************************************)
(* Theorems about WrongBook.tla, for any questions, any number of requests *)
(* and any size of a page.                                                 *)
(***************************************************************************)
EXTENDS WrongBook, SetTheorems, SequenceTheorems

USE BookAssumption, RequestAssumption

-----------------------------------------------------------------------------
(* The invariant.                                                          *)

\* The row a writer found, and the rows a practice listed, are rows of the
\* question they were looked up for; a practice marks rows it listed.
Found ==
    /\ \A r \in Writers :
          /\ local[r].id \in 0..Len(book)
          /\ (pc[r] = "write" /\ local[r].id # 0) =>
                book[local[r].id].question = local[r].q
    /\ \A p \in Practices : \A q \in Questions :
          /\ local[p].record[q] \in 0..Len(book)
          /\ local[p].record[q] # 0 => book[local[p].record[q]].question = q
          /\ (pc[p] = "mark" /\ q = local[p].q) => local[p].record[q] # 0

Typed == TypeOK /\ Found

\* Requests that ended before another began have ended; one that has not begun
\* has seen none end and written nothing.
Ordered ==
    /\ \A r, s \in Requests : s \in before[r] => pc[s] \in Ended
    /\ \A r \in Requests : pc[r] = "idle" => before[r] = {}
    /\ \A r \in Writers : pc[r] = "idle" => recorded[r] = {}
    /\ \A i \in DOMAIN book : pc[book[i].by] # "idle"

\* A writer that found no row of its question has seen none of those that are
\* there now: the requests that wrote them had not ended when it began.
FoundNone ==
    \A r \in Writers : (pc[r] = "write" /\ local[r].id = 0) =>
        \A i \in RowsOf(local[r].q) : book[i].by \notin before[r]

\* Only a deletion takes a record out of the book.
NoneGone == Deleted \/ \A i \in DOMAIN book : ~book[i].gone

\* A question answered wrong has an unresolved record, unless a record was
\* deleted or a practice that did not end before the answer marked it.
StillThere ==
    \A r \in Writers : \A q \in recorded[r] :
        \/ Deleted
        \/ \E i \in RowsOf(q) : book[i].status = "unresolved"
        \/ \E p \in Practices : q \in marked[p] /\ p \notin before[r]

\* ResolvedByRightAnswer of every row, the deleted ones included.
Resolved ==
    \A i \in DOMAIN book : book[i].status = "resolved" =>
        \E p \in Practices :
            /\ book[i].question \in marked[p]
            /\ \A r \in Writers :
                  (book[i].question \in recorded[r] /\ p \in before[r]) =>
                     \E j \in DOMAIN book : j # i /\ book[j].question = book[i].question

BookInv == /\ Typed
           /\ Ordered
           /\ FoundNone
           /\ DuplicateOnlyByOverlap
           /\ NoneGone
           /\ StillThere
           /\ Resolved

-----------------------------------------------------------------------------
(* Types.                                                                  *)

\* The first state is typed.
LEMMA TypedInit == Init => Typed
<1> SUFFICES ASSUME Init PROVE Typed
  OBVIOUS
<1>1. local \in [Writers -> Local]
  BY DEF Init, Local
<1>2. \A r \in Writers : local[r].id = 0
  BY DEF Init
<1>3. \A r \in Writers : \A q \in Questions : local[r].record[q] = 0
  BY DEF Init
<1>4. Len(book) = 0 /\ book \in Seq(Row)
  BY DEF Init
<1>5. pc = [r \in Requests |-> "idle"]
  BY DEF Init
<1>6. TypeOK
  BY <1>1, <1>4, <1>5 DEF TypeOK, Init
<1>7. Found
  BY <1>2, <1>3, <1>4, <1>5 DEF Found, Writers, Requests
<1> QED BY <1>6, <1>7 DEF Typed

\* What the rows of a question are.
LEMMA Rows ==
    ASSUME TypeOK, NEW q \in Questions
    PROVE  /\ RowsOf(q) \subseteq DOMAIN book /\ DOMAIN book = 1..Len(book)
           /\ Len(book) \in Nat
           /\ \A i \in DOMAIN book : book[i] \in Row
           /\ \A i \in RowsOf(q) : book[i].question = q
           /\ RowsOf(q) # {} => Min(RowsOf(q)) \in RowsOf(q)
<1>1. book \in Seq(Row)
  BY DEF TypeOK
<1>2. DOMAIN book = 1..Len(book) /\ Len(book) \in Nat
  BY <1>1, LenProperties
<1>3. \A i \in DOMAIN book : book[i] \in Row
  BY <1>1, <1>2, ElementOfSeq
<1>4. RowsOf(q) \subseteq DOMAIN book /\ \A i \in RowsOf(q) : book[i].question = q
  BY DEF RowsOf, Ids
<1>5. RowsOf(q) \subseteq Nat
  BY <1>2, <1>4
<1> QED BY <1>2, <1>3, <1>4, <1>5, MinIs

\* The book after a writer has written.
LEMMA Written ==
    ASSUME Typed, NEW r \in Writers, pc[r] = "write", book' = Upserted(r)
    PROVE  /\ book' \in Seq(Row)
           /\ DOMAIN book \subseteq DOMAIN book'
           /\ Len(book') \in Nat /\ DOMAIN book' = 1..Len(book') /\ Len(book) <= Len(book')
           /\ local[r].id # 0 =>
                 /\ DOMAIN book' = DOMAIN book
                 /\ local[r].id \in DOMAIN book
                 /\ book'[local[r].id] = Counted(r, book[local[r].id], "unresolved")
           /\ local[r].id = 0 =>
                 /\ DOMAIN book' = DOMAIN book \cup {Len(book) + 1}
                 /\ Len(book) + 1 \notin DOMAIN book
                 /\ book'[Len(book) + 1] = NewRow(r, 1, "unresolved")
           /\ \A i \in DOMAIN book : i # local[r].id => book'[i] = book[i]
<1>1. book \in Seq(Row) /\ local[r] \in Local
  BY DEF Typed, TypeOK
<1>2. DOMAIN book = 1..Len(book) /\ Len(book) \in Nat
  BY <1>1, LenProperties
<1>3. \A i \in DOMAIN book : book[i] \in Row
  BY <1>1, <1>2, ElementOfSeq
<1>4. CASE local[r].id = 0
  <2>1. NewRow(r, 1, "unresolved") \in Row
    BY <1>1 DEF NewRow, Row, Local
  <2>2. book' = Append(book, NewRow(r, 1, "unresolved"))
    BY <1>4 DEF Upserted
  <2>3. /\ book' \in Seq(Row) /\ Len(book') = Len(book) + 1
        /\ \A i \in 1..Len(book) : book'[i] = book[i]
        /\ book'[Len(book) + 1] = NewRow(r, 1, "unresolved")
    BY <1>1, <2>1, <2>2, AppendProperties
  <2>4. DOMAIN book' = 1..(Len(book) + 1)
    BY <2>3, LenProperties
  <2> QED BY <1>2, <1>4, <2>3, <2>4
<1>5. CASE local[r].id # 0
  <2>1. local[r].id \in DOMAIN book
    BY <1>2, <1>5 DEF Typed, Found
  <2>2. Counted(r, book[local[r].id], "unresolved") \in Row
    <3>1. local[r].count + 1 \in Nat /\ local[r].at \in Nat
      BY <1>1 DEF Local
    <3>2. ASSUME NEW row \in Row, NEW n \in Nat, NEW t \in Nat
          PROVE  [row EXCEPT !.count = n, !.at = t, !.status = "unresolved"] \in Row
      BY DEF Row
    <3> QED BY <1>3, <2>1, <3>1, <3>2 DEF Counted
  <2>3. book' = [book EXCEPT ![local[r].id] = Counted(r, book[local[r].id], "unresolved")]
    BY <1>5 DEF Upserted
  <2>4. book' \in Seq(Row) /\ Len(book') = Len(book) /\ DOMAIN book' = DOMAIN book
    BY <1>1, <1>2, <2>1, <2>2, <2>3, ExceptSeq
  <2>5. /\ book'[local[r].id] = Counted(r, book[local[r].id], "unresolved")
        /\ \A i \in DOMAIN book : i # local[r].id => book'[i] = book[i]
    BY <2>1, <2>3
  <2>6. Len(book') = Len(book) /\ DOMAIN book' = 1..Len(book') /\ Len(book) <= Len(book')
    BY <1>2, <2>4
  <2> QED BY <1>2, <1>5, <2>1, <2>4, <2>5, <2>6
<1> QED BY <1>4, <1>5

\* A row keeps its question and its author whatever a writer writes.
LEMMA RowsKept ==
    ASSUME Typed, NEW r \in Writers, pc[r] = "write", book' = Upserted(r),
           NEW i \in DOMAIN book
    PROVE  /\ i \in DOMAIN book' /\ book'[i].question = book[i].question
           /\ book'[i].by = book[i].by /\ book'[i].gone = book[i].gone
<1>1. book \in Seq(Row)
  BY DEF Typed, TypeOK
<1>2. i \in 1..Len(book) /\ book[i] \in Row
  BY <1>1, LenProperties, ElementOfSeq
<1>3. CASE i = local[r].id
  <2>1. book'[i] = Counted(r, book[i], "unresolved")
    BY <1>2, <1>3, Written
  <2>2. Counted(r, book[i], "unresolved").question = book[i].question
        /\ Counted(r, book[i], "unresolved").by = book[i].by
        /\ Counted(r, book[i], "unresolved").gone = book[i].gone
    BY <1>2 DEF Counted, Row
  <2> QED BY <2>1, <2>2, Written
<1>4. CASE i # local[r].id
  BY <1>4, Written
<1> QED BY <1>3, <1>4

\* The least recently answered of some rows.
LEMMA Oldest ==
    ASSUME TypeOK, NEW S, S \subseteq DOMAIN book, S # {}
    PROVE  (CHOOSE i \in S : \A j \in S : book[i].at <= book[j].at) \in S
<1>1. \A i \in S : book[i].at \in Nat
  <2>1. book \in Seq(Row)
    BY DEF TypeOK
  <2>2. \A i \in DOMAIN book : book[i] \in Row
    BY <2>1, LenProperties, ElementOfSeq
  <2> QED BY <2>2 DEF Row
<1> DEFINE ats == {book[i].at : i \in S}
<1>2. ats \subseteq Nat /\ ats # {}
  BY <1>1
<1>3. Min(ats) \in ats /\ \A t \in ats : Min(ats) <= t
  BY <1>2, MinIs
<1>4. \E i \in S : \A j \in S : book[i].at <= book[j].at
  BY <1>3
<1> QED BY <1>4

-----------------------------------------------------------------------------
(* Types are kept.                                                         *)

\* Every step keeps the types.
LEMMA TypedStep ==
    ASSUME Typed, [Next]_vars
    PROVE  Typed'
<1> USE DEF Typed
<1>0. book \in Seq(Row) /\ DOMAIN book = 1..Len(book) /\ Len(book) \in Nat
  BY LenProperties DEF TypeOK
<1>1. ASSUME NEW r \in Collects, CollectBegin(r) PROVE Typed'
  <2> USE <1>1 DEF CollectBegin, Begin, Goto
  <2>1. r \in Writers /\ r \in Requests
    BY DEF Writers, Requests
  <2>2. \A w \in Writers : /\ local'[w] \in Local /\ local'[w].id = local[w].id
                           /\ local'[w].q = local[w].q /\ local'[w].record = local[w].record
    <3> SUFFICES ASSUME NEW w \in Writers
                 PROVE  /\ local'[w] \in Local /\ local'[w].id = local[w].id
                        /\ local'[w].q = local[w].q /\ local'[w].record = local[w].record
      OBVIOUS
    <3>1. local[w] \in Local /\ now' \in Nat
      BY DEF TypeOK
    <3> QED BY <3>1, <2>1 DEF TypeOK, Local
  <2>3. local' \in [Writers -> Local]
    BY <2>2 DEF TypeOK
  <2>4. TypeOK'
    BY <2>1, <2>3 DEF TypeOK, Running
  <2>5. Found'
    BY <2>1, <2>2, <1>0 DEF Found, TypeOK, Requests, Writers
  <2> QED BY <2>4, <2>5
<1>2. ASSUME NEW r \in Writers, UpsertFind(r) PROVE Typed'
  <2> USE <1>2 DEF Step, Goto
  <2>1. r \in Requests /\ local[r] \in Local
    BY DEF Requests, TypeOK
  <2> DEFINE found == RowsOf(local[r].q)
             id == IF found = {} THEN 0 ELSE Min(found)
             count == IF id = 0 THEN 0 ELSE book[id].count
  <2>2. local' = [local EXCEPT ![r].id = id, ![r].count = count]
    BY DEF UpsertFind
  <2>3. /\ id \in 0..Len(book)
        /\ id # 0 => id \in DOMAIN book /\ book[id].question = local[r].q
    <3>1. local[r].q \in Questions
      BY <2>1 DEF Local
    <3> QED BY <3>1, <1>0, Rows
  <2>4. count \in Nat
    BY <2>3, Rows, <1>0, ElementOfSeq DEF Row
  <2> HIDE DEF id, count, found
  <2>5. \A w \in Writers :
           /\ local'[w] \in Local
           /\ local'[w].q = local[w].q /\ local'[w].record = local[w].record
           /\ local'[w].id = IF w = r THEN id ELSE local[w].id
    <3> SUFFICES ASSUME NEW w \in Writers
                 PROVE  /\ local'[w] \in Local
                        /\ local'[w].q = local[w].q /\ local'[w].record = local[w].record
                        /\ local'[w].id = IF w = r THEN id ELSE local[w].id
      OBVIOUS
    <3>1. local[w] \in Local /\ id \in Nat
      BY <2>3, <1>0 DEF TypeOK
    <3> QED BY <3>1, <2>2, <2>4 DEF TypeOK, Local
  <2>6. local' \in [Writers -> Local]
    BY <2>2, <2>5 DEF TypeOK
  <2>7. pc' = [pc EXCEPT ![r] = "write"] /\ book' = book
    BY DEF UpsertFind
  <2>8. TypeOK'
    BY <2>1, <2>6, <2>7 DEF TypeOK, Running, UpsertFind
  <2>9. Found'
    <3>1. \A w \in Writers : (pc'[w] = "write" /\ local'[w].id # 0) =>
             book[local'[w].id].question = local'[w].q
      BY <2>1, <2>3, <2>5, <2>7 DEF Found, TypeOK, Requests
    <3>2. \A w \in Writers : local'[w].id \in 0..Len(book)
      BY <2>3, <2>5 DEF Found
    <3>3. \A p \in Practices : pc'[p] = "mark" => pc[p] = "mark"
      BY <2>1, <2>7 DEF TypeOK, Requests, Writers
    <3> QED BY <3>1, <3>2, <3>3, <2>5, <2>7 DEF Found, Writers
  <2> QED BY <2>8, <2>9
<1>3. ASSUME NEW r \in Writers, UpsertWrite(r) PROVE Typed'
  <2>1. r \in Requests /\ local[r] \in Local /\ pc[r] = "write" /\ book' = Upserted(r)
    BY <1>3 DEF Requests, TypeOK, UpsertWrite, Step
  <2>2. book' \in Seq(Row) /\ Len(book') \in Nat /\ Len(book) <= Len(book')
    BY <2>1, Written
  <2>3. recorded' \in [Writers -> SUBSET Questions]
    BY <1>3, <2>1 DEF UpsertWrite, TypeOK, Local
  <2>4. /\ pc' = [pc EXCEPT ![r] = IF r \in Collects THEN "done" ELSE "answer"]
        /\ UNCHANGED <<bank, now, local, offered, marked, before>>
    BY <1>3 DEF UpsertWrite, Step, Goto
  <2>5. TypeOK'
    BY <2>1, <2>2, <2>3, <2>4 DEF TypeOK, Running, Ended
  <2>6. \A i \in DOMAIN book : i \in DOMAIN book' /\ book'[i].question = book[i].question
    BY <2>1, RowsKept
  <2>7. \A w \in Requests : /\ pc'[w] = "write" => pc[w] = "write"
                            /\ pc'[w] = "mark" => pc[w] = "mark"
    BY <2>1, <2>4 DEF TypeOK
  <2>8. Found'
    BY <1>0, <2>2, <2>4, <2>6, <2>7 DEF Found, Requests, Writers
  <2> QED BY <2>5, <2>8
<1>4. ASSUME NEW v \in Reads, Practice(v) PROVE Typed'
  <2> USE <1>4 DEF Practice, Begin, Goto
  <2>1. v \in Requests
    BY DEF Requests
  <2>2. Unresolved(Page) \cap bank \subseteq Questions
    BY DEF TypeOK
  <2>3. TypeOK'
    BY <2>1, <2>2 DEF TypeOK, Ended
  <2>4. Found'
    BY <2>1 DEF Found, TypeOK, Requests, Writers
  <2> QED BY <2>3, <2>4
<1>5. ASSUME NEW p \in Practices, PracticeBegin(p) PROVE Typed'
  <2> USE <1>5 DEF PracticeBegin, Begin, Goto
  <2>1. p \in Writers /\ p \in Requests
    BY DEF Writers, Requests
  <2>2. \A w \in Writers : /\ local'[w] \in Local /\ local'[w].id = local[w].id
                           /\ local'[w].q = local[w].q /\ local'[w].record = local[w].record
    <3> SUFFICES ASSUME NEW w \in Writers
                 PROVE  /\ local'[w] \in Local /\ local'[w].id = local[w].id
                        /\ local'[w].q = local[w].q /\ local'[w].record = local[w].record
      OBVIOUS
    <3>1. local[w] \in Local
      BY DEF TypeOK
    <3> QED BY <3>1, <2>1 DEF TypeOK, Local
  <2>3. local' \in [Writers -> Local]
    BY <2>2 DEF TypeOK
  <2>4. TypeOK'
    BY <2>1, <2>3 DEF TypeOK, Running
  <2>5. Found'
    BY <2>1, <2>2, <1>0 DEF Found, TypeOK, Requests, Writers
  <2> QED BY <2>4, <2>5
<1>6. ASSUME NEW p \in Practices, PracticeList(p) PROVE Typed'
  <2>1. p \in Writers /\ p \in Requests
    BY DEF Writers, Requests
  <2> DEFINE listed(q) == RowsOf(q) \cap Page
             oldest(q) ==
                IF listed(q) = {} THEN 0
                ELSE CHOOSE i \in listed(q) : \A j \in listed(q) : book[i].at <= book[j].at
             record == [q \in Questions |-> oldest(q)]
  <2>2. local' = [local EXCEPT ![p].record = record]
    BY <1>6 DEF PracticeList
  <2>3. ASSUME NEW q \in Questions
        PROVE  oldest(q) \in 0..Len(book) /\ (oldest(q) # 0 => book[oldest(q)].question = q)
    <3>1. CASE listed(q) = {}
      BY <3>1, <1>0
    <3>2. CASE listed(q) # {}
      <4>1. listed(q) \subseteq DOMAIN book /\ listed(q) \subseteq RowsOf(q)
        BY Rows
      <4>2. oldest(q) \in listed(q)
        BY <3>2, <4>1, Oldest
      <4> QED BY <1>0, <4>1, <4>2, Rows
    <3> QED BY <3>1, <3>2
  <2>4. record \in [Questions -> Nat]
    <3> HIDE DEF oldest
    <3>1. \A q \in Questions : oldest(q) \in Nat
      BY <1>0, <2>3
    <3> QED BY <3>1
  <2>10. \A q \in Questions : record[q] = oldest(q)
    OBVIOUS
  <2> HIDE DEF record, oldest
  <2>5. \A w \in Writers : /\ local'[w] \in Local /\ local'[w].id = local[w].id
                           /\ local'[w].q = local[w].q
                           /\ local'[w].record = IF w = p THEN record ELSE local[w].record
    <3> SUFFICES ASSUME NEW w \in Writers
                 PROVE  /\ local'[w] \in Local /\ local'[w].id = local[w].id
                        /\ local'[w].q = local[w].q
                        /\ local'[w].record = IF w = p THEN record ELSE local[w].record
      OBVIOUS
    <3>1. local[w] \in Local
      BY DEF TypeOK
    <3> QED BY <3>1, <2>1, <2>2, <2>4 DEF TypeOK, Local
  <2>6. local' \in [Writers -> Local]
    BY <2>2, <2>5 DEF TypeOK
  <2>7. /\ pc' = [pc EXCEPT ![p] = "answer"]
        /\ UNCHANGED <<book, bank, now, offered, before, recorded, marked>>
    BY <1>6 DEF PracticeList, Step, Goto
  <2>8. TypeOK'
    BY <2>1, <2>6, <2>7 DEF TypeOK, Running
  <2>9. Found'
    <3>1. \A w \in Requests : pc'[w] \in {"write", "mark"} => pc'[w] = pc[w] /\ w # p
      BY <2>1, <2>7 DEF TypeOK
    <3>2. \A w \in Practices : w \in Writers /\ w \in Requests
      BY DEF Writers, Requests
    <3>3. \A w \in Writers : w \in Requests
      BY DEF Writers, Requests
    <3>4. \A w \in Writers :
            /\ local'[w].id \in 0..Len(book')
            /\ (pc'[w] = "write" /\ local'[w].id # 0) =>
                  book'[local'[w].id].question = local'[w].q
      BY <2>5, <2>7, <3>1, <3>3 DEF Found
    <3>5. ASSUME NEW w \in Practices, NEW q \in Questions
          PROVE  /\ local'[w].record[q] \in 0..Len(book')
                 /\ local'[w].record[q] # 0 => book'[local'[w].record[q]].question = q
                 /\ (pc'[w] = "mark" /\ q = local'[w].q) => local'[w].record[q] # 0
      <4>1. CASE w = p
        BY <4>1, <2>3, <2>5, <2>7, <2>10, <3>1, <3>2
      <4>2. CASE w # p
        BY <4>2, <2>5, <2>7, <3>1, <3>2 DEF Found
      <4> QED BY <4>1, <4>2
    <3> QED BY <3>4, <3>5 DEF Found
  <2> QED BY <2>8, <2>9
<1>7. ASSUME NEW p \in Practices, PracticeAnswer(p) PROVE Typed'
  <2>1. p \in Writers /\ p \in Requests /\ local[p] \in Local /\ now + 1 \in Nat
    BY DEF Writers, Requests, TypeOK
  <2>2. UNCHANGED <<book, bank, offered, before, recorded, marked>>
    BY <1>7 DEF PracticeAnswer, Step
  <2>3. CASE local[p].todo = {}
    <3>1. pc' = [pc EXCEPT ![p] = "done"] /\ UNCHANGED <<now, local>>
      BY <1>7, <2>3 DEF PracticeAnswer, Step, Goto
    <3>2. TypeOK'
      BY <2>1, <2>2, <3>1 DEF TypeOK, Ended
    <3>3. \A w \in Requests : pc'[w] \in {"write", "mark"} => pc'[w] = pc[w]
      BY <2>1, <3>1 DEF TypeOK
    <3> QED BY <2>2, <3>1, <3>2, <3>3 DEF Found, Requests, Writers
  <2>4. CASE local[p].todo # {}
    <3>1. PICK q \in local[p].todo :
            LET answered == [local[p] EXCEPT !.todo = @ \ {q}, !.q = q]
            IN  IF q \in local[p].right
                THEN /\ Step(p, "answer", IF local[p].record[q] = 0
                                          THEN "answer" ELSE "mark")
                     /\ local' = [local EXCEPT ![p] = answered]
                     /\ UNCHANGED now
                ELSE /\ Step(p, "answer", "find")
                     /\ now' = now + 1
                     /\ local' = [local EXCEPT ![p] = [answered EXCEPT !.at = now']]
      BY <1>7, <2>4 DEF PracticeAnswer
    <3> DEFINE answered == [local[p] EXCEPT !.todo = @ \ {q}, !.q = q]
               stamped == [answered EXCEPT !.at = now']
    <3>2. q \in Questions
      BY <2>1 DEF Local
    <3>3. PICK at \in Nat, to \in {"answer", "mark", "find"} :
            /\ now' \in Nat
            /\ local' = [local EXCEPT ![p] = [answered EXCEPT !.at = at]]
            /\ pc[p] = "answer" /\ pc' = [pc EXCEPT ![p] = to]
            /\ to = "mark" => local[p].record[q] # 0
      <4>1. CASE q \in local[p].right
        <5>1. answered = [answered EXCEPT !.at = local[p].at] /\ local[p].at \in Nat
          BY <2>1, <3>2 DEF Local
        <5>2. /\ local' = [local EXCEPT ![p] = answered] /\ now' = now
              /\ pc[p] = "answer"
              /\ pc' = [pc EXCEPT ![p] = IF local[p].record[q] = 0 THEN "answer" ELSE "mark"]
          BY <3>1, <4>1 DEF Step, Goto
        <5>3. local' = [local EXCEPT ![p] = [answered EXCEPT !.at = local[p].at]]
          BY <5>1, <5>2, Zenon
        <5> HIDE DEF answered
        <5>4. now' \in Nat
          BY <5>2 DEF TypeOK
        <5>5. CASE local[p].record[q] = 0
          BY <5>1, <5>2, <5>3, <5>4, <5>5
        <5>6. CASE local[p].record[q] # 0
          BY <5>1, <5>2, <5>3, <5>4, <5>6
        <5> QED BY <5>5, <5>6
      <4>2. CASE q \notin local[p].right
        <5>1. /\ local' = [local EXCEPT ![p] = [answered EXCEPT !.at = now']]
              /\ now' = now + 1 /\ pc[p] = "answer" /\ pc' = [pc EXCEPT ![p] = "find"]
          BY <3>1, <4>2 DEF Step, Goto
        <5>2. now' \in Nat
          BY <2>1, <5>1
        <5> HIDE DEF answered
        <5> QED BY <5>1, <5>2
      <4> QED BY <4>1, <4>2
    <3>4. \A w \in Writers : /\ local'[w] \in Local /\ local'[w].id = local[w].id
                             /\ local'[w].record = local[w].record
                             /\ local'[w].q = IF w = p THEN q ELSE local[w].q
      <4>1. ASSUME NEW l \in Local
            PROVE  LET m == [[l EXCEPT !.todo = l.todo \ {q}, !.q = q] EXCEPT !.at = at]
                   IN  /\ m \in Local /\ m.id = l.id /\ m.record = l.record /\ m.q = q
        BY <3>2, <3>3 DEF Local
      <4>2. \A w \in Writers : local[w] \in Local
        BY DEF TypeOK
      <4>3. \A w \in Writers :
              local'[w] = IF w = p THEN [answered EXCEPT !.at = at] ELSE local[w]
        BY <2>1, <3>3 DEF TypeOK
      <4> QED BY <2>1, <4>1, <4>2, <4>3
    <3>5. local' \in [Writers -> Local]
      BY <3>3, <3>4 DEF TypeOK
    <3>6. TypeOK'
      BY <2>1, <2>2, <3>3, <3>5 DEF TypeOK, Running
    <3>7. Found'
      <4>1. \A w \in Requests : pc'[w] \in {"write", "mark"} =>
                                    IF w = p THEN pc'[w] = to ELSE pc'[w] = pc[w]
        BY <2>1, <3>3 DEF TypeOK
      <4>2. \A w \in Writers : w \in Requests
        BY DEF Requests
      <4>3. \A w \in Practices : w \in Writers
        BY DEF Writers
      <4>4. \A w \in Writers :
              /\ local'[w].id \in 0..Len(book)
              /\ (pc'[w] = "write" /\ local'[w].id # 0) =>
                    book[local'[w].id].question = local'[w].q
        BY <3>3, <3>4, <4>1, <4>2 DEF Found
      <4>5. \A w \in Practices : \A k \in Questions :
              /\ local'[w].record[k] \in 0..Len(book)
              /\ local'[w].record[k] # 0 => book[local'[w].record[k]].question = k
              /\ (pc'[w] = "mark" /\ k = local'[w].q) => local'[w].record[k] # 0
        BY <3>3, <3>4, <4>1, <4>2, <4>3 DEF Found
      <4> QED BY <2>2, <4>4, <4>5 DEF Found
    <3> QED BY <3>6, <3>7
  <2> QED BY <2>3, <2>4
<1>8. ASSUME NEW p \in Practices, PracticeMark(p) PROVE Typed'
  <2> DEFINE id == local[p].record[local[p].q]
  <2>1. p \in Writers /\ p \in Requests /\ local[p] \in Local /\ local[p].q \in Questions
    BY DEF Writers, Requests, TypeOK, Local
  <2>2. UNCHANGED <<bank, now, local, offered, recorded, before>> /\ pc[p] = "mark"
    BY <1>8 DEF PracticeMark, Step
  <2>3. id \in DOMAIN book
    BY <1>0, <2>1, <2>2 DEF Found
  <2>4. PICK to \in {"refused", "answer"} : pc' = [pc EXCEPT ![p] = to]
    BY <1>8 DEF PracticeMark, Step, Goto
  <2>5. /\ book' \in Seq(Row) /\ Len(book') = Len(book)
        /\ \A i \in DOMAIN book : book'[i].question = book[i].question
        /\ marked' \in [Writers -> SUBSET Questions]
    <3>1. CASE book' = book /\ marked' = marked
      BY <1>0, <3>1 DEF TypeOK
    <3>2. CASE /\ book' = [book EXCEPT ![id].status = "resolved"]
               /\ marked' = [marked EXCEPT ![p] = @ \cup {local[p].q}]
      <4>1. \A i \in DOMAIN book : book[i] \in Row
        BY <1>0, ElementOfSeq
      <4>2. ASSUME NEW row \in Row
            PROVE  /\ [row EXCEPT !.status = "resolved"] \in Row
                   /\ [row EXCEPT !.status = "resolved"].question = row.question
        BY DEF Row
      <4>3. book' = [book EXCEPT ![id] = [book[id] EXCEPT !.status = "resolved"]]
        BY <3>2
      <4> HIDE DEF id
      <4>4. book' \in Seq(Row) /\ Len(book') = Len(book)
        BY <1>0, <2>3, <4>1, <4>2, <4>3, ExceptSeq
      <4>5. \A i \in DOMAIN book : book'[i].question = book[i].question
        BY <2>3, <4>1, <4>2, <4>3
      <4>6. marked' \in [Writers -> SUBSET Questions]
        BY <2>1, <3>2 DEF TypeOK
      <4> QED BY <4>4, <4>5, <4>6
    <3> QED BY <1>8, <3>1, <3>2 DEF PracticeMark
  <2>6. TypeOK'
    BY <2>1, <2>2, <2>4, <2>5 DEF TypeOK, Running, Ended
  <2>7. \A w \in Requests : /\ pc'[w] = "write" => pc[w] = "write"
                            /\ pc'[w] = "mark" => pc[w] = "mark"
    BY <2>1, <2>4 DEF TypeOK
  <2>8. /\ \A w \in Writers : w \in Requests
        /\ \A w \in Practices : w \in Writers
    BY DEF Requests, Writers
  <2>9. Found'
    <3>1. \A w \in Writers : (local[w].id # 0) => local[w].id \in DOMAIN book
      BY <1>0 DEF Found
    <3>2. \A w \in Practices : \A k \in Questions :
             local[w].record[k] # 0 => local[w].record[k] \in DOMAIN book
      BY <1>0 DEF Found
    <3> QED BY <2>2, <2>5, <2>7, <2>8, <3>1, <3>2 DEF Found
  <2> QED BY <2>6, <2>9
<1>9. ASSUME NEW d \in Deletes, DeleteRow(d) PROVE Typed'
  <2>1. d \in Requests /\ d \notin Writers
    BY DEF Requests
  <2>2. /\ UNCHANGED <<bank, now, local, offered, recorded, marked>>
        /\ before' = [before EXCEPT ![d] = {s \in Requests : pc[s] \in Ended}]
    BY <1>9 DEF DeleteRow, Begin
  <2>3. PICK to \in {"done", "refused"} : pc' = [pc EXCEPT ![d] = to]
    BY <1>9 DEF DeleteRow, Begin, Goto
  <2>4. /\ book' \in Seq(Row) /\ Len(book') = Len(book)
        /\ \A i \in DOMAIN book : book'[i].question = book[i].question
    <3>1. CASE book' = book
      BY <1>0, <3>1
    <3>2. ASSUME NEW id \in Ids, book' = [book EXCEPT ![id].gone = TRUE]
          PROVE  /\ book' \in Seq(Row) /\ Len(book') = Len(book)
                 /\ \A i \in DOMAIN book : book'[i].question = book[i].question
      <4>1. \A i \in DOMAIN book : book[i] \in Row
        BY <1>0, ElementOfSeq
      <4>2. ASSUME NEW row \in Row
            PROVE  /\ [row EXCEPT !.gone = TRUE] \in Row
                   /\ [row EXCEPT !.gone = TRUE].question = row.question
        BY DEF Row
      <4>3. book' = [book EXCEPT ![id] = [book[id] EXCEPT !.gone = TRUE]] /\ id \in DOMAIN book
        BY <3>2 DEF Ids
      <4>4. book' \in Seq(Row) /\ Len(book') = Len(book)
        BY <1>0, <4>1, <4>2, <4>3, ExceptSeq
      <4> QED BY <4>1, <4>2, <4>3, <4>4
    <3> QED BY <1>9, <3>1, <3>2 DEF DeleteRow
  <2>5. TypeOK'
    BY <2>1, <2>2, <2>3, <2>4 DEF TypeOK, Ended
  <2>6. \A w \in Writers : w \in Requests /\ pc'[w] = pc[w]
    BY <2>1, <2>3 DEF TypeOK, Requests
  <2>7. Found'
    <3>1. \A w \in Writers : (local[w].id # 0) => local[w].id \in DOMAIN book
      BY <1>0 DEF Found
    <3>2. \A w \in Practices : w \in Writers /\ \A k \in Questions :
             local[w].record[k] # 0 => local[w].record[k] \in DOMAIN book
      BY <1>0 DEF Found, Writers
    <3> QED BY <2>2, <2>4, <2>6, <3>1, <3>2 DEF Found
  <2> QED BY <2>5, <2>7
<1>10. ASSUME NEW r \in Writers, Fail(r) PROVE Typed'
  <2>1. r \in Requests /\ pc' = [pc EXCEPT ![r] = "failed"]
    BY <1>10 DEF Requests, Fail, Goto
  <2>2. UNCHANGED <<book, bank, now, local, offered, before, recorded, marked>>
    BY <1>10 DEF Fail
  <2>3. TypeOK'
    BY <2>1, <2>2 DEF TypeOK, Ended
  <2>4. \A w \in Requests : pc'[w] \in {"write", "mark"} => pc'[w] = pc[w]
    BY <2>1 DEF TypeOK
  <2> QED BY <2>2, <2>3, <2>4 DEF Found, Requests, Writers
<1>11. ASSUME NEW q \in Questions, DeleteQuestion(q) PROVE Typed'
  BY <1>11 DEF DeleteQuestion, TypeOK, Found
<1>12. ASSUME UNCHANGED vars PROVE Typed'
  BY <1>12 DEF vars, TypeOK, Found
<1> QED BY <1>1, <1>2, <1>3, <1>4, <1>5, <1>6, <1>7, <1>8, <1>9, <1>10, <1>11, <1>12 DEF Next

-----------------------------------------------------------------------------
(* What a step does.                                                       *)

\* A request that ended stays as it is; one that began does not begin again;
\* what ended before it is noted when it begins.  A writer gets to its write by
\* the lookup only.
LEMMA Moves ==
    ASSUME Typed, [Next]_vars
    PROVE  /\ \A s \in Requests : /\ pc[s] \in Ended => pc'[s] = pc[s]
                                  /\ pc[s] # "idle" => pc'[s] # "idle"
           /\ \A r \in Requests :
                 \/ before'[r] = before[r]
                 \/ /\ pc[r] = "idle" /\ pc'[r] # "idle"
                    /\ before'[r] = {s \in Requests : pc[s] \in Ended}
           /\ \A w \in Writers : pc'[w] = "write" =>
                 \/ pc[w] = "write" /\ local'[w].id = local[w].id /\ local'[w].q = local[w].q
                 \/ UpsertFind(w)
<1> DEFINE Moved(r, to) == /\ r \in Requests /\ pc[r] \in {"idle"} \cup Running
                           /\ to \in Running \cup Ended /\ pc' = [pc EXCEPT ![r] = to]
           Noted(r) == before' = [before EXCEPT ![r] = {s \in Requests : pc[s] \in Ended}]
<1>a. pc \in [Requests -> {"idle"} \cup Running \cup Ended] /\ before \in [Requests -> SUBSET Requests]
  BY DEF Typed, TypeOK
<1>b. /\ \A r \in Writers : r \in Requests
      /\ \A p \in Practices : p \in Writers
      /\ \A r \in Collects : r \in Writers
      /\ \A d \in Deletes : d \in Requests /\ d \notin Writers
      /\ \A v \in Reads : v \in Requests /\ v \notin Writers
  BY DEF Writers, Requests
<1>c. local \in [Writers -> Local]
  BY DEF Typed, TypeOK
<1>1. ASSUME NEW r \in Requests, NEW to \in Running \cup Ended, Moved(r, to),
             \/ before' = before
             \/ pc[r] = "idle" /\ Noted(r)
      PROVE  /\ \A s \in Requests : /\ pc[s] \in Ended => pc'[s] = pc[s]
                                    /\ pc[s] # "idle" => pc'[s] # "idle"
             /\ \A s \in Requests :
                   \/ before'[s] = before[s]
                   \/ /\ pc[s] = "idle" /\ pc'[s] # "idle"
                      /\ before'[s] = {t \in Requests : pc[t] \in Ended}
             /\ \A w \in Writers : (pc'[w] = "write" /\ to # "write") =>
                                      pc[w] = "write" /\ w # r
  BY <1>1, <1>a, <1>b DEF Running, Ended
<1>2. ASSUME NEW r \in Requests, NEW to \in (Running \cup Ended) \ {"write"}, Moved(r, to),
             \/ before' = before
             \/ pc[r] = "idle" /\ Noted(r),
             \A w \in Writers : w # r => local'[w] = local[w]
      PROVE  /\ \A s \in Requests : /\ pc[s] \in Ended => pc'[s] = pc[s]
                                    /\ pc[s] # "idle" => pc'[s] # "idle"
             /\ \A s \in Requests :
                   \/ before'[s] = before[s]
                   \/ /\ pc[s] = "idle" /\ pc'[s] # "idle"
                      /\ before'[s] = {t \in Requests : pc[t] \in Ended}
             /\ \A w \in Writers : pc'[w] = "write" =>
                   \/ pc[w] = "write" /\ local'[w].id = local[w].id /\ local'[w].q = local[w].q
                   \/ UpsertFind(w)
  BY <1>1, <1>2
<1> HIDE DEF Moved, Noted
<1>3. ASSUME NEW r \in Collects, CollectBegin(r)
      PROVE  /\ Moved(r, "find") /\ pc[r] = "idle" /\ Noted(r)
             /\ \A w \in Writers : w # r => local'[w] = local[w]
  BY <1>3, <1>b, <1>c DEF CollectBegin, Begin, Goto, Running, Moved, Noted
<1>4. ASSUME NEW r \in Writers, UpsertFind(r)
      PROVE  /\ Moved(r, "write") /\ before' = before
             /\ \A w \in Writers : w # r => local'[w] = local[w]
  BY <1>4, <1>b, <1>c DEF UpsertFind, Step, Goto, Running, Moved, Noted
<1>5. ASSUME NEW r \in Writers, UpsertWrite(r)
      PROVE  \E to \in (Running \cup Ended) \ {"write"} :
                /\ Moved(r, to) /\ before' = before /\ local' = local
  BY <1>5, <1>b DEF UpsertWrite, Step, Goto, Running, Ended, Moved, Noted
<1>6. ASSUME NEW v \in Reads, Practice(v)
      PROVE  Moved(v, "done") /\ pc[v] = "idle" /\ Noted(v) /\ local' = local
  BY <1>6, <1>b DEF Practice, Begin, Goto, Ended, Moved, Noted
<1>7. ASSUME NEW p \in Practices, PracticeBegin(p)
      PROVE  /\ Moved(p, "list") /\ pc[p] = "idle" /\ Noted(p)
             /\ \A w \in Writers : w # p => local'[w] = local[w]
  BY <1>7, <1>b, <1>c DEF PracticeBegin, Begin, Goto, Running, Moved, Noted
<1>8. ASSUME NEW p \in Practices, PracticeList(p)
      PROVE  /\ Moved(p, "answer") /\ before' = before
             /\ \A w \in Writers : w # p => local'[w] = local[w]
  <2>1. \A w \in Writers : w # p => local'[w] = local[w]
    BY <1>8, <1>b, <1>c DEF PracticeList
  <2> QED BY <1>8, <1>b, <2>1 DEF PracticeList, Step, Goto, Running, Moved, Noted
<1>9. ASSUME NEW p \in Practices, PracticeAnswer(p)
      PROVE  \E to \in (Running \cup Ended) \ {"write"} :
                /\ Moved(p, to) /\ before' = before
                /\ \A w \in Writers : w # p => local'[w] = local[w]
  <2>1. pc[p] = "answer" /\ before' = before
    BY <1>9 DEF PracticeAnswer, Step
  <2>2. \E to \in {"done", "answer", "mark", "find"} : pc' = [pc EXCEPT ![p] = to]
    BY <1>9 DEF PracticeAnswer, Step, Goto
  <2>3. \A w \in Writers : w # p => local'[w] = local[w]
    BY <1>9, <1>b, <1>c DEF PracticeAnswer
  <2> QED BY <1>b, <2>1, <2>2, <2>3 DEF Running, Ended, Moved
<1>10. ASSUME NEW p \in Practices, PracticeMark(p)
       PROVE  \E to \in (Running \cup Ended) \ {"write"} :
                 Moved(p, to) /\ before' = before /\ local' = local
  <2>1. pc[p] = "mark" /\ before' = before /\ local' = local
    BY <1>10 DEF PracticeMark, Step
  <2>2. \E to \in {"refused", "answer"} : pc' = [pc EXCEPT ![p] = to]
    BY <1>10 DEF PracticeMark, Step, Goto
  <2> QED BY <1>b, <2>1, <2>2 DEF Running, Ended, Moved
<1>11. ASSUME NEW d \in Deletes, DeleteRow(d)
       PROVE  \E to \in Ended : Moved(d, to) /\ pc[d] = "idle" /\ Noted(d) /\ local' = local
  <2>1. pc[d] = "idle" /\ Noted(d) /\ local' = local
    BY <1>11 DEF DeleteRow, Begin, Noted
  <2>2. \E to \in {"refused", "done"} : pc' = [pc EXCEPT ![d] = to]
    BY <1>11 DEF DeleteRow, Begin, Goto
  <2> QED BY <1>b, <2>1, <2>2 DEF Ended, Moved
<1>12. ASSUME NEW r \in Writers, Fail(r)
       PROVE  Moved(r, "failed") /\ before' = before /\ local' = local
  BY <1>12, <1>b DEF Fail, Goto, Ended, Moved
<1>13. ASSUME UNCHANGED <<pc, before, local>>
       PROVE  /\ \A s \in Requests : /\ pc[s] \in Ended => pc'[s] = pc[s]
                                     /\ pc[s] # "idle" => pc'[s] # "idle"
              /\ \A r \in Requests : before'[r] = before[r]
              /\ \A w \in Writers : pc'[w] = "write" =>
                    pc[w] = "write" /\ local'[w].id = local[w].id /\ local'[w].q = local[w].q
  BY <1>13
<1>14. CASE \E r \in Writers : UpsertFind(r)
  <2>1. PICK r \in Writers : UpsertFind(r)
    BY <1>14
  <2>2. r \in Requests /\ "write" \in Running \cup Ended
    BY <1>b DEF Running
  <2>3. \A w \in Writers : w # r /\ pc'[w] = "write" => pc[w] = "write"
    BY <1>4, <2>1, <1>a, <1>b DEF Moved
  <2> QED BY <1>1, <1>4, <2>1, <2>2, <2>3
<1>15. CASE \E r \in Collects : CollectBegin(r)
  BY <1>2, <1>3, <1>15, <1>b DEF Running, Ended
<1>16. CASE \E r \in Writers : UpsertWrite(r)
  <2>1. PICK r \in Writers : UpsertWrite(r)
    BY <1>16
  <2>2. PICK to \in (Running \cup Ended) \ {"write"} :
                /\ Moved(r, to) /\ before' = before /\ local' = local
    BY <1>5, <2>1
  <2> QED BY <1>2, <2>2, <1>b
<1>17. CASE \E v \in Reads : Practice(v)
  BY <1>2, <1>6, <1>17, <1>b DEF Running, Ended
<1>18. CASE \E p \in Practices : PracticeBegin(p)
  BY <1>2, <1>7, <1>18, <1>b DEF Running, Ended
<1>19. CASE \E p \in Practices : PracticeList(p)
  BY <1>2, <1>8, <1>19, <1>b DEF Running, Ended
<1>20. CASE \E p \in Practices : PracticeAnswer(p)
  BY <1>2, <1>9, <1>20, <1>b
<1>21. CASE \E p \in Practices : PracticeMark(p)
  BY <1>2, <1>10, <1>21, <1>b
<1>22. CASE \E d \in Deletes : DeleteRow(d)
  <2>1. \A to \in Ended : to \in (Running \cup Ended) \ {"write"}
    BY DEF Ended
  <2> QED BY <1>2, <1>11, <1>22, <1>b, <2>1
<1>23. CASE \E r \in Writers : Fail(r)
  BY <1>2, <1>12, <1>23, <1>b DEF Running, Ended
<1>24. CASE (\E q \in Questions : DeleteQuestion(q)) \/ UNCHANGED vars
  BY <1>13, <1>24 DEF DeleteQuestion, vars
<1> QED BY <1>14, <1>15, <1>16, <1>17, <1>18, <1>19, <1>20, <1>21, <1>22, <1>23, <1>24 DEF Next

\* Only four kinds of steps touch the book, and what has been answered.
LEMMA Writes ==
    ASSUME [Next]_vars
    PROVE  \/ UNCHANGED <<book, recorded, marked>>
           \/ \E r \in Writers : UpsertWrite(r)
           \/ \E p \in Practices : PracticeMark(p)
           \/ \E d \in Deletes : DeleteRow(d)
  BY DEF Next, vars, CollectBegin, UpsertFind, PracticeBegin, PracticeList, PracticeAnswer,
         Practice, Fail, DeleteQuestion

\* A practice resolves the row it listed for the question it is at, or ends.
LEMMA Marks ==
    ASSUME Typed, NEW p \in Practices, PracticeMark(p)
    PROVE  /\ pc[p] = "mark" /\ recorded' = recorded
           /\ DOMAIN book' = DOMAIN book
           /\ \A w \in Writers : marked[w] \subseteq marked'[w]
           /\ \A i \in DOMAIN book :
                 /\ book'[i].question = book[i].question
                 /\ book'[i].by = book[i].by /\ book'[i].gone = book[i].gone
                 /\ \/ book'[i].status = book[i].status
                    \/ book[i].question \in marked'[p]
<1> DEFINE id == local[p].record[local[p].q]
<1>1. p \in Writers /\ local[p] \in Local /\ local[p].q \in Questions
  BY DEF Writers, Typed, TypeOK, Local
<1>2. pc[p] = "mark" /\ recorded' = recorded
  BY DEF PracticeMark, Step
<1>3. book \in Seq(Row) /\ DOMAIN book = 1..Len(book)
  BY LenProperties DEF Typed, TypeOK
<1>4. \A i \in DOMAIN book : book[i] \in Row
  BY <1>3, ElementOfSeq
<1>5. id \in DOMAIN book /\ book[id].question = local[p].q
  BY <1>1, <1>2, <1>3 DEF Typed, Found
<1>6. CASE book' = book /\ marked' = marked
  BY <1>2, <1>6
<1>7. CASE /\ book' = [book EXCEPT ![id].status = "resolved"]
           /\ marked' = [marked EXCEPT ![p] = @ \cup {local[p].q}]
  <2>1. ASSUME NEW row \in Row
        PROVE  /\ [row EXCEPT !.status = "resolved"].question = row.question
               /\ [row EXCEPT !.status = "resolved"].by = row.by
               /\ [row EXCEPT !.status = "resolved"].gone = row.gone
    BY DEF Row
  <2>2. book' = [book EXCEPT ![id] = [book[id] EXCEPT !.status = "resolved"]]
    BY <1>7
  <2>3. local[p].q \in marked'[p] /\ \A w \in Writers : marked[w] \subseteq marked'[w]
    BY <1>1, <1>7 DEF Typed, TypeOK
  <2> HIDE DEF id
  <2>4. \A i \in DOMAIN book :
           /\ book'[i].question = book[i].question
           /\ book'[i].by = book[i].by /\ book'[i].gone = book[i].gone
           /\ i # id => book'[i].status = book[i].status
    BY <1>4, <1>5, <2>1, <2>2
  <2>5. DOMAIN book' = DOMAIN book
    BY <2>2
  <2> QED BY <1>2, <1>5, <2>3, <2>4, <2>5
<1> QED BY <1>6, <1>7 DEF PracticeMark

\* A deletion ends a row and leaves the others.
LEMMA Removes ==
    ASSUME Typed, NEW d \in Deletes, DeleteRow(d)
    PROVE  /\ DOMAIN book' = DOMAIN book /\ UNCHANGED <<recorded, marked>>
           /\ book' = book \/ Deleted'
           /\ \A i \in DOMAIN book :
                 /\ book'[i].question = book[i].question
                 /\ book'[i].by = book[i].by
                 /\ book[i].gone => book'[i].gone
                 /\ book'[i].status = book[i].status
<1>1. UNCHANGED <<recorded, marked>>
  BY DEF DeleteRow
<1>2. book \in Seq(Row) /\ DOMAIN book = 1..Len(book)
  BY LenProperties DEF Typed, TypeOK
<1>3. \A i \in DOMAIN book : book[i] \in Row
  BY <1>2, ElementOfSeq
<1>4. CASE book' = book
  BY <1>1, <1>4
<1>5. ASSUME NEW id \in Ids, Begin(d, "done"), book' = [book EXCEPT ![id].gone = TRUE]
      PROVE  /\ DOMAIN book' = DOMAIN book /\ Deleted'
             /\ \A i \in DOMAIN book :
                   /\ book'[i].question = book[i].question
                   /\ book'[i].by = book[i].by
                   /\ book[i].gone => book'[i].gone
                   /\ book'[i].status = book[i].status
  <2>1. ASSUME NEW row \in Row
        PROVE  /\ [row EXCEPT !.gone = TRUE].question = row.question
               /\ [row EXCEPT !.gone = TRUE].by = row.by
               /\ [row EXCEPT !.gone = TRUE].gone
               /\ [row EXCEPT !.gone = TRUE].status = row.status
    BY DEF Row
  <2>2. book' = [book EXCEPT ![id] = [book[id] EXCEPT !.gone = TRUE]] /\ id \in DOMAIN book
    BY <1>5 DEF Ids
  <2>3. pc'[d] = "done"
    BY <1>5 DEF Begin, Goto, Typed, TypeOK, Requests
  <2> QED BY <1>3, <2>1, <2>2, <2>3 DEF Deleted
<1> QED BY <1>1, <1>4, <1>5 DEF DeleteRow

\* Rows keep their question and author, deleted ones stay deleted, and a new row
\* is one a writer adds that found none.
LEMMA Grows ==
    ASSUME Typed, [Next]_vars
    PROVE  /\ \A i \in DOMAIN book :
                 /\ i \in DOMAIN book' /\ book'[i].question = book[i].question
                 /\ book'[i].by = book[i].by
                 /\ book[i].gone => book'[i].gone
           /\ \A i \in DOMAIN book' \ DOMAIN book :
                 /\ i = Len(book) + 1
                 /\ \E r \in Writers : /\ pc[r] = "write" /\ local[r].id = 0
                                       /\ book'[i] = NewRow(r, 1, "unresolved")
<1>1. CASE UNCHANGED <<book, recorded, marked>>
  BY <1>1
<1>2. CASE \E r \in Writers : UpsertWrite(r)
  <2>1. PICK r \in Writers : pc[r] = "write" /\ book' = Upserted(r)
    BY <1>2 DEF UpsertWrite, Step
  <2>2. \A i \in DOMAIN book :
           /\ i \in DOMAIN book' /\ book'[i].question = book[i].question
           /\ book'[i].by = book[i].by /\ book'[i].gone = book[i].gone
    BY <2>1, RowsKept
  <2>3. \A i \in DOMAIN book' \ DOMAIN book :
           i = Len(book) + 1 /\ local[r].id = 0 /\ book'[i] = NewRow(r, 1, "unresolved")
    BY <2>1, Written
  <2> QED BY <2>1, <2>2, <2>3
<1>3. CASE \E p \in Practices : PracticeMark(p)
  BY <1>3, Marks
<1>4. CASE \E d \in Deletes : DeleteRow(d)
  BY <1>4, Removes
<1> QED BY <1>1, <1>2, <1>3, <1>4, Writes

\* A deletion that succeeded stays one.
LEMMA StillDeleted ==
    ASSUME Typed, [Next]_vars, Deleted
    PROVE  Deleted'
<1>1. PICK d \in Deletes : pc[d] = "done"
  BY DEF Deleted
<1>2. pc'[d] = pc[d]
  BY <1>1, Moves DEF Requests, Ended
<1> QED BY <1>1, <1>2 DEF Deleted

-----------------------------------------------------------------------------
(* The invariant is kept.                                                  *)

\* What has ended before a request began is settled when it begins.
LEMMA OrderedKept ==
    ASSUME Typed, Ordered, [Next]_vars
    PROVE  Ordered'
<1>0. before \in [Requests -> SUBSET Requests] /\ \A r \in Writers : r \in Requests
  BY DEF Typed, TypeOK, Requests
<1>1. \A r, s \in Requests : s \in before'[r] => pc'[s] \in Ended
  <2> SUFFICES ASSUME NEW r \in Requests, NEW s \in Requests, s \in before'[r]
               PROVE  pc'[s] \in Ended
    OBVIOUS
  <2>1. pc[s] \in Ended
    BY Moves DEF Ordered
  <2> QED BY <2>1, Moves
<1>2. \A r \in Requests : pc'[r] = "idle" => before'[r] = {}
  BY Moves DEF Ordered
<1>3. \A r \in Writers : pc'[r] = "idle" => recorded'[r] = {}
  <2> SUFFICES ASSUME NEW r \in Writers, pc'[r] = "idle" PROVE recorded'[r] = {}
    OBVIOUS
  <2>1. pc[r] = "idle" /\ recorded[r] = {}
    BY <1>0, Moves DEF Ordered
  <2>2. CASE \E w \in Writers : UpsertWrite(w)
    <3>1. PICK w \in Writers : UpsertWrite(w)
      BY <2>2
    <3>2. w # r
      BY <2>1, <3>1 DEF UpsertWrite, Step
    <3> QED BY <2>1, <3>1, <3>2 DEF UpsertWrite, Typed, TypeOK
  <2> QED BY <2>1, <2>2, Writes, Marks, Removes
<1>4. \A i \in DOMAIN book' : pc'[book'[i].by] # "idle"
  <2> SUFFICES ASSUME NEW i \in DOMAIN book' PROVE pc'[book'[i].by] # "idle"
    OBVIOUS
  <2>1. CASE i \in DOMAIN book
    <3>1. book[i] \in Row
      BY <2>1, LenProperties, ElementOfSeq DEF Typed, TypeOK
    <3>2. book[i].by \in Requests
      BY <1>0, <3>1 DEF Row
    <3> QED BY <2>1, <3>2, Grows, Moves DEF Ordered
  <2>2. CASE i \notin DOMAIN book
    <3>1. PICK r \in Writers : pc[r] = "write" /\ book'[i] = NewRow(r, 1, "unresolved")
      BY <2>2, Grows
    <3>2. book'[i].by = r
      BY <3>1 DEF NewRow
    <3> QED BY <1>0, <3>1, <3>2, Moves
  <2> QED BY <2>1, <2>2
<1> QED BY <1>1, <1>2, <1>3, <1>4 DEF Ordered

\* Rows of the question that appear between lookup and write come from
\* requests that run.
LEMMA FoundNoneKept ==
    ASSUME Typed, Ordered, FoundNone, [Next]_vars
    PROVE  FoundNone'
<1> SUFFICES ASSUME NEW r \in Writers, pc'[r] = "write", local'[r].id = 0,
                    NEW i \in DOMAIN book', ~book'[i].gone, book'[i].question = local'[r].q
             PROVE  book'[i].by \notin before'[r]
  BY DEF FoundNone, RowsOf, Ids
<1>0. r \in Requests /\ \A w \in Writers : w \in Requests
  BY DEF Requests
<1>1. CASE UpsertFind(r)
  <2>1. local[r].q \in Questions /\ local[r] \in Local /\ local \in [Writers -> Local]
    BY DEF Typed, TypeOK, Local
  <2>2. book' = book
    BY <1>1 DEF UpsertFind
  <2> DEFINE found == RowsOf(local[r].q)
             count == IF found = {} THEN 0 ELSE Min(found)
  <2>3. local'[r].id = (IF found = {} THEN 0 ELSE Min(found)) /\ local'[r].q = local[r].q
    BY <1>1, <2>1 DEF UpsertFind, Local
  <2>4. found # {} => Min(found) \in 1..Len(book)
    BY <2>1, Rows DEF Typed
  <2>5. found = {}
    BY <2>3, <2>4 DEF Typed, TypeOK
  <2> QED BY <2>2, <2>3, <2>5 DEF RowsOf, Ids
<1>2. CASE pc[r] = "write" /\ local'[r].id = local[r].id /\ local'[r].q = local[r].q
  <2>1. before'[r] = before[r]
    BY <1>0, <1>2, Moves
  <2>2. CASE i \in DOMAIN book
    <3>1. i \in RowsOf(local[r].q) /\ book'[i].by = book[i].by
      BY <1>2, <2>2, Grows DEF RowsOf, Ids
    <3> QED BY <1>2, <2>1, <3>1 DEF FoundNone
  <2>3. CASE i \notin DOMAIN book
    <3>1. PICK w \in Writers : pc[w] = "write" /\ book'[i] = NewRow(w, 1, "unresolved")
      BY <2>3, Grows
    <3>2. book'[i].by = w
      BY <3>1 DEF NewRow
    <3>3. w \notin before[r]
      BY <1>0, <3>1 DEF Ordered, Ended
    <3> QED BY <2>1, <3>2, <3>3
  <2> QED BY <2>2, <2>3
<1> QED BY <1>1, <1>2, Moves

\* Two records of a question come from requests that overlapped.
LEMMA DuplicatesKept ==
    ASSUME Typed, Ordered, FoundNone, DuplicateOnlyByOverlap, [Next]_vars
    PROVE  DuplicateOnlyByOverlap'
<1> SUFFICES ASSUME NEW i \in DOMAIN book', NEW j \in DOMAIN book', i < j,
                    book'[i].question = book'[j].question, ~book'[i].gone, ~book'[j].gone
             PROVE  /\ pc'[book'[i].by] # "idle" /\ pc'[book'[j].by] # "idle"
                    /\ book'[i].by \notin before'[book'[j].by]
                    /\ book'[j].by \notin before'[book'[i].by]
  BY DEF DuplicateOnlyByOverlap, Apart
<1>0. /\ \A w \in Writers : w \in Requests
      /\ DOMAIN book = 1..Len(book) /\ Len(book) \in Nat
      /\ \A k \in DOMAIN book : book[k] \in Row
  BY LenProperties, ElementOfSeq DEF Requests, Typed, TypeOK
<1>1. ASSUME NEW p \in Requests, NEW r \in Requests,
             pc[p] # "idle", pc[r] # "idle", p \notin before[r], r \notin before[p]
      PROVE  pc'[p] # "idle" /\ pc'[r] # "idle" /\ p \notin before'[r] /\ r \notin before'[p]
  BY <1>1, Moves
<1>2. i \in DOMAIN book
  <2> SUFFICES ASSUME i \notin DOMAIN book PROVE FALSE
    OBVIOUS
  <2>1. i = Len(book) + 1
    BY Grows
  <2>2. j \in DOMAIN book \/ j = Len(book) + 1
    BY Grows
  <2> QED BY <1>0, <2>1, <2>2
<1>3. /\ book'[i].question = book[i].question /\ book'[i].by = book[i].by
      /\ ~book[i].gone /\ book[i].by \in Requests /\ pc[book[i].by] # "idle"
  BY <1>0, <1>2, Grows DEF Ordered, Row
<1>4. CASE j \in DOMAIN book
  <2>1. /\ book'[j].question = book[j].question /\ book'[j].by = book[j].by
        /\ ~book[j].gone /\ book[j].by \in Requests
    BY <1>0, <1>4, Grows DEF Row
  <2>2. ~Apart(book[i].by, book[j].by)
    BY <1>2, <1>3, <1>4, <2>1 DEF DuplicateOnlyByOverlap
  <2>3. /\ pc[book[j].by] # "idle"
        /\ book[i].by \notin before[book[j].by] /\ book[j].by \notin before[book[i].by]
    BY <2>2 DEF Apart
  <2> QED BY <1>1, <1>3, <2>1, <2>3
<1>5. CASE j \notin DOMAIN book
  <2>1. PICK r \in Writers : /\ pc[r] = "write" /\ local[r].id = 0
                             /\ book'[j] = NewRow(r, 1, "unresolved")
    BY <1>5, Grows
  <2>2. book'[j].by = r /\ book'[j].question = local[r].q
    BY <2>1 DEF NewRow
  <2>3. i \in RowsOf(local[r].q)
    BY <1>2, <1>3, <2>2 DEF RowsOf, Ids
  <2>4. book[i].by \notin before[r]
    BY <2>1, <2>3 DEF FoundNone
  <2>5. r \notin before[book[i].by] /\ pc[r] # "idle"
    BY <1>0, <1>3, <2>1 DEF Ordered, Ended
  <2> QED BY <1>0, <1>1, <1>3, <2>2, <2>4, <2>5
<1> QED BY <1>4, <1>5

\* Only a deletion takes a record out of the book.
LEMMA NoneGoneKept ==
    ASSUME Typed, NoneGone, [Next]_vars
    PROVE  NoneGone'
<1> SUFFICES ASSUME ~Deleted' PROVE \A i \in DOMAIN book' : ~book'[i].gone
  BY DEF NoneGone
<1>1. \A i \in DOMAIN book : ~book[i].gone
  BY StillDeleted DEF NoneGone
<1>2. CASE UNCHANGED <<book, recorded, marked>>
  BY <1>1, <1>2
<1>3. CASE \E r \in Writers : UpsertWrite(r)
  <2>1. PICK r \in Writers : pc[r] = "write" /\ book' = Upserted(r)
    BY <1>3 DEF UpsertWrite, Step
  <2>2. \A i \in DOMAIN book : ~book'[i].gone
    BY <1>1, <2>1, RowsKept
  <2>3. \A i \in DOMAIN book' \ DOMAIN book : ~book'[i].gone
    BY Grows DEF NewRow
  <2> QED BY <2>2, <2>3
<1>4. CASE \E p \in Practices : PracticeMark(p)
  BY <1>1, <1>4, Marks
<1>5. CASE \E d \in Deletes : DeleteRow(d)
  BY <1>1, <1>5, Removes
<1> QED BY <1>2, <1>3, <1>4, <1>5, Writes

\* The row a writer writes is unresolved then.
LEMMA WrittenRow ==
    ASSUME Typed, NEW r \in Writers, pc[r] = "write", book' = Upserted(r)
    PROVE  \E i \in DOMAIN book' :
              /\ book'[i].question = local[r].q /\ book'[i].status = "unresolved"
              /\ i \in DOMAIN book <=> local[r].id # 0
              /\ local[r].id # 0 => i = local[r].id
              /\ i \notin DOMAIN book => ~book'[i].gone
              /\ \A j \in DOMAIN book : j # i => book'[j] = book[j]
              /\ \A j \in DOMAIN book' \ DOMAIN book : j = i
<1>0. /\ DOMAIN book = 1..Len(book) /\ Len(book) \in Nat
      /\ \A k \in DOMAIN book : book[k] \in Row
  BY LenProperties, ElementOfSeq DEF Typed, TypeOK
<1>1. CASE local[r].id = 0
  <2>0. book'[Len(book) + 1] = NewRow(r, 1, "unresolved")
    BY <1>1, Written
  <2>1. /\ book'[Len(book) + 1].question = local[r].q
        /\ book'[Len(book) + 1].status = "unresolved" /\ ~book'[Len(book) + 1].gone
    BY <2>0 DEF NewRow
  <2>2. \A j \in DOMAIN book : book'[j] = book[j]
    BY <1>0, <1>1, Written
  <2>3. Len(book) + 1 \in DOMAIN book' \ DOMAIN book
        /\ \A j \in DOMAIN book' \ DOMAIN book : j = Len(book) + 1
    BY <1>1, Written
  <2> QED BY <1>1, <2>1, <2>2, <2>3
<1>2. CASE local[r].id # 0
  <2>1. /\ local[r].id \in DOMAIN book /\ DOMAIN book' = DOMAIN book
        /\ book'[local[r].id] = Counted(r, book[local[r].id], "unresolved")
    BY <1>2, Written
  <2>2. book[local[r].id].question = local[r].q
    BY <1>2 DEF Typed, Found
  <2>3. Counted(r, book[local[r].id], "unresolved").status = "unresolved"
    <3>1. ASSUME NEW row \in Row PROVE Counted(r, row, "unresolved").status = "unresolved"
      BY DEF Row, Counted
    <3> QED BY <1>0, <2>1, <3>1
  <2>4. book'[local[r].id].question = local[r].q
    BY <2>1, <2>2, RowsKept
  <2> QED BY <1>2, <2>1, <2>3, <2>4, Written
<1> QED BY <1>1, <1>2

\* A wrong answer's record stays unresolved but for a practice that runs.
LEMMA StillThereKept ==
    ASSUME Typed, Ordered, NoneGone, StillThere, [Next]_vars
    PROVE  StillThere'
<1> SUFFICES ASSUME NEW r \in Writers, NEW q \in recorded'[r], ~Deleted'
             PROVE  \/ \E i \in DOMAIN book' : /\ ~book'[i].gone /\ book'[i].question = q
                                               /\ book'[i].status = "unresolved"
                    \/ \E p \in Practices : q \in marked'[p] /\ p \notin before'[r]
  BY DEF StillThere, RowsOf, Ids
<1>0. /\ \A i \in DOMAIN book : ~book[i].gone
      /\ \A i \in DOMAIN book' : ~book'[i].gone
      /\ \A w \in Writers : w \in Requests
      /\ \A p \in Practices : p \in Requests /\ p \in Writers
  BY StillDeleted, NoneGoneKept DEF NoneGone, Requests, Writers
<1>1. ASSUME q \in recorded[r]
      PROVE  /\ before'[r] = before[r]
             /\ \/ \E i \in DOMAIN book : book[i].question = q /\ book[i].status = "unresolved"
                \/ \E p \in Practices : q \in marked[p] /\ p \notin before'[r]
  <2>1. pc[r] # "idle"
    BY <1>1 DEF Ordered
  <2>2. before'[r] = before[r]
    BY <1>0, <2>1, Moves
  <2> QED BY <1>1, <2>2, StillDeleted DEF StillThere, RowsOf, Ids
<1>2. CASE UNCHANGED <<book, recorded, marked>>
  BY <1>0, <1>1, <1>2
<1>3. CASE \E w \in Writers : UpsertWrite(w)
  <2>1. PICK w \in Writers : UpsertWrite(w)
    BY <1>3
  <2>2. /\ pc[w] = "write" /\ book' = Upserted(w) /\ marked' = marked
        /\ recorded' = [recorded EXCEPT ![w] = @ \cup {local[w].q}]
    BY <2>1 DEF UpsertWrite, Step
  <2>3. PICK i \in DOMAIN book' :
              /\ book'[i].question = local[w].q /\ book'[i].status = "unresolved"
              /\ \A j \in DOMAIN book : j # i => book'[j] = book[j]
    BY <2>2, WrittenRow
  <2>4. q \in recorded[r] \/ q = local[w].q
    BY <2>2 DEF Typed, TypeOK
  <2>5. CASE q \in recorded[r] /\ q # local[w].q
    <3>1. CASE \E p \in Practices : q \in marked[p] /\ p \notin before'[r]
      BY <2>2, <3>1
    <3>2. ASSUME NEW k \in DOMAIN book, book[k].question = q, book[k].status = "unresolved"
          PROVE  \E j \in DOMAIN book' : book'[j].question = q /\ book'[j].status = "unresolved"
      <4>1. k \in DOMAIN book' /\ book'[k].question = q
        BY <2>2, <3>2, RowsKept
      <4>2. k # i
        BY <2>3, <2>5, <4>1
      <4> QED BY <2>3, <3>2, <4>1, <4>2
    <3> QED BY <1>0, <1>1, <2>5, <3>1, <3>2
  <2> QED BY <1>0, <2>3, <2>4, <2>5
<1>4. CASE \E p \in Practices : PracticeMark(p)
  <2>1. PICK p \in Practices : PracticeMark(p)
    BY <1>4
  <2>2. /\ pc[p] = "mark" /\ recorded' = recorded /\ DOMAIN book' = DOMAIN book
        /\ \A w \in Writers : marked[w] \subseteq marked'[w]
        /\ \A i \in DOMAIN book :
              /\ book'[i].question = book[i].question
              /\ \/ book'[i].status = book[i].status
                 \/ book[i].question \in marked'[p]
    BY <2>1, Marks
  <2>3. p \notin before'[r]
    <3>1. p \notin before[r]
      BY <1>0, <2>2 DEF Ordered, Ended
    <3> QED BY <1>1, <2>2, <3>1
  <2> QED BY <1>0, <1>1, <2>2, <2>3
<1>5. CASE \E d \in Deletes : DeleteRow(d)
  BY <1>0, <1>1, <1>5, Removes
<1> QED BY <1>2, <1>3, <1>4, <1>5, Writes

\* A resolved row is written again, if at all, as unresolved.
LEMMA ResolvedKept ==
    ASSUME Typed, Ordered, Resolved, [Next]_vars
    PROVE  Resolved'
<1> SUFFICES ASSUME NEW i \in DOMAIN book', book'[i].status = "resolved"
             PROVE  \E p \in Practices :
                       /\ book'[i].question \in marked'[p]
                       /\ \A r \in Writers :
                             (book'[i].question \in recorded'[r] /\ p \in before'[r]) =>
                                \E j \in DOMAIN book' :
                                   j # i /\ book'[j].question = book'[i].question
  BY DEF Resolved
<1>0. /\ \A w \in Writers : w \in Requests
      /\ \A p \in Practices : p \in Requests /\ p \in Writers
  BY DEF Requests, Writers
<1>1. \A r \in Writers : recorded[r] # {} => before'[r] = before[r]
  BY <1>0, Moves DEF Ordered
<1>2. ASSUME i \in DOMAIN book, book[i].status = "resolved", recorded' = recorded,
             \A w \in Writers : marked[w] \subseteq marked'[w]
      PROVE  \E p \in Practices :
                       /\ book'[i].question \in marked'[p]
                       /\ \A r \in Writers :
                             (book'[i].question \in recorded'[r] /\ p \in before'[r]) =>
                                \E j \in DOMAIN book' :
                                   j # i /\ book'[j].question = book'[i].question
  <2>1. PICK p \in Practices :
            /\ book[i].question \in marked[p]
            /\ \A r \in Writers :
                  (book[i].question \in recorded[r] /\ p \in before[r]) =>
                     \E j \in DOMAIN book : j # i /\ book[j].question = book[i].question
    BY <1>2 DEF Resolved
  <2>2. \A k \in DOMAIN book : k \in DOMAIN book' /\ book'[k].question = book[k].question
    BY Grows
  <2> QED BY <1>0, <1>1, <1>2, <2>1, <2>2
<1>3. CASE UNCHANGED <<book, recorded, marked>>
  BY <1>2, <1>3
<1>4. CASE \E w \in Writers : UpsertWrite(w)
  <2>1. PICK w \in Writers : UpsertWrite(w)
    BY <1>4
  <2>2. /\ pc[w] = "write" /\ book' = Upserted(w) /\ marked' = marked
        /\ recorded' = [recorded EXCEPT ![w] = @ \cup {local[w].q}]
    BY <2>1 DEF UpsertWrite, Step
  <2>3. PICK k \in DOMAIN book' :
              /\ book'[k].question = local[w].q /\ book'[k].status = "unresolved"
              /\ \A j \in DOMAIN book : j # k => book'[j] = book[j]
              /\ \A j \in DOMAIN book' \ DOMAIN book : j = k
    BY <2>2, WrittenRow
  <2>4. i # k /\ i \in DOMAIN book /\ book'[i] = book[i]
    BY <2>3
  <2>5. PICK p \in Practices :
            /\ book[i].question \in marked[p]
            /\ \A r \in Writers :
                  (book[i].question \in recorded[r] /\ p \in before[r]) =>
                     \E j \in DOMAIN book : j # i /\ book[j].question = book[i].question
    BY <2>4 DEF Resolved
  <2>6. ASSUME NEW r \in Writers, book[i].question \in recorded'[r], p \in before'[r]
        PROVE  \E j \in DOMAIN book' : j # i /\ book'[j].question = book[i].question
    <3>1. CASE book[i].question \in recorded[r]
      <4>1. before'[r] = before[r]
        BY <1>1, <3>1
      <4>2. PICK j \in DOMAIN book : j # i /\ book[j].question = book[i].question
        BY <2>5, <2>6, <3>1, <4>1
      <4>3. j \in DOMAIN book' /\ book'[j].question = book[j].question
        BY Grows
      <4> QED BY <4>2, <4>3
    <3>2. CASE book[i].question \notin recorded[r]
      <4>1. book[i].question = local[w].q
        BY <2>2, <2>6, <3>2 DEF Typed, TypeOK
      <4> QED BY <2>3, <2>4, <4>1
    <3> QED BY <3>1, <3>2
  <2> QED BY <2>2, <2>4, <2>5, <2>6
<1>5. CASE \E p \in Practices : PracticeMark(p)
  <2>1. PICK p \in Practices : PracticeMark(p)
    BY <1>5
  <2>2. /\ pc[p] = "mark" /\ recorded' = recorded /\ DOMAIN book' = DOMAIN book
        /\ \A w \in Writers : marked[w] \subseteq marked'[w]
        /\ book'[i].question = book[i].question
        /\ \/ book'[i].status = book[i].status
           \/ book[i].question \in marked'[p]
    BY <2>1, Marks
  <2>3. \A r \in Writers : recorded'[r] # {} => p \notin before'[r]
    BY <1>0, <1>1, <2>2 DEF Ordered, Ended
  <2>4. CASE book[i].question \in marked'[p]
    BY <2>2, <2>3, <2>4
  <2> QED BY <1>2, <2>2, <2>4
<1>6. CASE \E d \in Deletes : DeleteRow(d)
  BY <1>2, <1>6, Removes
<1> QED BY <1>3, <1>4, <1>5, <1>6, Writes

\* The invariant holds of every state.
LEMMA Invariant == Spec => []BookInv
<1>1. Init => BookInv
  <2> SUFFICES ASSUME Init PROVE BookInv
    OBVIOUS
  <2>1. Typed
    BY TypedInit
  <2>2. book = <<>> /\ DOMAIN book = {}
    BY DEF Init
  <2>3. /\ \A r \in Requests : pc[r] = "idle" /\ before[r] = {}
        /\ \A r \in Writers : r \in Requests /\ recorded[r] = {}
    BY DEF Init, Requests
  <2> QED BY <2>1, <2>2, <2>3
          DEF BookInv, Ordered, FoundNone, DuplicateOnlyByOverlap, NoneGone, StillThere, Resolved
<1>2. BookInv /\ [Next]_vars => BookInv'
  BY TypedStep, OrderedKept, FoundNoneKept, DuplicatesKept, NoneGoneKept, StillThereKept,
     ResolvedKept DEF BookInv
<1> QED BY <1>1, <1>2, PTL DEF Spec

-----------------------------------------------------------------------------
(* The theorems.                                                           *)

\* Book, requests and their local variables keep their types.
THEOREM TypeCorrect == Spec => []TypeOK
<1>1. BookInv => TypeOK
  BY DEF BookInv, Typed
<1> QED BY <1>1, Invariant, PTL

\* Two records of a question that are in the book together come from requests
\* that overlapped (repository_wrong_question.go:17).
THEOREM DuplicatesOverlap == Spec => []DuplicateOnlyByOverlap
<1>1. BookInv => DuplicateOnlyByOverlap
  BY DEF BookInv
<1> QED BY <1>1, Invariant, PTL

\* A resolved record stands for a right answer in a practice, and wrong answers
\* given after that practice went into another record of the question.
THEOREM ResolvedRightly == Spec => []ResolvedByRightAnswer
<1>1. BookInv => ResolvedByRightAnswer
  BY DEF BookInv, Resolved, ResolvedByRightAnswer, Ids
<1> QED BY <1>1, Invariant, PTL

\* The book is finite.
LEMMA FiniteBook ==
    ASSUME TypeOK
    PROVE  IsFiniteSet(Ids)
<1>1. book \in Seq(Row) /\ DOMAIN book = 1..Len(book) /\ Len(book) \in Nat
  BY LenProperties DEF TypeOK
<1>2. IsFiniteSet(1..Len(book))
  BY <1>1, FS_Interval
<1>3. Ids \subseteq 1..Len(book)
  BY <1>1 DEF Ids
<1> QED BY <1>2, <1>3, FS_Subset

\* A page that holds the whole book is the whole book.
LEMMA WholePage ==
    ASSUME TypeOK, Cardinality(Ids) <= PageCap
    PROVE  Page = Ids
<1>1. book \in Seq(Row) /\ DOMAIN book = 1..Len(book) /\ Len(book) \in Nat
  BY LenProperties DEF TypeOK
<1>2. IsFiniteSet(Ids)
  BY FiniteBook
<1>3. \A i \in DOMAIN book : book[i].at \in Nat
  <2>1. \A i \in DOMAIN book : book[i] \in Row
    BY <1>1, ElementOfSeq
  <2> QED BY <2>1 DEF Row
<1>4. ASSUME NEW i \in Ids
      PROVE  Cardinality({j \in Ids : book[j].at > book[i].at}) < PageCap
  <2> DEFINE later == {j \in Ids : book[j].at > book[i].at}
  <2>1. i \in DOMAIN book
    BY DEF Ids
  <2>2. later \subseteq Ids \ {i}
    BY <1>3, <2>1
  <2>3. IsFiniteSet(Ids \ {i}) /\ Cardinality(Ids \ {i}) = Cardinality(Ids) - 1
    BY <1>2, <1>4, FS_RemoveElement
  <2>4. Cardinality(later) <= Cardinality(Ids \ {i}) /\ IsFiniteSet(later)
    BY <2>2, <2>3, FS_Subset
  <2>5. Cardinality(later) \in Nat /\ Cardinality(Ids) \in Nat
    BY <1>2, <2>4, FS_CardinalityType
  <2> HIDE DEF later
  <2>6. Cardinality(later) < PageCap
    BY <2>3, <2>4, <2>5
  <2> QED BY <2>6 DEF later
<1> QED BY <1>4 DEF Page

\* Only its own step ends a read.
LEMMA ReadAlone ==
    ASSUME Typed, [Next]_vars, NEW v \in Reads, pc[v] = "idle", pc'[v] = "done"
    PROVE  Practice(v)
<1>a. pc \in [Requests -> {"idle"} \cup Running \cup Ended] /\ v \in Requests
  BY DEF Typed, TypeOK, Requests
<1>b. /\ \A r \in Writers : r \in Requests /\ r # v
      /\ \A r \in Collects : r \in Writers
      /\ \A p \in Practices : p \in Writers
      /\ \A d \in Deletes : d \in Requests /\ d # v
      /\ \A u \in Reads : u \in Requests
  BY DEF Writers, Requests
<1>1. ASSUME NEW r \in Requests, NEW to, pc' = [pc EXCEPT ![r] = to], r # v
      PROVE  FALSE
  BY <1>1, <1>a
<1>2. \A r \in Collects : ~CollectBegin(r)
  BY <1>1, <1>b DEF CollectBegin, Begin, Goto
<1>3. \A r \in Writers : ~UpsertFind(r) /\ ~UpsertWrite(r) /\ ~Fail(r)
  BY <1>1, <1>b DEF UpsertFind, UpsertWrite, Fail, Step, Goto
<1>4. \A p \in Practices : ~PracticeBegin(p) /\ ~PracticeList(p)
  BY <1>1, <1>b DEF PracticeBegin, PracticeList, Begin, Step, Goto
<1>5. \A p \in Practices : ~PracticeAnswer(p)
  BY <1>1, <1>b DEF PracticeAnswer, Step, Goto
<1>6. \A p \in Practices : ~PracticeMark(p)
  BY <1>1, <1>b DEF PracticeMark, Step, Goto
<1>7. \A d \in Deletes : ~DeleteRow(d)
  BY <1>1, <1>b DEF DeleteRow, Begin, Goto
<1>8. (\A q \in Questions : ~DeleteQuestion(q)) /\ ~UNCHANGED vars
  BY DEF DeleteQuestion, vars
<1>9. \A u \in Reads : Practice(u) => u = v
  BY <1>1, <1>b DEF Practice, Begin, Goto
<1> QED BY <1>2, <1>3, <1>4, <1>5, <1>6, <1>7, <1>8, <1>9 DEF Next

\* A wrong answer recorded before a practice set is asked for is offered in it as
\* long as the book fits a page, unless its record was deleted or a practice that
\* did not end before the answer resolved it.
THEOREM WrongAnswersOffered == Spec => WrongIsOffered
<1>1. ASSUME BookInv, [Next]_vars,
             NEW v \in Reads, pc[v] = "idle", pc'[v] = "done",
             NEW r \in before'[v] \cap Writers, NEW q \in recorded[r] \cap bank
      PROVE  \/ q \in offered'[v]
             \/ Deleted
             \/ Cardinality(Ids) > PageCap
             \/ \E p \in Practices : q \in marked[p] /\ p \notin before[r]
  <2> SUFFICES ASSUME ~Deleted, ~(Cardinality(Ids) > PageCap)
               PROVE  \/ q \in offered'[v]
                      \/ \E p \in Practices : q \in marked[p] /\ p \notin before[r]
    OBVIOUS
  <2>0. TypeOK /\ Typed
    BY <1>1 DEF BookInv, Typed
  <2>1. Practice(v)
    BY <1>1, <2>0, ReadAlone
  <2>2. offered'[v] = Unresolved(Page) \cap bank
    BY <2>0, <2>1 DEF Practice, TypeOK
  <2>3. Page = Ids
    <3>1. Cardinality(Ids) <= PageCap
      <4>1. IsFiniteSet(Ids)
        BY <2>0, FiniteBook
      <4>2. Cardinality(Ids) \in Nat
        BY <4>1, FS_CardinalityType
      <4> QED BY <4>2
    <3> QED BY <2>0, <3>1, WholePage
  <2>4. CASE \E i \in RowsOf(q) : book[i].status = "unresolved"
    <3>1. q \in Unresolved(Ids)
      BY <2>4 DEF Unresolved, RowsOf
    <3> QED BY <2>2, <2>3, <3>1
  <2>5. \/ \E i \in RowsOf(q) : book[i].status = "unresolved"
        \/ \E p \in Practices : q \in marked[p] /\ p \notin before[r]
    BY <1>1 DEF BookInv, StillThere
  <2> QED BY <2>4, <2>5
<1>2. BookInv /\ [Next]_vars =>
         [\A v \in Reads : pc[v] = "idle" /\ pc'[v] = "done" =>
             \A r \in before'[v] \cap Writers : \A q \in recorded[r] \cap bank :
                \/ q \in offered'[v]
                \/ Deleted
                \/ Cardinality(Ids) > PageCap
                \/ \E p \in Practices : q \in marked[p] /\ p \notin before[r]]_vars
  BY <1>1
<1> QED BY <1>2, Invariant, PTL DEF Spec, WrongIsOffered

-----------------------------------------------------------------------------
(* Counts.                                                                 *)

\* Who recorded a wrong answer to q, and all rows of q, the deleted ones too.
Recorders(q) == {r \in Writers : q \in recorded[r]}
AllOf(q) == {i \in DOMAIN book : book[i].question = q}

\* A writer records a wrong answer once.
RecordsOnce(r) ==
    /\ pc[r] \in {"find", "write"} => local[r].q \notin recorded[r]
    /\ r \in Practices =>
          /\ recorded[r] \cap local[r].todo = {}
          /\ pc[r] \in {"find", "write"} => local[r].q \notin local[r].todo

Once == \A r \in Writers : RecordsOnce(r)

\* H[i] wrong answers went into row i: no count read or stored is above.
TallyOf(H) ==
    /\ H \in [DOMAIN book -> Nat]
    /\ \A i \in DOMAIN book : book[i].count <= H[i]
    /\ \A r \in Writers :
          pc[r] = "write" /\ local[r].id # 0 => local[r].count <= H[local[r].id]
    /\ \A q \in Questions : /\ IsFiniteSet(Recorders(q))
                            /\ SumFunctionOnSet(H, AllOf(q)) = WrongAnswers(q)

\* Each wrong answer recorded went into one row.
Tally == \E H : TallyOf(H)

\* A writer that began after those that recorded its question holds the count
\* its row has.
Steady ==
    \A r \in Writers :
        (/\ ~Deleted /\ pc[r] = "write" /\ local[r].id # 0
         /\ Recorders(local[r].q) \subseteq before[r]) =>
              local[r].count = book[local[r].id].count

\* The counts of a question add up unless its writers overlapped.
Exact ==
    \A q \in Questions :
        (~Deleted /\ \A p, r \in Recorders(q) : p # r => Apart(p, r)) =>
            CountOf(q) = WrongAnswers(q)

CountInv == BookInv /\ Once /\ Tally /\ Steady /\ Exact

\* A writer at its write has just looked for the row or stays where it was.
LEMMA InWrite ==
    ASSUME Typed, [Next]_vars, NEW w \in Writers, pc'[w] = "write"
    PROVE  UpsertFind(w) \/ (pc[w] = "write" /\ local'[w] = local[w])
<1>a. pc \in [Requests -> {"idle"} \cup Running \cup Ended] /\ local \in [Writers -> Local]
  BY DEF Typed, TypeOK
<1>b. /\ \A r \in Writers : r \in Requests
      /\ \A r \in Collects : r \in Writers
      /\ \A p \in Practices : p \in Writers
      /\ \A d \in Deletes : d \in Requests /\ d \notin Writers
      /\ \A u \in Reads : u \in Requests /\ u \notin Writers
  BY DEF Writers, Requests
<1>1. ASSUME NEW r \in Requests, NEW to, pc' = [pc EXCEPT ![r] = to], to # "write"
      PROVE  r # w /\ pc[w] = "write"
  BY <1>1, <1>a, <1>b
<1>2. ASSUME NEW r, NEW v, local' = [local EXCEPT ![r] = v], r # w
      PROVE  local'[w] = local[w]
  BY <1>2, <1>a
<1>3. ASSUME NEW r \in Collects, CollectBegin(r) PROVE pc[w] = "write" /\ local'[w] = local[w]
  <2>1. pc' = [pc EXCEPT ![r] = "find"]
    BY <1>3 DEF CollectBegin, Begin, Goto
  <2>2. r # w /\ pc[w] = "write"
    BY <1>1, <1>b, <2>1
  <2>3. PICK v : local' = [local EXCEPT ![r] = v]
    BY <1>3 DEF CollectBegin
  <2> QED BY <1>2, <2>2, <2>3
<1>4. ASSUME NEW r \in Writers, UpsertFind(r), r # w
      PROVE  pc[w] = "write" /\ local'[w] = local[w]
  <2>1. pc[w] = "write"
    BY <1>4, <1>a, <1>b DEF UpsertFind, Step, Goto
  <2>2. PICK v : local' = [local EXCEPT ![r] = v]
    BY <1>4 DEF UpsertFind
  <2> QED BY <1>2, <1>4, <2>1, <2>2
<1>5. ASSUME NEW r \in Writers, UpsertWrite(r) \/ Fail(r)
      PROVE  pc[w] = "write" /\ local'[w] = local[w]
  <2>1. PICK to \in {"done", "answer", "failed"} : pc' = [pc EXCEPT ![r] = to]
    BY <1>5 DEF UpsertWrite, Fail, Step, Goto
  <2>2. local' = local
    BY <1>5 DEF UpsertWrite, Fail
  <2> QED BY <1>1, <1>b, <2>1, <2>2
<1>6. ASSUME NEW p \in Practices, PracticeBegin(p) \/ PracticeList(p)
      PROVE  pc[w] = "write" /\ local'[w] = local[w]
  <2>1. PICK to \in {"list", "answer"} : pc' = [pc EXCEPT ![p] = to]
    BY <1>6 DEF PracticeBegin, PracticeList, Begin, Step, Goto
  <2>2. p # w /\ pc[w] = "write"
    BY <1>1, <1>b, <2>1
  <2>3. PICK v : local' = [local EXCEPT ![p] = v]
    BY <1>6 DEF PracticeBegin, PracticeList
  <2> QED BY <1>2, <2>2, <2>3
<1>7. ASSUME NEW p \in Practices, PracticeAnswer(p) PROVE pc[w] = "write" /\ local'[w] = local[w]
  <2>1. PICK to \in {"done", "answer", "mark", "find"} : pc' = [pc EXCEPT ![p] = to]
    BY <1>7 DEF PracticeAnswer, Step, Goto
  <2>2. p # w /\ pc[w] = "write"
    BY <1>1, <1>b, <2>1
  <2>3. local' = local \/ \E v : local' = [local EXCEPT ![p] = v]
    BY <1>7 DEF PracticeAnswer
  <2> QED BY <1>2, <2>2, <2>3
<1>8. ASSUME NEW p \in Practices, PracticeMark(p) PROVE pc[w] = "write" /\ local'[w] = local[w]
  <2>1. PICK to \in {"refused", "answer"} : pc' = [pc EXCEPT ![p] = to]
    BY <1>8 DEF PracticeMark, Step, Goto
  <2>2. local' = local
    BY <1>8 DEF PracticeMark
  <2> QED BY <1>1, <1>b, <2>1, <2>2
<1>9. ASSUME NEW u \in Requests, NEW to \in {"done", "refused"}, pc' = [pc EXCEPT ![u] = to],
             local' = local
      PROVE  pc[w] = "write" /\ local'[w] = local[w]
  BY <1>1, <1>9
<1>10. ASSUME NEW v \in Reads, Practice(v) PROVE pc[w] = "write" /\ local'[w] = local[w]
  BY <1>9, <1>10, <1>b DEF Practice, Begin, Goto
<1>11. ASSUME NEW d \in Deletes, DeleteRow(d) PROVE pc[w] = "write" /\ local'[w] = local[w]
  BY <1>9, <1>11, <1>b DEF DeleteRow, Begin, Goto
<1>12. ASSUME (\E q \in Questions : DeleteQuestion(q)) \/ UNCHANGED vars
       PROVE  pc[w] = "write" /\ local'[w] = local[w]
  BY <1>12 DEF DeleteQuestion, vars
<1> QED BY <1>3, <1>4, <1>5, <1>6, <1>7, <1>8, <1>10, <1>11, <1>12 DEF Next

\* What a write writes.
LEMMA WriteCounts ==
    ASSUME Typed, NEW r \in Writers, UpsertWrite(r)
    PROVE  /\ pc[r] = "write" /\ pc'[r] # "write" /\ local' = local
           /\ recorded' = [recorded EXCEPT ![r] = @ \cup {local[r].q}]
           /\ local[r].q \in Questions /\ local[r].count \in Nat
           /\ \A i \in DOMAIN book :
                 /\ i \in DOMAIN book' /\ book'[i].question = book[i].question
                 /\ book'[i].gone = book[i].gone
                 /\ i # local[r].id => book'[i] = book[i]
           /\ local[r].id # 0 =>
                 /\ DOMAIN book' = DOMAIN book /\ local[r].id \in DOMAIN book
                 /\ book[local[r].id].question = local[r].q
                 /\ book'[local[r].id].count = local[r].count + 1
           /\ local[r].id = 0 =>
                 /\ DOMAIN book' = DOMAIN book \cup {Len(book) + 1}
                 /\ Len(book) + 1 \notin DOMAIN book
                 /\ book'[Len(book) + 1].question = local[r].q
                 /\ book'[Len(book) + 1].count = 1
                 /\ ~book'[Len(book) + 1].gone
<1>1. pc[r] = "write" /\ book' = Upserted(r) /\ local' = local
      /\ recorded' = [recorded EXCEPT ![r] = @ \cup {local[r].q}]
  BY DEF UpsertWrite, Step
<1>2. pc'[r] # "write"
  <2>1. r \in Requests /\ pc \in [Requests -> {"idle"} \cup Running \cup Ended]
    BY DEF Requests, Typed, TypeOK
  <2> QED BY <2>1 DEF UpsertWrite, Step, Goto
<1>3. local[r] \in Local
  BY DEF Typed, TypeOK
<1>4. local[r].q \in Questions /\ local[r].count \in Nat
  BY <1>3 DEF Local
<1>5. \A i \in DOMAIN book : book[i] \in Row
  BY LenProperties, ElementOfSeq DEF Typed, TypeOK
<1>6. ASSUME NEW row \in Row PROVE Counted(r, row, "unresolved").count = local[r].count + 1
  BY <1>6 DEF Counted, Row
<1>7. /\ NewRow(r, 1, "unresolved").question = local[r].q
      /\ NewRow(r, 1, "unresolved").count = 1 /\ ~NewRow(r, 1, "unresolved").gone
  BY DEF NewRow
<1>8. local[r].id # 0 =>
         /\ DOMAIN book' = DOMAIN book /\ local[r].id \in DOMAIN book
         /\ book[local[r].id].question = local[r].q
         /\ book'[local[r].id].count = local[r].count + 1
  BY <1>1, <1>5, <1>6, Written DEF Typed, Found
<1>9. local[r].id = 0 =>
         /\ DOMAIN book' = DOMAIN book \cup {Len(book) + 1}
         /\ Len(book) + 1 \notin DOMAIN book
         /\ book'[Len(book) + 1].question = local[r].q
         /\ book'[Len(book) + 1].count = 1
         /\ ~book'[Len(book) + 1].gone
  BY <1>1, <1>7, Written
<1>10. \A i \in DOMAIN book :
         /\ i \in DOMAIN book' /\ book'[i].question = book[i].question
         /\ book'[i].gone = book[i].gone
         /\ i # local[r].id => book'[i] = book[i]
  BY <1>1, RowsKept, Written
<1> QED BY <1>1, <1>2, <1>4, <1>8, <1>9, <1>10

\* Other steps leave counts alone.
LEMMA CountsKept ==
    ASSUME Typed, [Next]_vars, \A r \in Writers : ~UpsertWrite(r)
    PROVE  /\ recorded' = recorded /\ DOMAIN book' = DOMAIN book
           /\ \A i \in DOMAIN book : /\ book'[i].question = book[i].question
                                     /\ book'[i].count = book[i].count
           /\ Deleted' \/ \A i \in DOMAIN book : book'[i].gone = book[i].gone
<1>0. book \in Seq(Row) /\ DOMAIN book = 1..Len(book) /\ \A i \in DOMAIN book : book[i] \in Row
  BY LenProperties, ElementOfSeq DEF Typed, TypeOK
<1>1. CASE UNCHANGED <<book, recorded, marked>>
  BY <1>1
<1>2. ASSUME NEW p \in Practices, PracticeMark(p)
      PROVE  \A i \in DOMAIN book : book'[i].count = book[i].count
  <2>1. \/ book' = book
        \/ \E id : book' = [book EXCEPT ![id] = [book[id] EXCEPT !.status = "resolved"]]
    BY <1>2 DEF PracticeMark
  <2>2. ASSUME NEW row \in Row PROVE [row EXCEPT !.status = "resolved"].count = row.count
    BY <2>2 DEF Row
  <2> QED BY <1>0, <2>1, <2>2
<1>3. ASSUME NEW d \in Deletes, DeleteRow(d)
      PROVE  \A i \in DOMAIN book : book'[i].count = book[i].count
  <2>1. \/ book' = book
        \/ \E id : book' = [book EXCEPT ![id] = [book[id] EXCEPT !.gone = TRUE]]
    BY <1>3 DEF DeleteRow
  <2>2. ASSUME NEW row \in Row PROVE [row EXCEPT !.gone = TRUE].count = row.count
    BY <2>2 DEF Row
  <2> QED BY <1>0, <2>1, <2>2
<1>4. CASE \E p \in Practices : PracticeMark(p)
  BY <1>2, <1>4, Marks
<1>5. CASE \E d \in Deletes : DeleteRow(d)
  BY <1>3, <1>5, Removes
<1> QED BY <1>1, <1>4, <1>5, Writes

\* A writer does not come back to a question it recorded.
LEMMA OnceKept ==
    ASSUME Typed, Ordered, Once, [Next]_vars
    PROVE  Once'
<1> SUFFICES ASSUME NEW r \in Writers PROVE RecordsOnce(r)'
  BY DEF Once
<1>a. /\ pc \in [Requests -> {"idle"} \cup Running \cup Ended] /\ local \in [Writers -> Local]
      /\ recorded \in [Writers -> SUBSET Questions] /\ local[r] \in Local
  BY DEF Typed, TypeOK
<1>b. /\ \A w \in Writers : w \in Requests
      /\ \A w \in Collects : w \in Writers
      /\ \A p \in Practices : p \in Writers
      /\ \A d \in Deletes : d \in Requests /\ d \notin Writers
      /\ \A u \in Reads : u \in Requests /\ u \notin Writers
  BY DEF Writers, Requests
<1>c. /\ pc[r] \in {"find", "write"} => local[r].q \notin recorded[r]
      /\ r \in Practices =>
            /\ recorded[r] \cap local[r].todo = {}
            /\ pc[r] \in {"find", "write"} => local[r].q \notin local[r].todo
  BY DEF Once, RecordsOnce
<1>1. ASSUME pc'[r] = pc[r] \/ pc'[r] \notin {"find", "write"}, local'[r] = local[r],
             recorded'[r] = recorded[r]
      PROVE  RecordsOnce(r)'
  BY <1>1, <1>c DEF RecordsOnce
<1>2. ASSUME NEW s \in Requests, s # r, NEW to, pc' = [pc EXCEPT ![s] = to],
             local' = local \/ \E v : local' = [local EXCEPT ![s] = v],
             recorded' = recorded \/ \E v : recorded' = [recorded EXCEPT ![s] = v]
      PROVE  RecordsOnce(r)'
  <2>1. pc'[r] = pc[r] /\ local'[r] = local[r] /\ recorded'[r] = recorded[r]
    BY <1>2, <1>a, <1>b
  <2> QED BY <1>1, <2>1
<1>3. ASSUME recorded'[r] = {}, r \notin Practices \/ pc'[r] \notin {"find", "write"}
      PROVE  RecordsOnce(r)'
  <2>1. recorded'[r] \cap local'[r].todo = {} /\ local'[r].q \notin recorded'[r]
    BY <1>3
  <2> QED BY <1>3, <2>1 DEF RecordsOnce
<1>4. ASSUME NEW s \in Collects, CollectBegin(s) PROVE RecordsOnce(r)'
  <2>1. CASE s = r
    <3>1. pc[r] = "idle" /\ recorded' = recorded /\ r \notin Practices
      BY <1>4, <2>1 DEF CollectBegin, Begin
    <3> QED BY <1>3, <3>1 DEF Ordered
  <2>2. CASE s # r
    BY <1>2, <1>4, <1>b, <2>2 DEF CollectBegin, Begin, Goto
  <2> QED BY <2>1, <2>2
<1>5. ASSUME NEW s \in Writers, UpsertFind(s) PROVE RecordsOnce(r)'
  <2>1. CASE s = r
    <3>1. pc[r] = "find" /\ recorded' = recorded
      BY <1>5, <2>1 DEF UpsertFind, Step
    <3>2. local'[r].q = local[r].q /\ local'[r].todo = local[r].todo
      BY <1>5, <1>a, <2>1 DEF UpsertFind, Local
    <3> QED BY <1>c, <3>1, <3>2 DEF RecordsOnce
  <2>2. CASE s # r
    BY <1>2, <1>5, <1>b, <2>2 DEF UpsertFind, Step, Goto
  <2> QED BY <2>1, <2>2
<1>6. ASSUME NEW s \in Writers, UpsertWrite(s) PROVE RecordsOnce(r)'
  <2>1. CASE s = r
    <3>1. pc[r] = "write" /\ local' = local /\ recorded'[r] = recorded[r] \cup {local[r].q}
      BY <1>6, <1>a, <2>1 DEF UpsertWrite, Step
    <3>2. pc'[r] \notin {"find", "write"}
      BY <1>6, <1>a, <1>b, <2>1 DEF UpsertWrite, Step, Goto
    <3> QED BY <1>c, <3>1, <3>2 DEF RecordsOnce
  <2>2. CASE s # r
    BY <1>2, <1>6, <1>b, <2>2 DEF UpsertWrite, Step, Goto
  <2> QED BY <2>1, <2>2
<1>7. ASSUME NEW s \in Writers, Fail(s) PROVE RecordsOnce(r)'
  <2>1. pc' = [pc EXCEPT ![s] = "failed"] /\ local' = local /\ recorded' = recorded
    BY <1>7 DEF Fail, Goto
  <2>2. pc'[r] = pc[r] \/ pc'[r] = "failed"
    BY <2>1, <1>a, <1>b
  <2> QED BY <1>1, <2>1, <2>2
<1>8. ASSUME NEW s \in Practices, PracticeBegin(s) PROVE RecordsOnce(r)'
  <2>1. CASE s = r
    <3>1. pc[r] = "idle" /\ recorded' = recorded /\ pc'[r] = "list"
      BY <1>8, <1>a, <1>b, <2>1 DEF PracticeBegin, Begin, Goto
    <3> QED BY <1>3, <3>1 DEF Ordered
  <2>2. CASE s # r
    BY <1>2, <1>8, <1>b, <2>2 DEF PracticeBegin, Begin, Goto
  <2> QED BY <2>1, <2>2
<1>9. ASSUME NEW s \in Practices, PracticeList(s) PROVE RecordsOnce(r)'
  <2>1. CASE s = r
    <3>1. recorded' = recorded /\ pc'[r] = "answer"
      BY <1>9, <1>a, <1>b, <2>1 DEF PracticeList, Step, Goto
    <3>2. local'[r].todo = local[r].todo
      BY <1>9, <1>a, <2>1 DEF PracticeList, Local
    <3> QED BY <1>c, <3>1, <3>2 DEF RecordsOnce
  <2>2. CASE s # r
    BY <1>2, <1>9, <1>b, <2>2 DEF PracticeList, Step, Goto
  <2> QED BY <2>1, <2>2
<1>10. ASSUME NEW s \in Practices, PracticeAnswer(s) PROVE RecordsOnce(r)'
  <2>1. PICK to : pc' = [pc EXCEPT ![s] = to]
    BY <1>10 DEF PracticeAnswer, Step, Goto
  <2>2. recorded' = recorded
    BY <1>10 DEF PracticeAnswer
  <2>3. CASE s # r
    <3>1. local' = local \/ \E v : local' = [local EXCEPT ![s] = v]
      BY <1>10 DEF PracticeAnswer
    <3> QED BY <1>2, <1>b, <2>1, <2>2, <2>3, <3>1
  <2>4. CASE s = r /\ local[s].todo = {}
    <3>1. pc'[r] = "done" /\ local' = local
      BY <1>10, <1>a, <1>b, <2>4 DEF PracticeAnswer, Step, Goto
    <3> QED BY <1>1, <2>2, <3>1
  <2>5. CASE s = r /\ local[s].todo # {}
    <3> DEFINE Answered(q) == [local[r] EXCEPT !.todo = @ \ {q}, !.q = q]
    <3>1. PICK q \in local[r].todo :
             \/ local' = [local EXCEPT ![r] = Answered(q)]
             \/ local' = [local EXCEPT ![r] = [Answered(q) EXCEPT !.at = now']]
      BY <1>10, <2>5 DEF PracticeAnswer
    <3>2. /\ Answered(q).q = q /\ Answered(q).todo = local[r].todo \ {q}
          /\ [Answered(q) EXCEPT !.at = now'].q = q
          /\ [Answered(q) EXCEPT !.at = now'].todo = local[r].todo \ {q}
      BY <1>a DEF Local
    <3>3. local'[r].q = q /\ local'[r].todo = local[r].todo \ {q}
      <4> HIDE DEF Answered
      <4>1. \/ local'[r] = Answered(q)
            \/ local'[r] = [Answered(q) EXCEPT !.at = now']
        BY <1>a, <3>1
      <4> QED BY <3>2, <4>1
    <3>4. r \in Practices
      BY <2>5
    <3> QED BY <1>c, <2>2, <3>1, <3>3, <3>4 DEF RecordsOnce
  <2> QED BY <2>3, <2>4, <2>5
<1>11. ASSUME NEW s \in Practices, PracticeMark(s) PROVE RecordsOnce(r)'
  <2>1. PICK to \in {"refused", "answer"} : pc' = [pc EXCEPT ![s] = to]
    BY <1>11 DEF PracticeMark, Step, Goto
  <2>2. local' = local /\ recorded' = recorded
    BY <1>11 DEF PracticeMark
  <2>3. pc'[r] = pc[r] \/ pc'[r] \in {"refused", "answer"}
    BY <2>1, <1>a, <1>b
  <2> QED BY <1>1, <2>2, <2>3
<1>12. ASSUME NEW v \in Reads, Practice(v) PROVE RecordsOnce(r)'
  <2>1. v \in Requests /\ v # r
    BY <1>b
  <2>2. pc' = [pc EXCEPT ![v] = "done"] /\ local' = local /\ recorded' = recorded
    BY <1>12 DEF Practice, Begin, Goto
  <2> QED BY <1>2, <2>1, <2>2
<1>13. ASSUME NEW d \in Deletes, DeleteRow(d) PROVE RecordsOnce(r)'
  <2>1. d \in Requests /\ d # r
    BY <1>b
  <2>2. PICK to : pc' = [pc EXCEPT ![d] = to]
    BY <1>13 DEF DeleteRow, Begin, Goto
  <2>3. local' = local /\ recorded' = recorded
    BY <1>13 DEF DeleteRow
  <2> QED BY <1>2, <2>1, <2>2, <2>3
<1>14. CASE (\E q \in Questions : DeleteQuestion(q)) \/ UNCHANGED vars
  BY <1>1, <1>14 DEF DeleteQuestion, vars
<1> QED BY <1>4, <1>5, <1>6, <1>7, <1>8, <1>9, <1>10, <1>11, <1>12, <1>13, <1>14 DEF Next

\* A writer reads the count of the row it finds.
LEMMA FindCounts ==
    ASSUME Typed, NEW w \in Writers, UpsertFind(w), local'[w].id # 0
    PROVE  /\ local'[w].id \in DOMAIN book
           /\ local'[w].count = book[local'[w].id].count
<1> DEFINE found == RowsOf(local[w].q)
           i == IF found = {} THEN 0 ELSE Min(found)
<1>1. local[w] \in Local /\ local[w].q \in Questions /\ local \in [Writers -> Local]
  BY DEF Typed, TypeOK, Local
<1>2. local' = [local EXCEPT ![w] = [local[w] EXCEPT !.id = i,
                                       !.count = IF i = 0 THEN 0 ELSE book[i].count]]
  BY DEF UpsertFind
<1>3. found \subseteq DOMAIN book /\ (found # {} => Min(found) \in found)
  BY <1>1, Rows DEF Typed
<1>4. i # 0 => i \in DOMAIN book
  BY <1>3
<1> HIDE DEF i
<1>5. local'[w].id = i /\ local'[w].count = IF i = 0 THEN 0 ELSE book[i].count
  BY <1>1, <1>2 DEF Local
<1> QED BY <1>4, <1>5

\* A write makes its request one of those that recorded the question.
LEMMA RecordersGrow ==
    ASSUME Typed, Once, NEW r \in Writers, UpsertWrite(r), NEW q \in Questions,
           IsFiniteSet(Recorders(q))
    PROVE  /\ q # local[r].q => /\ Recorders(q)' = Recorders(q)
                                /\ WrongAnswers(q)' = WrongAnswers(q)
           /\ q = local[r].q => /\ r \notin Recorders(q)
                                /\ Recorders(q)' = Recorders(q) \cup {r}
                                /\ WrongAnswers(q)' = WrongAnswers(q) + 1
           /\ IsFiniteSet(Recorders(q)')
<1>1. /\ recorded' = [recorded EXCEPT ![r] = @ \cup {local[r].q}] /\ pc[r] = "write"
      /\ recorded \in [Writers -> SUBSET Questions]
  BY WriteCounts DEF Typed, TypeOK
<1>2. WrongAnswers(q) = Cardinality(Recorders(q)) /\ WrongAnswers(q)' = Cardinality(Recorders(q)')
  BY DEF WrongAnswers, Recorders
<1>3. CASE q # local[r].q
  <2>1. Recorders(q)' = Recorders(q)
    BY <1>1, <1>3 DEF Recorders
  <2> QED BY <1>2, <1>3, <2>1
<1>4. CASE q = local[r].q
  <2>1. Recorders(q)' = Recorders(q) \cup {r}
    BY <1>1, <1>4 DEF Recorders
  <2>2. r \notin Recorders(q)
    BY <1>1, <1>4 DEF Recorders, Once, RecordsOnce
  <2> QED BY <1>2, <1>4, <2>1, <2>2, FS_AddElement
<1> QED BY <1>3, <1>4

\* Each wrong answer goes into the row it is written to.
LEMMA TallyKept ==
    ASSUME Typed, Once, Tally, [Next]_vars
    PROVE  Tally'
<1>1. PICK H : TallyOf(H)
  BY DEF Tally
<1>2. /\ H \in [DOMAIN book -> Nat]
      /\ \A i \in DOMAIN book : book[i].count <= H[i]
      /\ \A r \in Writers :
            pc[r] = "write" /\ local[r].id # 0 => local[r].count <= H[local[r].id]
      /\ \A q \in Questions : /\ IsFiniteSet(Recorders(q))
                              /\ SumFunctionOnSet(H, AllOf(q)) = WrongAnswers(q)
  BY <1>1 DEF TallyOf
<1>a. DOMAIN book = 1..Len(book) /\ Len(book) \in Nat /\ IsFiniteSet(DOMAIN book)
  BY LenProperties, FS_Interval DEF Typed, TypeOK
<1>b. \A w \in Writers : local[w].id \in 0..Len(book) /\ local[w] \in Local
  BY DEF Typed, TypeOK, Found
<1>3. CASE \A r \in Writers : ~UpsertWrite(r)
  <2>1. /\ recorded' = recorded /\ DOMAIN book' = DOMAIN book
        /\ \A i \in DOMAIN book : /\ book'[i].question = book[i].question
                                  /\ book'[i].count = book[i].count
    BY <1>3, CountsKept
  <2>2. \A w \in Writers :
           pc'[w] = "write" /\ local'[w].id # 0 => local'[w].count <= H[local'[w].id]
    <3> SUFFICES ASSUME NEW w \in Writers, pc'[w] = "write", local'[w].id # 0
                 PROVE  local'[w].count <= H[local'[w].id]
      OBVIOUS
    <3>1. CASE UpsertFind(w)
      <4>1. local'[w].id \in DOMAIN book /\ local'[w].count = book[local'[w].id].count
        BY <3>1, FindCounts
      <4> QED BY <1>2, <4>1
    <3>2. CASE pc[w] = "write" /\ local'[w] = local[w]
      BY <1>2, <3>2
    <3> QED BY <3>1, <3>2, InWrite
  <2>3. \A q \in Questions : /\ Recorders(q)' = Recorders(q) /\ AllOf(q)' = AllOf(q)
                             /\ WrongAnswers(q)' = WrongAnswers(q)
    BY <2>1 DEF Recorders, AllOf, WrongAnswers
  <2>4. TallyOf(H)'
    BY <1>2, <2>1, <2>2, <2>3 DEF TallyOf
  <2> QED BY <2>4 DEF Tally
<1>4. ASSUME NEW r \in Writers, UpsertWrite(r) PROVE Tally'
  <2> DEFINE id == local[r].id
             n == Len(book) + 1
  <2>0. /\ pc[r] = "write" /\ pc'[r] # "write" /\ local' = local
        /\ local[r].q \in Questions /\ local[r].count \in Nat
        /\ \A i \in DOMAIN book :
              /\ i \in DOMAIN book' /\ book'[i].question = book[i].question
              /\ i # id => book'[i] = book[i]
        /\ id # 0 => /\ DOMAIN book' = DOMAIN book /\ id \in DOMAIN book
                     /\ book[id].question = local[r].q
                     /\ book'[id].count = local[r].count + 1
        /\ id = 0 => /\ DOMAIN book' = DOMAIN book \cup {n} /\ n \notin DOMAIN book
                     /\ book'[n].question = local[r].q /\ book'[n].count = 1
    BY <1>4, WriteCounts
  <2>c. /\ \A i \in DOMAIN book : book[i].count \in Nat
        /\ \A w \in Writers : local[w].count \in Nat
    <3>1. \A i \in DOMAIN book : book[i] \in Row
      BY LenProperties, ElementOfSeq DEF Typed, TypeOK
    <3> QED BY <3>1, <1>b DEF Row, Local
  <2>d. \A w \in Writers : pc'[w] = "write" =>
           pc[w] = "write" /\ w # r /\ local'[w] = local[w]
    <3> SUFFICES ASSUME NEW w \in Writers, pc'[w] = "write"
                 PROVE  pc[w] = "write" /\ w # r /\ local'[w] = local[w]
      OBVIOUS
    <3>1. pc \in [Requests -> {"idle"} \cup Running \cup Ended] /\ w \in Requests /\ r \in Requests
      BY DEF Typed, TypeOK, Requests
    <3> QED BY <1>4, <2>0, <3>1 DEF UpsertWrite, Step, Goto
  <2>e. \A q \in Questions : /\ q # local[r].q => WrongAnswers(q)' = WrongAnswers(q)
                             /\ q = local[r].q => WrongAnswers(q)' = WrongAnswers(q) + 1
                             /\ IsFiniteSet(Recorders(q)')
                             /\ WrongAnswers(q) \in Nat
    <3> SUFFICES ASSUME NEW q \in Questions
                 PROVE  /\ q # local[r].q => WrongAnswers(q)' = WrongAnswers(q)
                        /\ q = local[r].q => WrongAnswers(q)' = WrongAnswers(q) + 1
                        /\ IsFiniteSet(Recorders(q)')
                        /\ WrongAnswers(q) \in Nat
      OBVIOUS
    <3>1. IsFiniteSet(Recorders(q)) /\ WrongAnswers(q) = Cardinality(Recorders(q))
      BY <1>2 DEF WrongAnswers, Recorders
    <3> QED BY <1>4, <3>1, RecordersGrow, FS_CardinalityType
  <2>f. \A q \in Questions : AllOf(q) \subseteq DOMAIN book /\ IsFiniteSet(AllOf(q))
    BY <1>a, FS_Subset DEF AllOf
  <2>1. CASE id = 0
    <3>1. PICK K : K = [i \in DOMAIN book \cup {n} |-> IF i = n THEN 1 ELSE H[i]]
      OBVIOUS
    <3>2. K \in [DOMAIN book' -> Nat] /\ K[n] = 1 /\ \A i \in DOMAIN book : K[i] = H[i]
      <4> HIDE DEF n
      <4> QED BY <1>2, <2>0, <2>1, <3>1
    <3>3. \A i \in DOMAIN book' : book'[i].count <= K[i]
      <4> SUFFICES ASSUME NEW i \in DOMAIN book' PROVE book'[i].count <= K[i]
        OBVIOUS
      <4>1. CASE i = n
        BY <2>0, <2>1, <3>2, <4>1
      <4>2. CASE i # n
        <5>1. i \in DOMAIN book /\ i # id
          BY <1>a, <2>0, <2>1, <4>2
        <5> QED BY <1>2, <2>0, <3>2, <5>1
      <4> QED BY <4>1, <4>2
    <3>4. \A w \in Writers :
             pc'[w] = "write" /\ local'[w].id # 0 => local'[w].count <= K[local'[w].id]
      BY <1>2, <1>a, <1>b, <2>d, <3>2
    <3>5. ASSUME NEW q \in Questions PROVE SumFunctionOnSet(K, AllOf(q)') = WrongAnswers(q)'
      <4>1. SumFunctionOnSet(K, AllOf(q)) = SumFunctionOnSet(H, AllOf(q))
        BY <1>2, <2>f, <3>2, SumSame
      <4>2. CASE q # local[r].q
        <5>1. AllOf(q)' = AllOf(q)
          BY <2>0, <2>1, <4>2 DEF AllOf
        <5> QED BY <1>2, <2>e, <4>1, <4>2, <5>1
      <4>3. CASE q = local[r].q
        <5> HIDE DEF n
        <5>1. AllOf(q)' = AllOf(q) \cup {n} /\ n \notin AllOf(q)
          BY <2>0, <2>1, <4>3 DEF AllOf
        <5>2. \A i \in AllOf(q) \cup {n} : K[i] \in Nat
          BY <2>0, <2>1, <2>f, <3>2
        <5>3. SumFunctionOnSet(K, AllOf(q) \cup {n}) = K[n] + SumFunctionOnSet(K, AllOf(q))
          BY <2>f, <5>1, <5>2, SumPutIn
        <5> QED BY <1>2, <2>e, <3>2, <4>1, <4>3, <5>1, <5>3
      <4> QED BY <4>2, <4>3
    <3>6. TallyOf(K)'
      BY <2>e, <3>2, <3>3, <3>4, <3>5 DEF TallyOf
    <3> QED BY <3>6 DEF Tally
  <2>2. CASE id # 0
    <3>1. PICK K : K = [H EXCEPT ![id] = @ + 1]
      OBVIOUS
    <3>2. /\ K \in [DOMAIN book' -> Nat] /\ K[id] = H[id] + 1 /\ id \in DOMAIN book
          /\ \A i \in DOMAIN book : i # id => K[i] = H[i]
      <4> HIDE DEF id
      <4> QED BY <1>2, <2>0, <2>2, <3>1
    <3>3. \A i \in DOMAIN book' : book'[i].count <= K[i]
      <4> SUFFICES ASSUME NEW i \in DOMAIN book' PROVE book'[i].count <= K[i]
        OBVIOUS
      <4>1. CASE i = id
        <5>1. local[r].count <= H[id] /\ H[id] \in Nat
          BY <1>2, <2>0, <2>2
        <5> HIDE DEF id
        <5> QED BY <2>0, <2>2, <3>2, <4>1, <5>1
      <4>2. CASE i # id
        BY <1>2, <2>0, <2>2, <3>2, <4>2
      <4> QED BY <4>1, <4>2
    <3>4. \A w \in Writers :
             pc'[w] = "write" /\ local'[w].id # 0 => local'[w].count <= K[local'[w].id]
      <4> SUFFICES ASSUME NEW w \in Writers, pc'[w] = "write", local'[w].id # 0
                   PROVE  local'[w].count <= K[local'[w].id]
        OBVIOUS
      <4>1. local'[w] = local[w] /\ local[w].count <= H[local[w].id]
        BY <1>2, <2>d
      <4>2. local[w].id \in DOMAIN book /\ H[local[w].id] \in Nat /\ local[w].count \in Nat
        BY <1>2, <1>a, <1>b, <2>c, <4>1
      <4>3. K[local[w].id] = H[local[w].id] \/ K[local[w].id] = H[local[w].id] + 1
        BY <3>2, <4>2
      <4> QED BY <4>1, <4>2, <4>3
    <3>5. ASSUME NEW q \in Questions PROVE SumFunctionOnSet(K, AllOf(q)') = WrongAnswers(q)'
      <4>1. AllOf(q)' = AllOf(q)
        BY <2>0, <2>2 DEF AllOf
      <4>2. \A i \in AllOf(q) : H[i] \in Nat /\ K[i] \in Nat
        BY <1>2, <2>0, <2>2, <2>f, <3>2
      <4>3. CASE q # local[r].q
        <5>1. \A i \in AllOf(q) : K[i] = H[i]
          BY <2>0, <2>2, <2>f, <3>2, <4>3 DEF AllOf
        <5>2. SumFunctionOnSet(K, AllOf(q)) = SumFunctionOnSet(H, AllOf(q))
          BY <2>f, <4>2, <5>1, SumSame
        <5> QED BY <1>2, <2>e, <4>1, <4>3, <5>2
      <4>4. CASE q = local[r].q
        <5>1. id \in AllOf(q)
          BY <2>0, <2>2, <4>4 DEF AllOf
        <5>2. \A i \in AllOf(q) \ {id} : H[i] = K[i]
          BY <2>f, <3>2
        <5> HIDE DEF id
        <5>3. SumFunctionOnSet(H, AllOf(q)) + K[id] = SumFunctionOnSet(K, AllOf(q)) + H[id]
          BY <2>f, <4>2, <5>1, <5>2, SumChange
        <5>4. H[id] \in Nat /\ SumFunctionOnSet(K, AllOf(q)) \in Nat
          BY <2>f, <4>2, <5>1, SumType
        <5>5. SumFunctionOnSet(K, AllOf(q)) = SumFunctionOnSet(H, AllOf(q)) + 1
          <6>1. SumFunctionOnSet(H, AllOf(q)) \in Nat
            BY <2>f, <4>2, SumType
          <6> QED BY <3>2, <5>3, <5>4, <6>1
        <5> QED BY <1>2, <2>e, <4>1, <4>4, <5>5
      <4> QED BY <4>3, <4>4
    <3>6. TallyOf(K)'
      BY <2>e, <3>2, <3>3, <3>4, <3>5 DEF TallyOf
    <3> QED BY <3>6 DEF Tally
  <2> QED BY <2>1, <2>2
<1> QED BY <1>3, <1>4

\* No writer comes between a late writer's lookup and its write.
LEMMA SteadyKept ==
    ASSUME Typed, Ordered, Steady, [Next]_vars
    PROVE  Steady'
<1> SUFFICES ASSUME NEW w \in Writers, ~Deleted', pc'[w] = "write", local'[w].id # 0,
                    NEW q, q = local'[w].q, Recorders(q)' \subseteq before'[w]
             PROVE  local'[w].count = book'[local'[w].id].count
  BY DEF Steady, Recorders
<1>1. CASE UpsertFind(w)
  <2>1. book' = book
    BY <1>1 DEF UpsertFind
  <2> QED BY <1>1, <2>1, FindCounts
<1>2. CASE pc[w] = "write" /\ local'[w] = local[w]
  <2>1. w \in Requests /\ ~Deleted
    BY StillDeleted DEF Requests
  <2>2. before'[w] = before[w]
    BY <1>2, <2>1, Moves
  <2>3. /\ local[w].id \in DOMAIN book /\ book[local[w].id].question = local[w].q
        /\ local[w].q \in Questions
    <3>1. local[w].id \in 0..Len(book) /\ local[w] \in Local /\ DOMAIN book = 1..Len(book)
          /\ Len(book) \in Nat
      BY LenProperties DEF Typed, TypeOK, Found
    <3>2. local[w].id \in DOMAIN book
      BY <1>2, <3>1
    <3> QED BY <1>2, <3>1, <3>2 DEF Typed, Found, Local
  <2>4. ASSUME Recorders(q) \subseteq Recorders(q)',
               book'[local[w].id].count = book[local[w].id].count
        PROVE  local'[w].count = book'[local'[w].id].count
    <3>1. Recorders(q) \subseteq before[w]
      BY <1>2, <2>2, <2>4 DEF Recorders
    <3>2. local[w].count = book[local[w].id].count
      BY <1>2, <2>1, <3>1 DEF Steady
    <3> QED BY <1>2, <2>4, <3>2
  <2>5. CASE \A r \in Writers : ~UpsertWrite(r)
    <3>1. recorded' = recorded /\ book'[local[w].id].count = book[local[w].id].count
      BY <2>3, <2>5, CountsKept
    <3> QED BY <2>4, <3>1 DEF Recorders
  <2>6. ASSUME NEW r \in Writers, UpsertWrite(r)
        PROVE  local'[w].count = book'[local'[w].id].count
    <3>1. /\ pc[r] = "write" /\ pc'[r] # "write"
          /\ recorded' = [recorded EXCEPT ![r] = @ \cup {local[r].q}]
          /\ \A i \in DOMAIN book : i # local[r].id => book'[i] = book[i]
          /\ local[r].id # 0 => book[local[r].id].question = local[r].q
      BY <2>6, WriteCounts
    <3>2. recorded \in [Writers -> SUBSET Questions] /\ r \in Requests
      BY DEF Typed, TypeOK, Requests
    <3>3. local[r].q # local[w].q
      <4> SUFFICES ASSUME local[r].q = local[w].q PROVE FALSE
        OBVIOUS
      <4>1. local[r].q \in recorded'[r]
        BY <3>1, <3>2
      <4>2. r \in before[w]
        BY <1>2, <2>2, <4>1 DEF Recorders
      <4>3. pc[r] \in Ended
        BY <2>1, <3>2, <4>2 DEF Ordered
      <4> QED BY <3>1, <4>3 DEF Ended
    <3>4. Recorders(q) \subseteq Recorders(q)'
      <4>1. \A s \in Writers : recorded[s] \subseteq recorded'[s]
        BY <3>1, <3>2
      <4> QED BY <4>1 DEF Recorders
    <3>5. local[w].id # local[r].id
      BY <1>2, <2>3, <3>1, <3>3
    <3> QED BY <2>3, <2>4, <3>1, <3>4, <3>5
  <2> QED BY <2>5, <2>6
<1> QED BY <1>1, <1>2, InWrite

\* Requests that had begun and are apart have been apart.
LEMMA ApartBefore ==
    ASSUME Typed, [Next]_vars, NEW p \in Requests, NEW r \in Requests,
           pc[p] # "idle", pc[r] # "idle", Apart(p, r)'
    PROVE  p \in before[r] \/ r \in before[p]
<1>1. pc'[p] # "idle" /\ pc'[r] # "idle"
  BY Moves
<1>2. before'[p] = before[p] /\ before'[r] = before[r]
  BY Moves
<1> QED BY <1>1, <1>2 DEF Apart

\* A writer apart from those that recorded its question adds one to its count.
LEMMA ExactKept ==
    ASSUME BookInv, Once, Tally, Steady, Exact, [Next]_vars
    PROVE  Exact'
<1> SUFFICES ASSUME NEW q \in Questions, ~Deleted',
                    \A p, r \in Recorders(q)' : p # r => Apart(p, r)'
             PROVE  CountOf(q)' = WrongAnswers(q)'
  BY DEF Exact
<1>a. Typed /\ Ordered /\ TypeOK /\ ~Deleted
  BY StillDeleted DEF BookInv, Typed
<1>b. \A i \in DOMAIN book : ~book[i].gone
  BY <1>a DEF BookInv, NoneGone
<1>c. /\ DOMAIN book = 1..Len(book) /\ Len(book) \in Nat
      /\ \A i \in DOMAIN book : book[i].count \in Nat
  <2>1. book \in Seq(Row) /\ DOMAIN book = 1..Len(book) /\ Len(book) \in Nat
    BY <1>a, LenProperties DEF TypeOK
  <2>2. \A i \in DOMAIN book : book[i] \in Row
    BY <2>1, ElementOfSeq
  <2> QED BY <2>1, <2>2 DEF Row
<1>d. RowsOf(q) \subseteq DOMAIN book /\ IsFiniteSet(RowsOf(q)) /\ IsFiniteSet(DOMAIN book)
  <2>1. IsFiniteSet(DOMAIN book)
    BY <1>c, FS_Interval
  <2>2. RowsOf(q) \subseteq DOMAIN book
    BY DEF RowsOf, Ids
  <2> QED BY <2>1, <2>2, FS_Subset
<1>e. IsFiniteSet(Recorders(q)) /\ WrongAnswers(q) \in Nat
  <2>1. IsFiniteSet(Recorders(q))
    BY DEF Tally, TallyOf
  <2>2. WrongAnswers(q) = Cardinality(Recorders(q))
    BY DEF WrongAnswers, Recorders
  <2> QED BY <2>1, <2>2, FS_CardinalityType
<1>f. \A r \in Recorders(q) : r \in Writers /\ r \in Requests /\ pc[r] # "idle"
  BY <1>a DEF Recorders, Ordered, Requests
<1>1. ASSUME Recorders(q) \subseteq Recorders(q)'
      PROVE  CountOf(q) = WrongAnswers(q)
  <2>1. \A p, r \in Recorders(q) : p # r => Apart(p, r)
    BY <1>1, <1>a, <1>f, ApartBefore DEF Apart
  <2> QED BY <1>a, <2>1 DEF Exact
<1>2. PICK f : f = [i \in DOMAIN book |-> book[i].count]
  OBVIOUS
<1>3. PICK g : g = [i \in DOMAIN book' |-> book'[i].count]
  OBVIOUS
<1>4. CountOf(q) = SumFunctionOnSet(f, RowsOf(q)) /\ CountOf(q)' = SumFunctionOnSet(g, RowsOf(q)')
  BY <1>2, <1>3 DEF CountOf
<1>5. \A i \in RowsOf(q) : f[i] = book[i].count /\ f[i] \in Nat
  BY <1>2, <1>c, <1>d
<1>6. CASE \A r \in Writers : ~UpsertWrite(r)
  <2>1. /\ recorded' = recorded /\ DOMAIN book' = DOMAIN book
        /\ \A i \in DOMAIN book : /\ book'[i].question = book[i].question
                                  /\ book'[i].count = book[i].count
                                  /\ book'[i].gone = book[i].gone
    BY <1>6, <1>a, CountsKept
  <2>2. Recorders(q)' = Recorders(q) /\ WrongAnswers(q)' = WrongAnswers(q)
    BY <2>1 DEF Recorders, WrongAnswers
  <2>3. RowsOf(q)' = RowsOf(q)
    BY <2>1 DEF RowsOf, Ids
  <2>4. \A i \in RowsOf(q) : f[i] \in Nat /\ f[i] = g[i]
    BY <1>3, <1>5, <1>d, <2>1
  <2>5. SumFunctionOnSet(f, RowsOf(q)) = SumFunctionOnSet(g, RowsOf(q))
    BY <1>d, <2>4, SumSame
  <2> QED BY <1>1, <1>4, <2>2, <2>3, <2>5
<1>7. ASSUME NEW r \in Writers, UpsertWrite(r) PROVE CountOf(q)' = WrongAnswers(q)'
  <2> DEFINE id == local[r].id
             n == Len(book) + 1
  <2>0. /\ pc[r] = "write" /\ local[r].q \in Questions /\ local[r].count \in Nat
        /\ \A i \in DOMAIN book :
              /\ i \in DOMAIN book' /\ book'[i].question = book[i].question
              /\ book'[i].gone = book[i].gone
              /\ i # id => book'[i] = book[i]
        /\ id # 0 => /\ DOMAIN book' = DOMAIN book /\ id \in DOMAIN book
                     /\ book[id].question = local[r].q
                     /\ book'[id].count = local[r].count + 1
        /\ id = 0 => /\ DOMAIN book' = DOMAIN book \cup {n} /\ n \notin DOMAIN book
                     /\ book'[n].question = local[r].q /\ book'[n].count = 1
                     /\ ~book'[n].gone
    BY <1>7, <1>a, WriteCounts
  <2>g. /\ q # local[r].q => /\ Recorders(q)' = Recorders(q)
                             /\ WrongAnswers(q)' = WrongAnswers(q)
        /\ q = local[r].q => /\ r \notin Recorders(q)
                             /\ Recorders(q)' = Recorders(q) \cup {r}
                             /\ WrongAnswers(q)' = WrongAnswers(q) + 1
    BY <1>7, <1>a, <1>e, RecordersGrow
  <2>1. CountOf(q) = WrongAnswers(q)
    BY <1>1, <2>g
  <2>2. CASE q # local[r].q
    <3>1. RowsOf(q)' = RowsOf(q)
      BY <2>0, <2>2 DEF RowsOf, Ids
    <3>2. \A i \in RowsOf(q) : f[i] \in Nat /\ f[i] = g[i]
      <4> SUFFICES ASSUME NEW i \in RowsOf(q) PROVE f[i] \in Nat /\ f[i] = g[i]
        OBVIOUS
      <4>1. i \in DOMAIN book /\ book[i].question = q
        BY <1>d DEF RowsOf
      <4>2. i # id
        BY <1>c, <2>0, <2>2, <4>1
      <4> QED BY <1>3, <1>5, <2>0, <4>1, <4>2
    <3>3. SumFunctionOnSet(f, RowsOf(q)) = SumFunctionOnSet(g, RowsOf(q))
      BY <1>d, <3>2, SumSame
    <3> QED BY <1>4, <2>1, <2>2, <2>g, <3>1, <3>3
  <2>3. CASE q = local[r].q /\ id = 0
    <3> HIDE DEF n
    <3>1. RowsOf(q)' = RowsOf(q) \cup {n} /\ n \notin RowsOf(q)
      BY <2>0, <2>3, <1>d DEF RowsOf, Ids
    <3>2. \A i \in RowsOf(q) : f[i] \in Nat /\ f[i] = g[i]
      <4> SUFFICES ASSUME NEW i \in RowsOf(q) PROVE f[i] \in Nat /\ f[i] = g[i]
        OBVIOUS
      <4>1. i \in DOMAIN book /\ i # id
        BY <1>c, <1>d, <2>3
      <4> QED BY <1>3, <1>5, <2>0, <4>1
    <3>3. SumFunctionOnSet(f, RowsOf(q)) = SumFunctionOnSet(g, RowsOf(q))
      BY <1>d, <3>2, SumSame
    <3>4. g[n] = 1 /\ \A i \in RowsOf(q) \cup {n} : g[i] \in Nat
      <4>1. n \in DOMAIN book' /\ book'[n].count = 1
        BY <2>0, <2>3
      <4>2. g[n] = 1
        BY <1>3, <4>1
      <4>3. \A i \in RowsOf(q) : g[i] \in Nat
        BY <3>2
      <4> QED BY <4>2, <4>3
    <3>5. SumFunctionOnSet(g, RowsOf(q) \cup {n}) = g[n] + SumFunctionOnSet(g, RowsOf(q))
      BY <1>d, <3>1, <3>4, SumPutIn
    <3>6. CountOf(q)' = 1 + CountOf(q)
      BY <1>4, <3>1, <3>3, <3>4, <3>5
    <3> QED BY <1>e, <2>1, <2>3, <2>g, <3>6
  <2>4. CASE q = local[r].q /\ id # 0
    <3>1. Recorders(q) \subseteq before[r]
      <4> SUFFICES ASSUME NEW p \in Recorders(q) PROVE p \in before[r]
        OBVIOUS
      <4>1. p # r /\ r \in Requests /\ p \in Requests /\ pc[p] # "idle" /\ pc[r] # "idle"
        BY <1>f, <2>0, <2>4, <2>g DEF Requests
      <4>2. Apart(p, r)'
        BY <2>4, <2>g, <4>1
      <4>3. p \in before[r] \/ r \in before[p]
        BY <1>a, <4>1, <4>2, ApartBefore
      <4>4. r \notin before[p]
        <5>1. pc[r] \notin Ended
          BY <2>0 DEF Ended
        <5> QED BY <1>a, <4>1, <5>1 DEF Ordered
      <4> QED BY <4>3, <4>4
    <3>2. local[r].count = book[id].count
      BY <1>a, <2>0, <2>4, <3>1 DEF Steady
    <3>3. RowsOf(q)' = RowsOf(q) /\ id \in RowsOf(q)
      BY <1>b, <2>0, <2>4 DEF RowsOf, Ids
    <3>4. f[id] = local[r].count /\ g[id] = local[r].count + 1
      BY <1>3, <1>5, <2>0, <2>4, <3>2, <3>3
    <3>5. \A i \in RowsOf(q) \ {id} : f[i] = g[i]
      BY <1>3, <1>5, <1>d, <2>0, <2>4
    <3> HIDE DEF id
    <3>6. \A i \in RowsOf(q) : f[i] \in Nat /\ g[i] \in Nat
      BY <1>5, <2>0, <3>4, <3>5
    <3>7. SumFunctionOnSet(f, RowsOf(q)) + g[id] = SumFunctionOnSet(g, RowsOf(q)) + f[id]
      BY <1>d, <3>3, <3>5, <3>6, SumChange
    <3>8. SumFunctionOnSet(f, RowsOf(q)) \in Nat /\ SumFunctionOnSet(g, RowsOf(q)) \in Nat
      BY <1>d, <3>6, SumType
    <3>9. CountOf(q)' = CountOf(q) + 1
      BY <1>4, <2>0, <3>3, <3>4, <3>7, <3>8
    <3> QED BY <2>1, <2>4, <2>g, <3>9
  <2> QED BY <2>2, <2>3, <2>4
<1> QED BY <1>6, <1>7

\* In the first state nothing has been counted.
LEMMA CountInit == Init => Once /\ Tally /\ Steady /\ Exact
<1> SUFFICES ASSUME Init PROVE Once /\ Tally /\ Steady /\ Exact
  OBVIOUS
<1>1. /\ DOMAIN book = {} /\ \A r \in Requests : pc[r] = "idle"
      /\ \A r \in Writers : r \in Requests /\ recorded[r] = {}
  BY DEF Init, Requests
<1>2. \A r \in Writers : pc[r] # "find" /\ pc[r] # "write"
  BY <1>1
<1>3. \A q \in Questions : Recorders(q) = {} /\ WrongAnswers(q) = 0
  BY <1>1, FS_EmptySet DEF Recorders, WrongAnswers
<1>4. Once
  BY <1>1, <1>2 DEF Once, RecordsOnce
<1>5. \A q \in Questions : AllOf(q) = {} /\ RowsOf(q) = {}
  BY <1>1 DEF AllOf, RowsOf, Ids
<1>6. Tally
  <2>1. PICK H : H = [i \in {} |-> 0]
    OBVIOUS
  <2>2. TallyOf(H)
    BY <1>1, <1>2, <1>3, <1>5, <2>1, SumEmpty, FS_EmptySet DEF TallyOf
  <2> QED BY <2>2 DEF Tally
<1>7. Steady
  BY <1>2 DEF Steady
<1>8. Exact
  BY <1>3, <1>5, SumEmpty DEF Exact, CountOf
<1> QED BY <1>4, <1>6, <1>7, <1>8

\* The invariant of the counts.
LEMMA CountInvariant == Spec => []CountInv
<1>1. Init => Once /\ Tally /\ Steady /\ Exact
  BY CountInit
<1>2. BookInv /\ (Once /\ Tally /\ Steady /\ Exact) /\ [Next]_vars
         => (Once /\ Tally /\ Steady /\ Exact)'
  <2> SUFFICES ASSUME BookInv, Once, Tally, Steady, Exact, [Next]_vars
               PROVE  (Once /\ Tally /\ Steady /\ Exact)'
    OBVIOUS
  <2>1. Typed /\ Ordered
    BY DEF BookInv
  <2> QED BY <2>1, OnceKept, TallyKept, SteadyKept, ExactKept
<1>3. BookInv /\ (Once /\ Tally /\ Steady /\ Exact) <=> CountInv
  BY DEF CountInv
<1> QED BY <1>1, <1>2, <1>3, Invariant, PTL DEF Spec

\* The counts of a question never add up to more than the wrong answers recorded
\* for it, and to no less unless two of its writers overlapped
\* (repository_wrong_question.go:17) or a record was deleted.
THEOREM CountsStayPossible == Spec => []CountsPossible
<1>1. ASSUME CountInv PROVE CountsPossible
  <2>0. TypeOK /\ Tally /\ Exact
    BY <1>1 DEF CountInv, BookInv, Typed
  <2>1. PICK H : TallyOf(H)
    BY <2>0 DEF Tally
  <2>2. PICK f : f = [i \in DOMAIN book |-> book[i].count]
    OBVIOUS
  <2>3. /\ IsFiniteSet(DOMAIN book)
        /\ \A i \in DOMAIN book : f[i] \in Nat /\ H[i] \in Nat /\ f[i] <= H[i]
    <3>1. book \in Seq(Row) /\ DOMAIN book = 1..Len(book) /\ Len(book) \in Nat
      BY <2>0, LenProperties DEF TypeOK
    <3>2. \A i \in DOMAIN book : book[i] \in Row
      BY <3>1, ElementOfSeq
    <3> QED BY <2>1, <2>2, <3>1, <3>2, FS_Interval DEF TallyOf, Row
  <2>4. ASSUME NEW q \in Questions PROVE CountOf(q) <= WrongAnswers(q)
    <3>1. /\ RowsOf(q) \subseteq AllOf(q) /\ RowsOf(q) \subseteq DOMAIN book
          /\ AllOf(q) \subseteq DOMAIN book
      BY DEF RowsOf, Ids, AllOf
    <3>2. IsFiniteSet(RowsOf(q)) /\ IsFiniteSet(AllOf(q))
      BY <2>3, <3>1, FS_Subset
    <3>3. SumFunctionOnSet(f, RowsOf(q)) <= SumFunctionOnSet(H, RowsOf(q))
      BY <2>3, <3>1, <3>2, SumAtMost
    <3>4. SumFunctionOnSet(H, RowsOf(q)) <= SumFunctionOnSet(H, AllOf(q))
      BY <2>3, <3>1, <3>2, SumSubset
    <3>5. /\ SumFunctionOnSet(f, RowsOf(q)) \in Nat
          /\ SumFunctionOnSet(H, RowsOf(q)) \in Nat
          /\ SumFunctionOnSet(H, AllOf(q)) \in Nat
      BY <2>3, <3>1, <3>2, SumType
    <3>6. CountOf(q) = SumFunctionOnSet(f, RowsOf(q))
      BY <2>2 DEF CountOf
    <3>7. SumFunctionOnSet(H, AllOf(q)) = WrongAnswers(q)
      BY <2>1 DEF TallyOf
    <3> QED BY <3>3, <3>4, <3>5, <3>6, <3>7
  <2>5. ASSUME NEW q \in Questions
        PROVE  \/ CountOf(q) = WrongAnswers(q)
               \/ Deleted
               \/ \E p, r \in Writers :
                     p # r /\ q \in recorded[p] \cap recorded[r] /\ ~Apart(p, r)
    BY <2>0 DEF Exact, Recorders
  <2> QED BY <2>0, <2>4, <2>5 DEF CountsPossible
<1> QED BY <1>1, CountInvariant, PTL
=============================================================================
