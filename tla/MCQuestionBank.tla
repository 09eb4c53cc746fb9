---------------------------- MODULE MCQuestionBank ----------------------------
(* Instances of QuestionBank for TLC.                                        *)
EXTENDS QuestionBank, TLC

MCTexts == {"", "T", "F", "A", " A", "a", " a", "B"}
MCTrim == [t \in MCTexts |-> IF t = " A" THEN "A" ELSE IF t = " a" THEN "a" ELSE t]
MCFold == [t \in MCTexts |-> IF t = "A" THEN "a" ELSE IF t = " A" THEN " a" ELSE t]

Text(t) == [kind |-> "text", items |-> <<t>>]
List(s) == [kind |-> "list", items |-> s]
Ask(type, keys, key) == [type |-> type, keys |-> keys, answer |-> key, bound |-> TRUE]

MCAsked == {
    Ask("single", <<" A", "B">>, Text("A")),
    Ask("single", <<"A", " A">>, Text("A")),       \* a key repeated
    Ask("single", <<"A", "a">>, Text("a")),
    Ask("single", <<"A", "B">>, Text(" A")),
    Ask("multiple", <<"A", "B">>, List(<<"B", "A">>)),
    Ask("multiple", <<"A", "B">>, List(<<"A", "A">>)),
    Ask("multiple", <<"A", "B">>, List(<<"T">>)),   \* not an option
    Ask("multiple", <<"A", "">>, Text("A")),
    Ask("true_false", <<>>, Text("T")),
    Ask("fill_blank", <<"A">>, List(<<"A", "">>)),
    Ask("fill_blank", <<"A">>, List(<<" A">>)),
    Ask("short_answer", <<>>, NoValue),
    Ask("short_answer", <<>>, Text("B")),
    [Ask("single", <<"A", "B">>, Text("B")) EXCEPT !.bound = FALSE] }

Entry(q) == [is |-> "question", question |-> q]
Header == [is |-> "header"]

Unbound == {Entry(q) : q \in {q \in MCAsked : ~q.bound}}
Subjective == {Entry(q) : q \in {q \in MCAsked : q.type = "short_answer"}}

\* What each kind of file may be refused for, and what it lets through.
MCFiles == [via : {"body", "json"}, entries : {<<Header>>} \cup [1..1 -> Unbound \cup Subjective]]
             \cup [via : {"xlsx"},
                   entries : {<<>>, <<Header>>, <<Header, Header>>, <<[is |-> "unreadable"]>>}
                      \cup [1..2 -> {Header} \cup Unbound \cup Subjective]]
=============================================================================
