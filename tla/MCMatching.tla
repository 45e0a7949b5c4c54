----------------------------- MODULE MCMatching -----------------------------
(* Matching for TLC: tuples and templates of up to two fields. *)
EXTENDS Matching

McMinInt == -2

String(s) == [go |-> "string", v |-> s]
Number(n) == [go |-> "number", v |-> n]
Bool(b) == [go |-> "bool", v |-> b]
Fraction == [go |-> "fraction", v |-> 0]
Array == [go |-> "array", v |-> 0]

\* The ends of the range, and the numbers beside them.
McValues ==
    {String(s) : s \in Strings} \cup {Bool(TRUE), Bool(FALSE), Fraction, Array, Nil}
        \cup {Number(n) : n \in {MinInt - 1, MinInt, MaxInt, MaxInt + 1}}

McFields == [type : Types, value : McValues]
McTuples == {<<>>} \cup {<<f>> : f \in McFields} \cup {<<f, g>> : f, g \in McFields}

McTemplateFields ==
    [kind : {"actual"}, type : Types, name : {NoName}, value : McValues]
        \cup [kind : {"formal"}, type : Types, name : Names \cup {NoName}, value : {Nil}]
        \cup {[kind |-> "actual", type |-> "bool", name |-> n, value |-> Bool(TRUE)] : n \in Names}
        \cup {[kind |-> "formal", type |-> "bool", name |-> n, value |-> Bool(TRUE)] : n \in Names}
        \cup {[kind |-> "other", type |-> "bool", name |-> NoName, value |-> Nil]}
McTemplates ==
    {<<>>} \cup {<<f>> : f \in McTemplateFields} \cup {<<f, g>> : f, g \in McTemplateFields}
===============================================================================
