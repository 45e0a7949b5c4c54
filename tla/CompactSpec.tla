----------------------------- MODULE CompactSpec -----------------------------
(***************************************************************************)
(* The compact syntax of tuples and templates on the command line          *)
(* (cmd/tuplespacectl/cmds/common.go).  A text is a sequence whose         *)
(* elements are the characters with a meaning in the syntax, and words     *)
(* that have none inside.                                                  *)
(***************************************************************************)
EXTENDS Integers, SequencesExt

CONSTANTS
    Runes,     \* what texts are made of: the characters, and words without any of them
    Numerals,  \* the words that strconv.ParseInt reads
    IntOf      \* what it reads: the integer, named by its shortest numeral

Quote == "\""
Backslash == "\\"
Comma == ","
Space == " "
Colon == ":"
Open == "("
Close == ")"
Question == "?"
Syntax == {Quote, Backslash, Comma, Space, Colon, Open, Close, Question}

ASSUME RunesAssumption ==
    /\ Syntax \cup {"true", "false", "string", "int", "bool"} \subseteq Runes
    /\ Numerals \subseteq Runes \ (Syntax \cup {"true", "false"})
    /\ IntOf \in [Numerals -> Runes]

\* The result of an operator that returns an error.
NoFields == <<>>

TrimSpace(text) ==
    LET Solid == {i \in DOMAIN text : text[i] # Space}
    IN IF Solid = {} THEN <<>> ELSE SubSeq(text, Min(Solid), Max(Solid))

-------------------------------------------------------------------------------
(* splitSpecFields *)

\* An iteration of its loop.
ReadRune_Mutant(st, r) ==
    LET separates == r = Comma /\ ~st.inQuotes
    IN [parts    |-> IF separates THEN Append(st.parts, TrimSpace(st.current)) ELSE st.parts,
        current  |-> IF separates THEN <<>> ELSE Append(st.current, r),
        inQuotes |-> st.inQuotes # (r = Quote),
        escaped  |-> FALSE]
ReadRune(st, r) ==
    LET separates == r = Comma /\ ~st.inQuotes
    IN [parts    |-> IF separates THEN Append(st.parts, TrimSpace(st.current)) ELSE st.parts,
        current  |-> IF separates THEN <<>> ELSE Append(st.current, r),
        inQuotes |-> st.inQuotes # (r = Quote /\ ~st.escaped),
        escaped  |-> r = Backslash /\ st.inQuotes /\ ~st.escaped]

WithoutParentheses(text) ==
    IF text # <<>> /\ Head(text) = Open /\ Last(text) = Close
    THEN TrimSpace(SubSeq(text, 2, Len(text) - 1))
    ELSE text

\* Its loop, from a state over a text.
ReadRunes(start, text) ==
    LET after[n \in 0..Len(text)] == IF n = 0 THEN start ELSE ReadRune(after[n - 1], text[n])
    IN after[Len(text)]

splitSpecFields(spec) ==
    LET start == [parts |-> <<>>, current |-> <<>>, inQuotes |-> FALSE, escaped |-> FALSE]
        st == ReadRunes(start, WithoutParentheses(TrimSpace(spec)))
        parts == Append(st.parts, TrimSpace(st.current))
    IN IF st.inQuotes \/ Contains(parts, <<>>) THEN NoFields ELSE parts

-------------------------------------------------------------------------------
(* Tokens *)

\* strconv.Unquote of what is between the quotes.  Of Go's escapes, those of the quote
\* and the backslash.
UnquoteRune(st, r) ==
    [value   |-> IF r = Backslash /\ ~st.escaped THEN st.value ELSE Append(st.value, r),
     escaped |-> r = Backslash /\ ~st.escaped,
     ok      |-> st.ok /\ (st.escaped <=> r = Quote \/ (r = Backslash /\ st.escaped))]
Unquote(text) ==
    LET start == [value |-> <<>>, escaped |-> FALSE, ok |-> TRUE]
        after[n \in 0..Len(text)] == IF n = 0 THEN start ELSE UnquoteRune(after[n - 1], text[n])
        st == after[Len(text)]
    IN [value |-> st.value, ok |-> st.ok /\ ~st.escaped]

Actual(type, value) == [kind |-> "actual", type |-> type, name |-> <<>>, value |-> value]
Formal(type, name) == [kind |-> "formal", type |-> type, name |-> name, value |-> <<>>]
BadField == [kind |-> "bad", type |-> "none", name |-> <<>>, value |-> <<>>]

parseString(token) ==
    LET unquoted == Unquote(SubSeq(token, 2, Len(token) - 1))
    IN IF Len(token) >= 2 /\ Last(token) = Quote /\ unquoted.ok
       THEN Actual("string", unquoted.value) ELSE BadField

parseLiteralToken(token) ==
    IF Head(token) = Quote THEN parseString(token)
    ELSE IF token \in {<<"true">>, <<"false">>} THEN Actual("bool", token)
    ELSE IF Len(token) = 1 /\ token[1] \in Numerals THEN Actual("int", <<IntOf[token[1]]>>)
    ELSE Actual("string", token)

\* strings.Cut at the first colon.
parseFormalToken(token) ==
    LET colons == {i \in DOMAIN token : token[i] = Colon}
        name == TrimSpace(SubSeq(token, 2, Min(colons) - 1))
        type == TrimSpace(SubSeq(token, Min(colons) + 1, Len(token)))
    IN IF colons # {} /\ name # <<>> /\ type \in {<<"string">>, <<"int">>, <<"bool">>}
       THEN Formal(type[1], name) ELSE BadField

parseTemplateFieldToken(token) ==
    IF Head(token) = Question THEN parseFormalToken(token) ELSE parseLiteralToken(token)

\* What the tokens of a literal hold is normalised already: NormalizeTuple and
\* NormalizeTemplate return it as it is.
ParseSpec(spec, ParseToken(_)) ==
    LET parts == splitSpecFields(spec)
        parsed == [i \in DOMAIN parts |-> ParseToken(parts[i])]
    IN IF Contains(parsed, BadField) THEN NoFields ELSE parsed

ParseTupleSpec(spec) == ParseSpec(spec, parseLiteralToken)
ParseTemplateSpec(spec) == ParseSpec(spec, parseTemplateFieldToken)
===============================================================================
