------------------------------- MODULE MCClient -------------------------------
(* Client for TLC: what is typed at the command line. *)
EXTENDS Client, TupleDSL, TLC

McRunes == Syntax \cup {"true", "false", "string", "int", "bool", "job", "id", "42", "042"}
McIntOf == "42" :> "42" @@ "042" :> "42"

-------------------------------------------------------------------------------
(* How fields are written. *)

Written(f) ==
    IF f.kind = "formal" THEN <<Question>> \o f.name \o <<Colon, f.type>>
    ELSE IF f.type = "string" THEN Quoted(f.value)
    ELSE f.value

\* Bare, or with every space and parenthesis that may be added.
Plainly(fields) == Separated([i \in DOMAIN fields |-> Written(fields[i])])
Spaciously(fields) ==
    Pad(1) \o <<Open>>
        \o Separated([i \in DOMAIN fields |-> Pad(1) \o Written(fields[i]) \o Pad(1)])
        \o <<Close>> \o Pad(1)

-------------------------------------------------------------------------------
(* What is written. *)

McContents ==
    BoundedSeq({Quote, Backslash, Comma, Space, Open, Close, Question, "42", "true"}, 2)
McLiterals ==
    {Actual("string", c) : c \in McContents} \cup {Actual("int", <<"42">>), Actual("bool", <<"true">>)}
McPairs == {<<f, Actual("string", <<Comma, Quote>>)>> : f \in McLiterals}
Job == <<Actual("string", <<"job">>), Formal("int", <<"id">>)>>
Done == <<Actual("string", <<"job">>), Actual("int", <<"42">>)>>

\* Texts and what they mean; <<>> for those that are malformed.
McTexts ==
    {<<Plainly(p), p>> : p \in McPairs} \cup {<<Spaciously(p), p>> : p \in McPairs}
        \cup {<<<<"job", Comma, Space, "042">>, Done>>,
              <<<<Open, "job", Comma, Quote, Quote, Close>>,
                <<Actual("string", <<"job">>), Actual("string", <<>>)>>>>}
McMalformed ==
    {<<>>, <<Space>>, <<Open, Close>>, <<"job", Comma>>, <<Quote, "job", Comma, "42">>,
     <<Quote, "job", Quote, "job">>, <<Quote, Backslash, Quote>>}
McMalformedTemplates ==
    {<<"job", Comma, Question, "id">>, <<Question, Colon, "int">>, <<Question, "id", Colon, "job">>}

-------------------------------------------------------------------------------
(* Commands *)

Command(op, args, means) ==
    [op |-> op, spaceOK |-> TRUE, waitMS |-> 0, file |-> <<>>, spec |-> <<>>, args |-> args,
     means |-> means]

\* Every text, as the argument of a command that the server will refuse.
McParsed ==
    {[Command(op, <<t[1]>>, <<t[2]>>) EXCEPT !.spaceOK = FALSE] : op \in {"out", "rd"}, t \in McTexts}

McRejected ==
    {Command("out", <<Plainly(Done), t>>, <<>>) : t \in McMalformed}
        \cup {Command("in", <<t, Plainly(Job)>>, <<>>) : t \in McMalformed \cup McMalformedTemplates}
        \cup {Command("in", <<>>, <<>>),
              [Command("rd", <<Plainly(Job)>>, <<>>) EXCEPT !.file = <<Job>>],
              [Command("rd", <<>>, <<>>) EXCEPT !.file = <<NoFields>>],
              [Command("rd", <<>>, <<>>) EXCEPT !.file = <<Job>>, !.spec = <<Plainly(Job)>>]}

\* Commands of one and of two inputs, with every wait.
McWaiting ==
    {[Command(op, <<>>, <<Job>>) EXCEPT !.spec = <<Spaciously(Job)>>, !.waitMS = w] :
         op \in {"rd", "in"}, w \in Durations}
        \cup {[Command("in", <<Plainly(Job), Spaciously(Done)>>, <<Job, Done>>) EXCEPT !.waitMS = w] :
                  w \in Durations}
        \cup {Command("out", <<Plainly(Done), Plainly(Done)>>, <<Done, Done>>),
              [Command("rd", <<>>, <<Job>>) EXCEPT !.file = <<Job>>]}

McCommands == McParsed \cup McRejected \cup McWaiting
===============================================================================
