------------------------------- MODULE TupleDSL -------------------------------
(***************************************************************************)
(* The compact syntax as one writes it (cmd/tuplespacectl/doc/tuple-dsl.md *)
(* and its examples), against which the parser of CompactSpec is judged:   *)
(* the texts that stand for fields, and texts that stand for nothing.      *)
(***************************************************************************)
EXTENDS CompactSpec

Pad(n) == [i \in 1..n |-> Space]

Padded(text, word) == \E a, b \in Nat : text = Pad(a) \o word \o Pad(b)

\* Without spaces at its ends.
Tight(text) == text # <<>> => Head(text) # Space /\ Last(text) # Space

\* Without quotes and commas.
Plain(text) == \A i \in DOMAIN text : text[i] \notin {Quote, Comma}

-------------------------------------------------------------------------------
(* A field *)

EscapedRune(r) == IF r \in {Quote, Backslash} THEN <<Backslash, r>> ELSE <<r>>

Escaped(value) == FlattenSeq([i \in DOMAIN value |-> EscapedRune(value[i])])

Quoted(value) == <<Quote>> \o Escaped(value) \o <<Quote>>

\* A string without quotes: what nothing else in the syntax looks like.
Bare(spec, text) ==
    /\ text \in Seq(Runes) \ {<<>>} /\ Plain(text) /\ Tight(text)
    /\ text \notin {<<"true">>, <<"false">>} \cup {<<n>> : n \in Numerals}
    /\ spec = "template" => Head(text) # Question

Types == {"string", "int", "bool"}

FormalText(name, type) ==
    {<<Question>> \o Pad(n[1]) \o name \o Pad(n[2]) \o <<Colon>> \o Pad(n[3]) \o type : n \in Nat \X Nat \X Nat}

\* A text that stands for a field, in a spec of a "tuple" or of a "template".
Spells(spec, text, f) ==
    \/ \E value \in Seq(Runes) : text = Quoted(value) /\ f = Actual("string", value)
    \/ Bare(spec, text) /\ f = Actual("string", text)
    \/ \E n \in Numerals : text = <<n>> /\ f = Actual("int", <<IntOf[n]>>)
    \/ \E b \in {"true", "false"} : text = <<b>> /\ f = Actual("bool", <<b>>)
    \/ spec = "template" /\ \E name \in Seq(Runes), type \in Types :
           /\ text \in FormalText(name, <<type>>) /\ f = Formal(type, name)
           /\ name # <<>> /\ Plain(name) /\ Tight(name) /\ \A i \in DOMAIN name : name[i] # Colon

\* A text that stands for none: a string with something behind its end, or a formal without
\* a colon, a name or a known type.
Misspelt(spec, text) ==
    /\ Tight(text)
    /\ \/ \E value, rest \in Seq(Runes) : text = Quoted(value) \o rest /\ rest # <<>> /\ Plain(rest)
       \/ spec = "template" /\ \E rest \in Seq(Runes) :
              text = <<Question>> \o rest /\ Plain(rest) /\ \A i \in DOMAIN rest : rest[i] # Colon
       \/ spec = "template" /\ \E name, type \in Seq(Runes) :
              /\ text \in FormalText(name, type)
              /\ Plain(name) /\ Tight(name) /\ \A i \in DOMAIN name : name[i] # Colon
              /\ Plain(type) /\ Tight(type)
              /\ name = <<>> \/ type \notin {<<t>> : t \in Types}

-------------------------------------------------------------------------------
(* Fields *)

Separated(pieces) ==
    FlattenSeq([i \in 1..(Len(pieces) - 1) |-> pieces[i] \o <<Comma>>]) \o Last(pieces)

\* A text and what it is when spaces and parentheses around it are taken away.
Encloses(text, body) ==
    /\ Tight(body)
    /\ \/ ~(body # <<>> /\ Head(body) = Open /\ Last(body) = Close) /\ Padded(text, body)
       \/ \E inside : Padded(inside, body) /\ Padded(text, <<Open>> \o inside \o <<Close>>)

\* The text of fields.
Writes(spec, text, fields) ==
    \E pieces \in Seq(Seq(Runes)) :
        /\ Len(pieces) = Len(fields) /\ pieces # <<>>
        /\ \A i \in DOMAIN pieces :
               \E word : Spells(spec, word, fields[i]) /\ Padded(pieces[i], word)
        /\ Encloses(text, Separated(pieces))

\* What may stand between commas.
Right(spec, piece) ==
    \E word : Padded(piece, word) /\ \E f : Spells(spec, word, f)
Wrong(spec, piece) ==
    \E word : Padded(piece, word) /\ (word = <<>> \/ Misspelt(spec, word))

\* A text that stands for no fields: one of them is empty or misspelt, or the last is a
\* string that does not end.
Malformed(spec, text) ==
    \E pieces \in Seq(Seq(Runes)) :
        /\ pieces # <<>>
        /\ Encloses(text, Separated(pieces))
        /\ \/ /\ \A i \in DOMAIN pieces : Right(spec, pieces[i]) \/ Wrong(spec, pieces[i])
              /\ \E i \in DOMAIN pieces : Wrong(spec, pieces[i])
           \/ /\ \A i \in 1..(Len(pieces) - 1) : Right(spec, pieces[i]) \/ Wrong(spec, pieces[i])
              /\ \E a \in Nat, value \in Seq(Runes) :
                     pieces[Len(pieces)] = Pad(a) \o <<Quote>> \o Escaped(value)
===============================================================================
