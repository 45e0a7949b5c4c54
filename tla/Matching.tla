------------------------------- MODULE Matching -------------------------------
(***************************************************************************)
(* What a tuple goes through to be found (internal/validation,             *)
(* internal/types, internal/store/candidate_query.go, internal/match): Out *)
(* validates, normalises and stores it; Rd or In validates its template,   *)
(* asks PostgreSQL for the rows that may match, decodes the row and runs   *)
(* Match on it, one iteration of its loop at a time.                       *)
(*                                                                         *)
(* A Go value of type any is [go |-> its dynamic type, v |-> its value].   *)
(* Requests are decoded with UseNumber, so that of the types normalizeInt  *)
(* accepts only json.Number and int64 ever reach it: "number" is a         *)
(* json.Number whose text is that of an integer, "fraction" one with a     *)
(* point or an exponent, which Int64 rejects even if it is whole.          *)
(***************************************************************************)
EXTENDS Integers, Sequences

CONSTANTS
    Strings,         \* what strings are made of
    MinInt, MaxInt,  \* the range of int64 and of BIGINT
    Names,           \* the names that are not empty
    RawTuples,       \* decoded tuples of requests
    RawTemplates     \* decoded templates of requests

NoName == ""
SupportedTypes == {"string", "int", "bool"}
Types == SupportedTypes \cup {"other"}

Nil == [go |-> "nil", v |-> 0]
StringValues == [go : {"string"}, v : Strings]
IntValues == [go : {"int64"}, v : MinInt..MaxInt]
BoolValues == [go : {"bool"}, v : BOOLEAN]
RawValues == StringValues \cup BoolValues \cup [go : {"number"}, v : Int]
                \cup [go : {"fraction", "array", "nil"}, v : {0}]

RawFields == [type : Types, value : RawValues]
RawTemplateFields ==
    [kind : {"actual", "formal", "other"}, type : Types, name : Names \cup {NoName}, value : RawValues]

ASSUME RangeAssumption == MinInt \in Int /\ MaxInt \in Int
ASSUME NamesAssumption == NoName \notin Names
ASSUME RequestsAssumption ==
    /\ \A t \in RawTuples : t \in Seq(RawFields)
    /\ \A t \in RawTemplates : t \in Seq(RawTemplateFields)

-------------------------------------------------------------------------------
(* Values (internal/types/normalize.go) *)

IsSupportedValueType(type) == type \in SupportedTypes

\* NormalizeValue returns no error.
Normalizable_RangeMutant(type, raw) ==
    \/ type = "string" /\ raw.go = "string"
    \/ type = "int" /\ raw.go \in {"int64", "number"}
    \/ type = "bool" /\ raw.go = "bool"
Normalizable(type, raw) ==
    \/ type = "string" /\ raw.go = "string"
    \/ type = "int" /\ (raw.go = "int64" \/ (raw.go = "number" /\ raw.v \in MinInt..MaxInt))
    \/ type = "bool" /\ raw.go = "bool"

NormalizeValue(type, raw) == IF type = "int" THEN [go |-> "int64", v |-> raw.v] ELSE raw

\* What encoding/json makes of a value, as UseNumber decodes it.
Encoded_FloatMutant(value) == IF value.go = "int64" THEN [go |-> "fraction", v |-> 0] ELSE value
Encoded(value) == IF value.go = "int64" THEN [go |-> "number", v |-> value.v] ELSE value

EqualValue(type, left, right) ==
    /\ Normalizable(type, left) /\ Normalizable(type, right)
    /\ NormalizeValue(type, left) = NormalizeValue(type, right)

-------------------------------------------------------------------------------
(* Tuples and templates (internal/validation) *)

ValidTuple(t) ==
    /\ t # <<>>
    /\ \A i \in DOMAIN t :
           IsSupportedValueType(t[i].type) /\ Normalizable(t[i].type, t[i].value)

NormalizeTuple(t) ==
    [i \in DOMAIN t |-> [t[i] EXCEPT !.value = NormalizeValue(t[i].type, @)]]

ValidTemplate(t) ==
    /\ t # <<>>
    /\ \A i \in DOMAIN t :
           /\ IsSupportedValueType(t[i].type)
           /\ \/ t[i].kind = "actual" /\ t[i].name = NoName /\ Normalizable(t[i].type, t[i].value)
              \/ t[i].kind = "formal" /\ t[i].name # NoName /\ t[i].value = Nil

NormalizeTemplate(t) ==
    [i \in DOMAIN t |->
        IF t[i].kind = "actual" THEN [t[i] EXCEPT !.value = NormalizeValue(t[i].type, @)] ELSE t[i]]

-------------------------------------------------------------------------------
(* The tables (internal/store) *)

\* The row of tuples, and its rows of tuple_fields; val is the column of the
\* field's type, the others being NULL.
Row(t) ==
    [arity   |-> Len(t),
     payload |-> [i \in DOMAIN t |-> [t[i] EXCEPT !.value = Encoded(@)]],
     fields  |-> {[pos |-> i - 1, type |-> t[i].type, val |-> t[i].value] : i \in DOMAIN t}]

NoRow == [arity |-> 0, payload |-> <<>>, fields |-> {}]

\* The SELECT joins tuple_fields once for each actual field.
IsCandidate_PosMutant(r, t) ==
    /\ r.arity = Len(t)
    /\ \A i \in DOMAIN t : t[i].kind = "actual" =>
           \E f \in r.fields : f.pos = i /\ f.type = t[i].type /\ f.val = t[i].value
IsCandidate(r, t) ==
    /\ r.arity = Len(t)
    /\ \A i \in DOMAIN t : t[i].kind = "actual" =>
           \E f \in r.fields : f.pos = i - 1 /\ f.type = t[i].type /\ f.val = t[i].value

-------------------------------------------------------------------------------
VARIABLES
    pc,        \* "out", "rejected", "stored"; then of the read: "invalid", "missed",
               \* "unreadable", "matching", "matched", "unmatched"
    sent,      \* the tuple of Out, normalised once it is stored
    row,       \* what is stored
    template,  \* the template of the read, normalised
    tuple,     \* the candidate that was decoded
    pos,       \* the loop's i, from 1
    bindings   \* Nil for a name that is not in the map

vars == <<pc, sent, row, template, tuple, pos, bindings>>

Unbound == [n \in Names |-> Nil]

Init ==
    /\ pc = "out"
    /\ sent \in RawTuples
    /\ row = NoRow
    /\ template = <<>>
    /\ tuple = <<>>
    /\ pos = 1
    /\ bindings = Unbound

\* Service.Out: ValidateTuple, InsertTuple.
Out ==
    /\ pc = "out" /\ ValidTuple(sent)
    /\ pc' = "stored"
    /\ sent' = NormalizeTuple(sent)
    /\ row' = Row(sent')
    /\ UNCHANGED <<template, tuple, pos, bindings>>

RejectOut ==
    /\ pc = "out" /\ ~ValidTuple(sent)
    /\ pc' = "rejected"
    /\ UNCHANGED <<sent, row, template, tuple, pos, bindings>>

\* Service.read: ValidateTemplate, and the SELECT, which does not return the row.
Miss(raw) ==
    /\ pc = "stored" /\ ValidTemplate(raw)
    /\ template' = NormalizeTemplate(raw)
    /\ ~IsCandidate(row, template')
    /\ pc' = "missed"
    /\ UNCHANGED <<sent, row, tuple, pos, bindings>>

\* The SELECT returns the row; decodeTuple decodes and normalises the payload.
Fetch(raw) ==
    /\ pc = "stored" /\ ValidTemplate(raw)
    /\ template' = NormalizeTemplate(raw)
    /\ IsCandidate(row, template')
    /\ pc' = IF \A i \in DOMAIN row.payload : Normalizable(row.payload[i].type, row.payload[i].value)
             THEN "matching" ELSE "unreadable"
    /\ tuple' = NormalizeTuple(row.payload)
    /\ UNCHANGED <<sent, row, pos, bindings>>

RejectRead(raw) ==
    /\ pc = "stored" /\ ~ValidTemplate(raw)
    /\ pc' = "invalid"
    /\ UNCHANGED <<sent, row, template, tuple, pos, bindings>>

\* The field of the template agrees with that of the tuple, under the bindings.
Agrees_RepeatMutant(f, g) ==
    /\ f.type = g.type
    /\ \/ f.kind = "actual" /\ EqualValue(f.type, f.value, g.value)
       \/ f.kind = "formal"
Agrees(f, g) ==
    /\ f.type = g.type
    /\ \/ f.kind = "actual" /\ EqualValue(f.type, f.value, g.value)
       \/ f.kind = "formal" /\ (bindings[f.name] = Nil \/ EqualValue(f.type, bindings[f.name], g.value))

\* An iteration of Match's loop.
MatchField ==
    /\ pc = "matching" /\ Len(template) = Len(tuple)
    /\ pos <= Len(template) /\ Agrees(template[pos], tuple[pos])
    /\ pos' = pos + 1
    /\ bindings' = IF template[pos].kind = "formal" /\ bindings[template[pos].name] = Nil
                   THEN [bindings EXCEPT ![template[pos].name] = tuple[pos].value]
                   ELSE bindings
    /\ UNCHANGED <<pc, sent, row, template, tuple>>

MatchFails ==
    /\ pc = "matching"
    /\ \/ Len(template) # Len(tuple)
       \/ pos <= Len(template) /\ ~Agrees(template[pos], tuple[pos])
    /\ pc' = "unmatched"
    /\ UNCHANGED <<sent, row, template, tuple, pos, bindings>>

MatchSucceeds ==
    /\ pc = "matching" /\ Len(template) = Len(tuple) /\ pos > Len(template)
    /\ pc' = "matched"
    /\ UNCHANGED <<sent, row, template, tuple, pos, bindings>>

Next ==
    \/ Out \/ RejectOut
    \/ \E raw \in RawTemplates : Miss(raw) \/ Fetch(raw) \/ RejectRead(raw)
    \/ MatchField \/ MatchFails \/ MatchSucceeds

Spec == Init /\ [][Next]_vars

-------------------------------------------------------------------------------
(* Properties *)

\* A value as NormalizeValue returns it for the type.
Normal(type, value) ==
    \/ type = "string" /\ value \in StringValues
    \/ type = "int" /\ value \in IntValues
    \/ type = "bool" /\ value \in BoolValues

NormalValues == StringValues \cup IntValues \cup BoolValues
NormalFields == [type : SupportedTypes, value : NormalValues]
NormalTemplateFields ==
    [kind : {"actual", "formal"}, type : SupportedTypes, name : Names \cup {NoName},
     value : NormalValues \cup {Nil}]

NormalTuple(t) ==
    /\ t \in Seq(NormalFields)
    /\ \A i \in DOMAIN t : Normal(t[i].type, t[i].value)

NormalTemplate(t) ==
    /\ t \in Seq(NormalTemplateFields)
    /\ \A i \in DOMAIN t :
           \/ t[i].kind = "actual" /\ t[i].name = NoName /\ Normal(t[i].type, t[i].value)
           \/ t[i].kind = "formal" /\ t[i].name \in Names

\* Every variable has its type: above all, only values that the columns of
\* tuple_fields can hold are stored (InsertTuple's type assertions).
TypeOK ==
    /\ pc \in {"out", "rejected", "stored", "invalid", "missed", "unreadable", "matching",
               "matched", "unmatched"}
    /\ IF pc \in {"out", "rejected"} THEN sent \in RawTuples ELSE NormalTuple(sent)
    /\ row = IF pc \in {"out", "rejected"} THEN NoRow ELSE Row(sent)
    /\ NormalTemplate(template)
    /\ pos \in Nat \ {0}
    /\ bindings \in [Names -> NormalValues \cup {Nil}]

\* What a template means: some assignment of values to its names makes it the
\* tuple.
Fits(b, t, u) ==
    /\ Len(t) = Len(u)
    /\ \A i \in DOMAIN t :
           /\ t[i].type = u[i].type
           /\ t[i].kind = "actual" => t[i].value = u[i].value
           /\ t[i].kind = "formal" => b[t[i].name] = u[i].value

Accepts(t, u) == \E b \in [Names -> {u[i].value : i \in DOMAIN u}] : Fits(b, t, u)

\* Match accepts a tuple exactly if an assignment of the names exists, and the
\* bindings it answers are one: however often and wherever a name is repeated.
MatchIsAssignment ==
    /\ pc = "matched" => Fits(bindings, template, sent)
    /\ pc = "matched" => \A n \in Names :
           bindings[n] # Nil <=> \E i \in DOMAIN template : template[i].name = n
    /\ pc = "unmatched" => ~Accepts(template, sent)

\* The SQL filter loses no match: a row that the SELECT leaves out is one that the
\* template does not accept (what a scan by candidates relies on).
FilterLosesNothing == pc = "missed" => ~Accepts(template, sent)

\* What is read back is what was stored: the encoding in fields_json, the columns
\* of tuple_fields and the values that Out normalised agree.
StoredReadsBack ==
    /\ pc # "unreadable"
    /\ pc \in {"matching", "matched", "unmatched"} => tuple = sent
===============================================================================
