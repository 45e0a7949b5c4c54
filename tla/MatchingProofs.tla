---------------------------- MODULE MatchingProofs ----------------------------
(***************************************************************************)
(* Proofs about Matching for tuples and templates of any length, over any  *)
(* strings, names and range of integers.                                   *)
(***************************************************************************)
EXTENDS Matching, SequenceTheorems, TLAPS

\* What the loop of Match has established before iteration pos.
LoopInv ==
    /\ Len(template) = Len(sent)
    /\ pos <= Len(template) + 1
    /\ \A i \in DOMAIN template : i < pos =>
           /\ template[i].type = sent[i].type
           /\ template[i].kind = "actual" => template[i].value = sent[i].value
           /\ template[i].kind = "formal" => bindings[template[i].name] = sent[i].value
    /\ \A n \in Names :
           bindings[n] # Nil <=> \E i \in DOMAIN template : i < pos /\ template[i].name = n

IInv ==
    /\ TypeOK
    /\ StoredReadsBack
    /\ pc \in {"out", "rejected", "stored"} => pos = 1 /\ bindings = Unbound
    /\ pc = "matching" => LoopInv
    /\ pc = "matched" => LoopInv /\ pos > Len(template)
    /\ pc = "unmatched" => ~Accepts(template, sent)
    /\ FilterLosesNothing

-------------------------------------------------------------------------------
(* Values *)

\* NormalizeValue returns a value of the type (normalize.go).
LEMMA NormalizedIsNormal ==
    ASSUME NEW type, NEW raw \in RawValues, Normalizable(type, raw)
    PROVE  Normal(type, NormalizeValue(type, raw))
<1>1. CASE type = "string"
  BY <1>1 DEF RawValues, StringValues, BoolValues, Nil, Normalizable, NormalizeValue, Normal
<1>2. CASE type = "int"
  BY <1>2 DEF RawValues, StringValues, BoolValues, IntValues, Normalizable, NormalizeValue, Normal
<1>3. CASE type = "bool"
  BY <1>3 DEF RawValues, StringValues, BoolValues, Normalizable, NormalizeValue, Normal
<1> QED  BY <1>1, <1>2, <1>3 DEF Normalizable

\* Storing a value in fields_json and decoding it gives it back.
LEMMA EncodingRoundTrips ==
    ASSUME NEW type, NEW value, Normal(type, value)
    PROVE  /\ Normalizable(type, Encoded(value))
           /\ NormalizeValue(type, Encoded(value)) = value
<1>1. CASE type = "int" /\ value \in IntValues
  BY <1>1 DEF Normalizable, NormalizeValue, Encoded, IntValues
<1>2. CASE type = "string" /\ value \in StringValues
  BY <1>2 DEF Normalizable, NormalizeValue, Encoded, StringValues
<1>3. CASE type = "bool" /\ value \in BoolValues
  BY <1>3 DEF Normalizable, NormalizeValue, Encoded, BoolValues
<1> QED  BY <1>1, <1>2, <1>3 DEF Normal

\* On normalised values EqualValue is equality, and false for a value of another
\* type.
LEMMA EqualValueIsEquality ==
    ASSUME NEW type, NEW left \in NormalValues, NEW right, Normal(type, right)
    PROVE  EqualValue(type, left, right) <=> left = right
<1>1. CASE type = "int" /\ right \in IntValues
  BY <1>1 DEF EqualValue, Normalizable, NormalizeValue, NormalValues, IntValues, StringValues, BoolValues
<1>2. CASE type = "string" /\ right \in StringValues
  BY <1>2 DEF EqualValue, Normalizable, NormalizeValue, NormalValues, IntValues, StringValues, BoolValues
<1>3. CASE type = "bool" /\ right \in BoolValues
  BY <1>3 DEF EqualValue, Normalizable, NormalizeValue, NormalValues, IntValues, StringValues, BoolValues
<1> QED  BY <1>1, <1>2, <1>3 DEF Normal

\* A normal value is not nil.
LEMMA NormalIsNotNil == ASSUME NEW value \in NormalValues PROVE value # Nil
BY DEF NormalValues, IntValues, StringValues, BoolValues, Nil

\* A value that is normal for a type is a normal value.
LEMMA NormalIsValue == ASSUME NEW type, NEW value, Normal(type, value) PROVE value \in NormalValues
BY DEF Normal, NormalValues

-------------------------------------------------------------------------------
(* Tuples and templates *)

\* Replacing the value of a tuple's field.
LEMMA FieldWithValue ==
    ASSUME NEW T, NEW V, NEW f \in [type : T, value : V], NEW x
    PROVE  [f EXCEPT !.value = x] = [type |-> f.type, value |-> x]
OBVIOUS

\* Replacing the value of a template's field.
LEMMA TemplateFieldWithValue ==
    ASSUME NEW K, NEW T, NEW N, NEW V, NEW x,
           NEW f \in [kind : K, type : T, name : N, value : V]
    PROVE  [f EXCEPT !.value = x] = [kind |-> f.kind, type |-> f.type, name |-> f.name, value |-> x]
OBVIOUS

\* What ValidateTuple returns is normalised.
LEMMA ValidTupleIsNormal ==
    ASSUME NEW t \in Seq(RawFields), ValidTuple(t)
    PROVE  NormalTuple(NormalizeTuple(t))
<1> DEFINE u == NormalizeTuple(t)
<1>1. Len(t) \in Nat /\ DOMAIN t = 1..Len(t) /\ DOMAIN u = 1..Len(t)
  BY DEF NormalizeTuple
<1>2. ASSUME NEW i \in 1..Len(t)
      PROVE  u[i] \in NormalFields /\ Normal(u[i].type, u[i].value)
  <2>1. t[i] \in RawFields /\ t[i].type \in SupportedTypes /\ Normalizable(t[i].type, t[i].value)
    BY <1>1, <1>2 DEF ValidTuple, IsSupportedValueType
  <2>2. u[i] = [type |-> t[i].type, value |-> NormalizeValue(t[i].type, t[i].value)]
    BY <1>1, <1>2, <2>1 DEF NormalizeTuple, RawFields
  <2>3. Normal(u[i].type, u[i].value)
    BY <2>1, <2>2, NormalizedIsNormal DEF RawFields
  <2> QED  BY <2>1, <2>2, <2>3, NormalIsValue DEF NormalFields
<1>3. u \in Seq(NormalFields)
  <2>1. u \in [1..Len(t) -> NormalFields]
    BY <1>1, <1>2 DEF NormalizeTuple
  <2> HIDE DEF u
  <2> QED  BY <1>1, <2>1, SeqDef
<1> QED  BY <1>1, <1>2, <1>3 DEF NormalTuple

\* What ValidateTemplate returns is normalised.
LEMMA ValidTemplateIsNormal ==
    ASSUME NEW t \in Seq(RawTemplateFields), ValidTemplate(t)
    PROVE  NormalTemplate(NormalizeTemplate(t))
<1> DEFINE u == NormalizeTemplate(t)
<1>1. Len(t) \in Nat /\ DOMAIN t = 1..Len(t) /\ DOMAIN u = 1..Len(t)
  BY DEF NormalizeTemplate
<1>2. ASSUME NEW i \in 1..Len(t)
      PROVE  /\ u[i] \in NormalTemplateFields
             /\ \/ u[i].kind = "actual" /\ u[i].name = NoName /\ Normal(u[i].type, u[i].value)
                \/ u[i].kind = "formal" /\ u[i].name \in Names
  <2> DEFINE f == t[i]
  <2>0. /\ f \in RawTemplateFields
        /\ u[i] = IF f.kind = "actual" THEN [f EXCEPT !.value = NormalizeValue(f.type, @)] ELSE f
    BY <1>1 DEF NormalizeTemplate
  <2>1. /\ f.type \in SupportedTypes /\ f.name \in Names \cup {NoName} /\ f.value \in RawValues
        /\ \/ f.kind = "actual" /\ f.name = NoName /\ Normalizable(f.type, f.value)
           \/ f.kind = "formal" /\ f.name # NoName /\ f.value = Nil
    BY <1>1, <2>0 DEF ValidTemplate, IsSupportedValueType, RawTemplateFields
  <2> HIDE DEF f, u
  <2>2. CASE f.kind = "actual"
    <3>1. u[i] = [kind |-> f.kind, type |-> f.type, name |-> f.name,
                  value |-> NormalizeValue(f.type, f.value)]
      BY <2>0, <2>2, TemplateFieldWithValue DEF RawTemplateFields
    <3>2. Normal(f.type, NormalizeValue(f.type, f.value))
      BY <2>1, <2>2, NormalizedIsNormal
    <3>3. NormalizeValue(f.type, f.value) \in NormalValues
      BY <3>2, NormalIsValue
    <3>4. u[i] \in NormalTemplateFields
      BY <2>1, <2>2, <3>1, <3>3 DEF NormalTemplateFields
    <3> QED  BY <2>1, <2>2, <3>1, <3>2, <3>4
  <2>3. CASE f.kind = "formal"
    BY <2>0, <2>1, <2>3 DEF RawTemplateFields, NormalTemplateFields
  <2> QED  BY <2>1, <2>2, <2>3
<1>3. u \in Seq(NormalTemplateFields)
  <2>1. u \in [1..Len(t) -> NormalTemplateFields]
    BY <1>1, <1>2 DEF NormalizeTemplate
  <2> HIDE DEF u
  <2> QED  BY <1>1, <2>1, SeqDef
<1> QED  BY <1>1, <1>2, <1>3 DEF NormalTemplate

\* decodeTuple gives back the tuple that InsertTuple stored.
LEMMA DecodingRoundTrips ==
    ASSUME NEW t, NormalTuple(t)
    PROVE  /\ \A i \in DOMAIN Row(t).payload :
                  Normalizable(Row(t).payload[i].type, Row(t).payload[i].value)
           /\ NormalizeTuple(Row(t).payload) = t
<1> DEFINE p == Row(t).payload
<1>1. t \in Seq(NormalFields) /\ p = [i \in DOMAIN t |-> [t[i] EXCEPT !.value = Encoded(@)]]
  BY DEF Row, NormalTuple
<1>2. ASSUME NEW i \in DOMAIN t
      PROVE  /\ Normalizable(p[i].type, p[i].value)
             /\ [p[i] EXCEPT !.value = NormalizeValue(p[i].type, @)] = t[i]
  <2>1. t[i] \in NormalFields /\ Normal(t[i].type, t[i].value)
    <3>1. Normal(t[i].type, t[i].value)
      BY <1>2 DEF NormalTuple
    <3>2. t[i] \in NormalFields
      BY <1>1, <1>2, LenProperties, ElementOfSeq
    <3> QED  BY <3>1, <3>2
  <2>2. p[i] = [type |-> t[i].type, value |-> Encoded(t[i].value)]
    BY <1>1, <1>2, <2>1, FieldWithValue DEF NormalFields
  <2>3. /\ Normalizable(t[i].type, Encoded(t[i].value))
        /\ NormalizeValue(t[i].type, Encoded(t[i].value)) = t[i].value
    BY <2>1, EncodingRoundTrips
  <2>4. [p[i] EXCEPT !.value = NormalizeValue(p[i].type, @)] =
           [type |-> t[i].type, value |-> NormalizeValue(t[i].type, Encoded(t[i].value))]
    BY <2>2
  <2>5. t[i] = [type |-> t[i].type, value |-> t[i].value]
    BY <2>1 DEF NormalFields
  <2> QED  BY <2>2, <2>3, <2>4, <2>5
<1>3. DOMAIN p = DOMAIN t
  BY <1>1
<1>4. NormalizeTuple(p) = [i \in DOMAIN t |-> t[i]]
  BY <1>2, <1>3 DEF NormalizeTuple
<1>5. [i \in DOMAIN t |-> t[i]] = t
  BY <1>1
<1> QED  BY <1>2, <1>3, <1>4, <1>5

-------------------------------------------------------------------------------
(* The algorithms *)

\* What an assignment that fits a template says of its fields.
LEMMA FilterIsNecessary ==
    ASSUME NEW t, NormalTemplate(t), NEW u, NormalTuple(u), Accepts(t, u)
    PROVE  IsCandidate(Row(u), t)
<1>1. PICK b : Fits(b, t, u)
  BY DEF Accepts
<1>2. Row(u).arity = Len(t)
  BY <1>1 DEF Fits, Row
<1>3. DOMAIN t = 1..Len(t) /\ DOMAIN u = 1..Len(u)
  BY LenProperties DEF NormalTemplate, NormalTuple
<1>4. ASSUME NEW i \in DOMAIN t, t[i].kind = "actual"
      PROVE  \E f \in Row(u).fields : f.pos = i - 1 /\ f.type = t[i].type /\ f.val = t[i].value
  <2> DEFINE f == [pos |-> i - 1, type |-> u[i].type, val |-> u[i].value]
  <2>1. i \in DOMAIN u /\ t[i].type = u[i].type /\ t[i].value = u[i].value
    BY <1>1, <1>3, <1>4 DEF Fits
  <2>2. f \in Row(u).fields
    BY <2>1 DEF Row
  <2> QED  BY <2>1, <2>2
<1> QED  BY <1>2, <1>4 DEF IsCandidate

\* Under the loop's invariant an assignment that fits agrees with the bindings, and
\* the field at pos agrees exactly if the assignment can be extended to it.
LEMMA AgreesIsNecessary ==
    ASSUME TypeOK, LoopInv, NormalTuple(sent), pos <= Len(template), Accepts(template, sent)
    PROVE  Agrees(template[pos], sent[pos])
<1>1. PICK b : Fits(b, template, sent)
  BY DEF Accepts
<1>2. /\ DOMAIN template = 1..Len(template) /\ DOMAIN sent = 1..Len(sent)
      /\ Len(template) \in Nat /\ pos \in Nat \ {0} /\ Len(template) = Len(sent)
  BY LenProperties DEF TypeOK, NormalTemplate, NormalTuple, LoopInv
<1>3. pos \in DOMAIN template /\ pos \in DOMAIN sent
  BY <1>2
<1> DEFINE f == template[pos]
           g == sent[pos]
<1>4. /\ f.type = g.type
      /\ f.kind = "actual" => f.value = g.value
      /\ f.kind = "formal" => b[f.name] = g.value
  BY <1>1, <1>3 DEF Fits
<1>5. Normal(g.type, g.value) /\ g.value \in NormalValues
  BY <1>3, NormalIsValue DEF NormalTuple
<1>6. CASE f.kind = "actual"
  BY <1>4, <1>5, <1>6, EqualValueIsEquality DEF Agrees
<1>7. CASE f.kind = "formal" /\ bindings[f.name] # Nil
  <2>1. f.name \in Names
    BY <1>3, <1>7 DEF TypeOK, NormalTemplate
  <2>2. PICK i \in DOMAIN template : i < pos /\ template[i].name = f.name
    BY <1>7, <2>1 DEF LoopInv
  <2>3. template[i].kind = "formal"
    BY <2>1, <2>2, NamesAssumption DEF TypeOK, NormalTemplate
  <2>4. bindings[f.name] = sent[i].value /\ b[f.name] = sent[i].value
    BY <1>1, <2>2, <2>3 DEF LoopInv, Fits
  <2>5. bindings[f.name] = g.value
    BY <1>4, <1>7, <2>4
  <2> QED  BY <1>4, <1>5, <1>7, <2>5, EqualValueIsEquality DEF Agrees
<1>8. CASE f.kind = "formal" /\ bindings[f.name] = Nil
  BY <1>4, <1>8 DEF Agrees
<1>9. f.kind \in {"actual", "formal"}
  BY <1>3 DEF TypeOK, NormalTemplate
<1> QED  BY <1>6, <1>7, <1>8, <1>9

\* An iteration of the loop keeps its invariant.
LEMMA IterationKeepsLoopInv ==
    ASSUME TypeOK, LoopInv, NormalTuple(sent), tuple = sent, MatchField
    PROVE  LoopInv' /\ bindings' \in [Names -> NormalValues \cup {Nil}]
<1> DEFINE f == template[pos]
           g == sent[pos]
<1>0. UNCHANGED <<template, sent>> /\ pos' = pos + 1
  BY DEF MatchField
<1>1. /\ DOMAIN template = 1..Len(template) /\ DOMAIN sent = 1..Len(sent)
      /\ Len(template) \in Nat /\ pos \in Nat \ {0} /\ Len(template) = Len(sent)
      /\ pos <= Len(template)
  BY LenProperties DEF TypeOK, NormalTemplate, NormalTuple, LoopInv, MatchField
<1>2. pos \in DOMAIN template /\ pos \in DOMAIN sent
  BY <1>1
<1>3. Normal(g.type, g.value) /\ g.value \in NormalValues /\ g.value # Nil
  BY <1>2, NormalIsValue, NormalIsNotNil DEF NormalTuple
<1>4. /\ f.type = g.type
      /\ \/ f.kind = "actual" /\ EqualValue(f.type, f.value, g.value)
         \/ f.kind = "formal" /\ (bindings[f.name] = Nil \/ EqualValue(f.type, bindings[f.name], g.value))
  BY DEF MatchField, Agrees
<1>5. bindings \in [Names -> NormalValues \cup {Nil}]
  BY DEF TypeOK
<1>6. \A i \in DOMAIN template : i < pos =>
          /\ template[i].type = sent[i].type
          /\ template[i].kind = "actual" => template[i].value = sent[i].value
          /\ template[i].kind = "formal" => bindings[template[i].name] = sent[i].value
  BY DEF LoopInv
<1>7. \A i \in DOMAIN template : i < pos' <=> i < pos \/ i = pos
  BY <1>0, <1>1
<1>8. CASE f.kind = "actual"
  <2>1. bindings' = bindings
    BY <1>8 DEF MatchField
  <2>2. f.value \in NormalValues /\ f.name = NoName
    BY <1>2, <1>8, NormalIsValue DEF TypeOK, NormalTemplate
  <2>3. f.value = g.value
    BY <1>3, <1>4, <1>8, <2>2, EqualValueIsEquality
  <2>4. \A i \in DOMAIN template : i < pos' =>
            /\ template[i].type = sent[i].type
            /\ template[i].kind = "actual" => template[i].value = sent[i].value
            /\ template[i].kind = "formal" => bindings[template[i].name] = sent[i].value
    BY <1>4, <1>6, <1>7, <1>8, <2>3
  <2>5. \A n \in Names :
            bindings[n] # Nil <=> \E i \in DOMAIN template : i < pos' /\ template[i].name = n
    BY <1>7, <2>2, NamesAssumption DEF LoopInv
  <2> QED  BY <1>0, <1>1, <1>5, <2>1, <2>4, <2>5 DEF LoopInv
<1>9. CASE f.kind = "formal"
  <2>1. f.name \in Names
    BY <1>2, <1>9 DEF TypeOK, NormalTemplate
  <2>2. bindings' = [bindings EXCEPT ![f.name] = g.value]
    <3>1. CASE bindings[f.name] = Nil
      BY <1>9, <3>1 DEF MatchField
    <3>2. CASE bindings[f.name] # Nil
      <4>1. bindings' = bindings
        BY <3>2 DEF MatchField
      <4>2. bindings[f.name] \in NormalValues
        BY <1>5, <2>1, <3>2
      <4>3. bindings[f.name] = g.value
        BY <1>3, <1>4, <1>9, <3>2, <4>2, EqualValueIsEquality
      <4> QED  BY <1>5, <2>1, <4>1, <4>3
    <3> QED  BY <3>1, <3>2
  <2>3. bindings' \in [Names -> NormalValues \cup {Nil}]
    BY <1>3, <1>5, <2>1, <2>2
  <2>4. \A n \in Names : bindings'[n] = IF n = f.name THEN g.value ELSE bindings[n]
    BY <1>5, <2>1, <2>2
  <2>5. bindings[f.name] # Nil => bindings[f.name] = g.value
    <3> SUFFICES ASSUME bindings[f.name] # Nil  PROVE bindings[f.name] = g.value
      OBVIOUS
    <3>1. bindings[f.name] \in NormalValues
      BY <1>5, <2>1
    <3> QED  BY <1>3, <1>4, <1>9, <3>1, EqualValueIsEquality
  <2>6. \A i \in DOMAIN template : i < pos' =>
            /\ template[i].type = sent[i].type
            /\ template[i].kind = "actual" => template[i].value = sent[i].value
            /\ template[i].kind = "formal" => bindings'[template[i].name] = sent[i].value
    <3> SUFFICES ASSUME NEW i \in DOMAIN template, i < pos'
                 PROVE  /\ template[i].type = sent[i].type
                        /\ template[i].kind = "actual" => template[i].value = sent[i].value
                        /\ template[i].kind = "formal" => bindings'[template[i].name] = sent[i].value
      OBVIOUS
    <3>1. CASE i = pos
      BY <1>4, <1>9, <2>1, <2>4, <3>1
    <3>2. CASE i < pos
      <4>1. template[i].kind = "formal" => template[i].name \in Names
        BY DEF TypeOK, NormalTemplate
      <4>2. template[i].kind = "formal" => bindings[template[i].name] # Nil
        BY <4>1, <3>2 DEF LoopInv
      <4> QED  BY <1>6, <2>4, <2>5, <3>2, <4>1, <4>2
    <3> QED  BY <1>7, <3>1, <3>2
  <2>7. \A n \in Names :
            bindings'[n] # Nil <=> \E i \in DOMAIN template : i < pos' /\ template[i].name = n
    <3> SUFFICES ASSUME NEW n \in Names
                 PROVE  bindings'[n] # Nil <=> \E i \in DOMAIN template : i < pos' /\ template[i].name = n
      OBVIOUS
    <3>1. CASE n = f.name
      BY <1>2, <1>3, <1>7, <2>4, <3>1
    <3>2. CASE n # f.name
      <4>1. bindings'[n] = bindings[n]
        BY <2>4, <3>2
      <4>2. bindings[n] # Nil <=> \E i \in DOMAIN template : i < pos /\ template[i].name = n
        BY DEF LoopInv
      <4> QED  BY <1>7, <3>2, <4>1, <4>2
    <3> QED  BY <3>1, <3>2
  <2> QED  BY <1>0, <1>1, <2>3, <2>6, <2>7 DEF LoopInv
<1> QED  BY <1>4, <1>8, <1>9

-------------------------------------------------------------------------------
(* The inductive invariant *)

\* It holds when a tuple has been received.
LEMMA InitIInv == Init => IInv
<1> SUFFICES ASSUME Init  PROVE IInv
  OBVIOUS
<1>1. NormalTemplate(template)
  BY EmptySeq DEF Init, NormalTemplate
<1>2. bindings \in [Names -> NormalValues \cup {Nil}]
  BY DEF Init, Unbound
<1>3. TypeOK
  BY <1>1, <1>2 DEF Init, TypeOK
<1> QED  BY <1>3 DEF Init, IInv, StoredReadsBack, FilterLosesNothing

\* Out stores a normalised tuple.
LEMMA OutKeeps == IInv /\ Out => IInv'
<1> SUFFICES ASSUME IInv, Out  PROVE IInv'
  OBVIOUS
<1>1. sent \in Seq(RawFields) /\ ValidTuple(sent)
  BY RequestsAssumption DEF IInv, TypeOK, Out
<1>2. NormalTuple(sent')
  BY <1>1, ValidTupleIsNormal DEF Out
<1>3. TypeOK'
  BY <1>2 DEF IInv, TypeOK, Out
<1> QED  BY <1>3 DEF IInv, Out, StoredReadsBack, FilterLosesNothing

\* A read that asks PostgreSQL: the row is left out only if it cannot match, and is
\* decoded into the tuple that was stored.
LEMMA ReadKeeps ==
    ASSUME IInv, NEW raw \in RawTemplates, Miss(raw) \/ Fetch(raw)
    PROVE  IInv'
<1>1. /\ pc = "stored" /\ ValidTemplate(raw) /\ template' = NormalizeTemplate(raw)
      /\ UNCHANGED <<sent, row, pos, bindings>>
  BY DEF Miss, Fetch
<1>2. raw \in Seq(RawTemplateFields)
  BY RequestsAssumption
<1>3. NormalTemplate(template')
  BY <1>1, <1>2, ValidTemplateIsNormal
<1>4. /\ NormalTuple(sent) /\ row = Row(sent) /\ pos = 1 /\ bindings = Unbound
      /\ bindings \in [Names -> NormalValues \cup {Nil}]
  BY <1>1 DEF IInv, TypeOK
<1>5. CASE Miss(raw)
  <2>1. pc' = "missed" /\ tuple' = tuple
    BY <1>5 DEF Miss
  <2>2. TypeOK'
    BY <1>1, <1>3, <1>4, <2>1 DEF TypeOK
  <2>3. ~Accepts(template', sent)
    BY <1>3, <1>4, <1>5, FilterIsNecessary DEF Miss
  <2>4. FilterLosesNothing' /\ StoredReadsBack'
    BY <1>1, <2>1, <2>3 DEF FilterLosesNothing, StoredReadsBack, Accepts, Fits
  <2> QED  BY <2>1, <2>2, <2>4 DEF IInv
<1>6. CASE Fetch(raw)
  <2>1. pc' = "matching" /\ tuple' = sent
    BY <1>4, <1>6, DecodingRoundTrips DEF Fetch
  <2>2. TypeOK'
    BY <1>1, <1>3, <1>4, <2>1 DEF TypeOK
  <2>3. Len(template') = Len(sent)
    BY <1>4, <1>6 DEF Fetch, IsCandidate, Row
  <2>4. Len(template') \in Nat /\ DOMAIN template' = 1..Len(template')
    BY <1>3, LenProperties DEF NormalTemplate
  <2>5. LoopInv'
    BY <1>1, <1>4, <2>3, <2>4 DEF LoopInv, Unbound
  <2>6. FilterLosesNothing' /\ StoredReadsBack'
    BY <1>1, <2>1 DEF FilterLosesNothing, StoredReadsBack
  <2> QED  BY <2>1, <2>2, <2>5, <2>6 DEF IInv
<1> QED  BY <1>5, <1>6

\* Match says no only when no assignment exists.
LEMMA FailureKeeps == IInv /\ MatchFails => IInv'
<1> SUFFICES ASSUME IInv, MatchFails  PROVE IInv'
  OBVIOUS
<1>1. /\ pc = "matching" /\ pc' = "unmatched" /\ TypeOK /\ LoopInv /\ tuple = sent
      /\ NormalTuple(sent) /\ UNCHANGED <<sent, row, template, tuple, pos, bindings>>
  BY DEF IInv, MatchFails, TypeOK, StoredReadsBack
<1>2. ~Accepts(template, sent)
  <2>1. pos <= Len(template) /\ ~Agrees(template[pos], sent[pos])
    BY <1>1 DEF MatchFails, LoopInv
  <2> QED  BY <1>1, <2>1, AgreesIsNecessary
<1>3. TypeOK'
  BY <1>1 DEF TypeOK
<1>4. (~Accepts(template, sent))'
  BY <1>1, <1>2 DEF Accepts, Fits
<1> QED  BY <1>1, <1>3, <1>4 DEF IInv, StoredReadsBack, FilterLosesNothing

\* Every step preserves the invariant.
LEMMA NextIInv == IInv /\ [Next]_vars => IInv'
<1> SUFFICES ASSUME IInv, [Next]_vars  PROVE IInv'
  OBVIOUS
<1>1. CASE Out
  BY <1>1, OutKeeps
<1>2. CASE RejectOut
  <2>1. TypeOK'
    BY <1>2 DEF IInv, TypeOK, RejectOut
  <2> QED  BY <1>2, <2>1 DEF IInv, RejectOut, StoredReadsBack, FilterLosesNothing
<1>3. ASSUME NEW raw \in RawTemplates, Miss(raw) \/ Fetch(raw)
      PROVE  IInv'
  BY <1>3, ReadKeeps
<1>4. ASSUME NEW raw \in RawTemplates, RejectRead(raw)
      PROVE  IInv'
  <2>1. TypeOK'
    BY <1>4 DEF IInv, TypeOK, RejectRead
  <2> QED  BY <1>4, <2>1 DEF IInv, RejectRead, StoredReadsBack, FilterLosesNothing
<1>5. CASE MatchField
  <2>1. /\ TypeOK /\ LoopInv /\ NormalTuple(sent) /\ tuple = sent /\ pc = "matching"
        /\ pos \in Nat \ {0} /\ pos' = pos + 1 /\ UNCHANGED <<pc, sent, row, template, tuple>>
    BY <1>5 DEF IInv, MatchField, TypeOK, StoredReadsBack
  <2>2. LoopInv' /\ bindings' \in [Names -> NormalValues \cup {Nil}]
    BY <1>5, <2>1, IterationKeepsLoopInv
  <2>3. TypeOK'
    BY <2>1, <2>2 DEF TypeOK
  <2> QED  BY <2>1, <2>2, <2>3 DEF IInv, StoredReadsBack, FilterLosesNothing
<1>6. CASE MatchFails
  BY <1>6, FailureKeeps
<1>7. CASE MatchSucceeds
  <2>1. /\ pc = "matching" /\ pc' = "matched" /\ pos > Len(template) /\ LoopInv
        /\ UNCHANGED <<sent, row, template, tuple, pos, bindings>>
    BY <1>7 DEF IInv, MatchSucceeds
  <2>2. TypeOK' /\ LoopInv'
    BY <2>1 DEF IInv, TypeOK, LoopInv
  <2> QED  BY <2>1, <2>2 DEF IInv, StoredReadsBack, FilterLosesNothing
<1>8. CASE UNCHANGED vars
  <2>1. TypeOK' /\ StoredReadsBack'
    BY <1>8 DEF IInv, vars, TypeOK, StoredReadsBack
  <2>2. LoopInv' <=> LoopInv
    BY <1>8 DEF vars, LoopInv
  <2>3. Accepts(template, sent)' <=> Accepts(template, sent)
    BY <1>8 DEF vars, Accepts, Fits
  <2> QED  BY <1>8, <2>1, <2>2, <2>3 DEF IInv, vars, FilterLosesNothing
<1> QED  BY <1>1, <1>2, <1>3, <1>4, <1>5, <1>6, <1>7, <1>8 DEF Next

\* The invariant holds in every behaviour.
LEMMA Invariance == Spec => []IInv
<1>1. Init => IInv
  BY InitIInv
<1>2. IInv /\ [Next]_vars => IInv'
  BY NextIInv
<1> QED  BY <1>1, <1>2, PTL DEF Spec

-------------------------------------------------------------------------------
(* Theorems *)

\* Every variable has its type: InsertTuple gets only values that its type
\* assertions and the columns take.
THEOREM TypeCorrect == Spec => []TypeOK
<1>1. IInv => TypeOK
  BY DEF IInv
<1> QED  BY <1>1, Invariance, PTL

\* Match decides whether an assignment of values to the template's names exists, and
\* answers it (internal/match).
THEOREM MatchDecides == Spec => []MatchIsAssignment
<1>1. IInv => MatchIsAssignment
  <2> SUFFICES ASSUME IInv  PROVE MatchIsAssignment
    OBVIOUS
  <2>1. CASE pc = "matched"
    <3>1. LoopInv /\ pos > Len(template) /\ NormalTemplate(template) /\ pos \in Nat
      BY <2>1 DEF IInv, TypeOK
    <3>2. Len(template) \in Nat /\ DOMAIN template = 1..Len(template)
      BY <3>1, LenProperties DEF NormalTemplate
    <3>3. \A i \in DOMAIN template : i < pos
      BY <3>1, <3>2
    <3>4. Fits(bindings, template, sent)
      BY <3>1, <3>3 DEF LoopInv, Fits
    <3> QED  BY <2>1, <3>1, <3>3, <3>4 DEF MatchIsAssignment, LoopInv
  <2>2. CASE pc # "matched"
    BY <2>2 DEF IInv, MatchIsAssignment
  <2> QED  BY <2>1, <2>2
<1> QED  BY <1>1, Invariance, PTL

\* The SELECT returns every row that the template accepts, for tuples and templates
\* of any length (BuildCandidateQuery).
THEOREM FilterIsComplete == Spec => []FilterLosesNothing
<1>1. IInv => FilterLosesNothing
  BY DEF IInv
<1> QED  BY <1>1, Invariance, PTL

\* What decodeTuple reads is the tuple that InsertTuple stored, for any tuple.
THEOREM DecodingIsFaithful == Spec => []StoredReadsBack
<1>1. IInv => StoredReadsBack
  BY DEF IInv
<1> QED  BY <1>1, Invariance, PTL
===============================================================================
