-------------------------- MODULE CompactSpecProofs --------------------------
(***************************************************************************)
(* The parser of the compact syntax reads what TupleDSL writes: for texts  *)
(* of any length.                                                          *)
(***************************************************************************)
EXTENDS TupleDSL, NaturalsInduction, WellFoundedInduction, SequenceTheorems, TLAPS

Text == Seq(Runes)

-------------------------------------------------------------------------------
(* Induction over the naturals, of a set. *)

Less == {p \in Nat \X Nat : p[1] < p[2]}

LEMMA LessIsWellFounded == IsWellFoundedOn(Less, Nat)
  BY NatLessThanWellFounded DEF OpToRel, Less

LEMMA Induction ==
    ASSUME NEW S, 0 \in S, \A n \in Nat : n \in S => n + 1 \in S
    PROVE  Nat \subseteq S
<1> SUFFICES ASSUME Nat \ S # {}  PROVE FALSE
  OBVIOUS
<1> HIDE DEF Less
<1>1. PICK m \in Nat \ S : \A n \in Nat \ S : <<n, m>> \notin Less
  <2>1. Nat \ S \subseteq Nat
    OBVIOUS
  <2> QED  BY <2>1, LessIsWellFounded, WFMin
<1>2. m # 0 /\ m - 1 \in Nat /\ m - 1 < m /\ (m - 1) + 1 = m
  OBVIOUS
<1>3. <<m - 1, m>> \in Less
  BY <1>2 DEF Less
<1>4. m - 1 \in S
  BY <1>1, <1>2, <1>3
<1> QED  BY <1>2, <1>4

\* What a recursive function needs to be one: there are values that go on from each other.
Chained(S, N, start, step) ==
    \E e \in [0..N -> S] : e[0] = start /\ \A n \in 1..N : e[n] = step[<<e[n - 1], n>>]

LEMMA Recursion ==
    ASSUME NEW S, NEW N \in Nat, NEW start \in S, NEW step \in [S \X (1..N) -> S]
    PROVE  Chained(S, N, start, step)
<1> DEFINE Good(e, n) == e[0] = start /\ \A i \in 1..n : e[i] = step[<<e[i - 1], i>>]
           G == {n \in Nat : n \leq N => \E e \in [0..n -> S] : Good(e, n)}
<1>1. 0 \in G
  <2>1. [n \in 0..0 |-> start] \in [0..0 -> S] /\ Good([n \in 0..0 |-> start], 0)
    OBVIOUS
  <2> QED  BY <2>1
<1>2. ASSUME NEW n \in Nat, n \in G  PROVE n + 1 \in G
  <2> SUFFICES ASSUME n + 1 \leq N  PROVE \E e \in [0..(n + 1) -> S] : Good(e, n + 1)
    OBVIOUS
  <2>1. PICK e \in [0..n -> S] : Good(e, n)
    BY <1>2
  <2> DEFINE f == [i \in 0..(n + 1) |-> IF i = n + 1 THEN step[<<e[n], n + 1>>] ELSE e[i]]
  <2>2. f \in [0..(n + 1) -> S]
    OBVIOUS
  <2>3. ASSUME NEW i \in 1..(n + 1)  PROVE f[i] = step[<<f[i - 1], i>>]
    <3>1. CASE i = n + 1
      <4>1. n \in 0..(n + 1) /\ n + 1 \in 0..(n + 1) /\ n # n + 1 /\ (n + 1) - 1 = n
        OBVIOUS
      <4>2. f[n + 1] = step[<<e[n], n + 1>>] /\ f[n] = e[n]
        BY <4>1
      <4> HIDE DEF f
      <4> QED  BY <3>1, <4>1, <4>2
    <3>2. CASE i # n + 1
      <4>1. i \in 1..n /\ i \in 0..(n + 1) /\ i - 1 \in 0..n /\ i - 1 # n + 1
        BY <3>2
      <4>2. f[i] = e[i] /\ f[i - 1] = e[i - 1]
        BY <3>2, <4>1
      <4>3. e[i] = step[<<e[i - 1], i>>]
        BY <2>1, <4>1
      <4> QED  BY <4>2, <4>3
    <3> QED  BY <3>1, <3>2
  <2>4. f[0] = start
    BY <2>1
  <2> HIDE DEF f
  <2> QED  BY <2>2, <2>3, <2>4
<1>3. Nat \subseteq G
  <2> HIDE DEF G
  <2> QED  BY <1>1, <1>2, Induction
<1>4. N \in G
  BY <1>3
<1> QED  BY <1>4 DEF Chained

-------------------------------------------------------------------------------
(* Texts *)

LEMMA Distinct ==
    /\ Syntax \subseteq Runes
    /\ Quote \notin {Backslash, Comma, Space, Colon, Open, Close, Question}
    /\ Backslash \notin {Comma, Space, Colon, Open, Close, Question}
    /\ Comma \notin {Space, Colon, Open, Close, Question}
    /\ Space \notin {Colon, Open, Close, Question}
    /\ Colon \notin {Open, Close, Question} /\ Open \notin {Close, Question} /\ Close # Question
<1>1. Quote \notin {Backslash, Comma, Space, Colon, Open, Close, Question}
  BY Zenon DEF Quote, Backslash, Comma, Space, Colon, Open, Close, Question
<1>2. Backslash \notin {Comma, Space, Colon, Open, Close, Question}
  BY Zenon DEF Backslash, Comma, Space, Colon, Open, Close, Question
<1>3. Comma \notin {Space, Colon, Open, Close, Question} /\ Space \notin {Colon, Open, Close, Question}
  BY Zenon DEF Comma, Space, Colon, Open, Close, Question
<1>4. Colon \notin {Open, Close, Question} /\ Open \notin {Close, Question} /\ Close # Question
  BY Zenon DEF Colon, Open, Close, Question
<1> QED  BY <1>1, <1>2, <1>3, <1>4, RunesAssumption

LEMMA Joins ==
    /\ \A a, b \in Text : a \o b \in Text /\ Len(a \o b) = Len(a) + Len(b)
    /\ \A a, b, c \in Text : (a \o b) \o c = a \o (b \o c)
    /\ \A a \in Text : a \o <<>> = a /\ <<>> \o a = a
    /\ <<>> \in Text /\ Len(<<>>) = 0
    /\ \A a \in Text : Len(a) \in Nat /\ DOMAIN a = 1..Len(a) /\ \A i \in 1..Len(a) : a[i] \in Runes
    /\ \A r \in Runes : <<r>> \in Text
    /\ \A a \in Text, r \in Runes : Append(a, r) = a \o <<r>>
<1>1. \A a, b \in Text : a \o b \in Text /\ Len(a \o b) = Len(a) + Len(b)
  BY DEF Text
<1>2. \A a, b, c \in Text : (a \o b) \o c = a \o (b \o c)
  BY DEF Text
<1>3. \A a \in Text : a \o <<>> = a /\ <<>> \o a = a
  BY DEF Text
<1>4. <<>> \in Text /\ Len(<<>>) = 0
  BY DEF Text
<1>5. \A a \in Text : Len(a) \in Nat /\ DOMAIN a = 1..Len(a) /\ \A i \in 1..Len(a) : a[i] \in Runes
  BY DEF Text
<1>6. \A r \in Runes : <<r>> \in Text
  BY DEF Text
<1>7. \A a \in Text, r \in Runes : Append(a, r) = a \o <<r>>
  BY AppendIsConcat DEF Text
<1> QED  BY <1>1, <1>2, <1>3, <1>4, <1>5, <1>6, <1>7

LEMMA RuneAt ==
    ASSUME NEW a \in Text, NEW b \in Text
    PROVE  \A i \in 1..(Len(a) + Len(b)) : (a \o b)[i] = IF i \leq Len(a) THEN a[i] ELSE b[i - Len(a)]
  BY DEF Text

-------------------------------------------------------------------------------
(* Reading, rune by rune: splitSpecFields and strconv.Unquote *)

NextRune(reader, st, r) == IF reader = "split" THEN ReadRune(st, r) ELSE UnquoteRune(st, r)

\* The states of a reader over a text, from a first one.
Run(reader, g, st, text) ==
    g = [n \in 0..Len(text) |-> IF n = 0 THEN st ELSE NextRune(reader, g[n - 1], text[n])]

Reads(reader, st, text, end) == \E g : Run(reader, g, st, text) /\ g[Len(text)] = end

LEMMA RunSteps ==
    ASSUME NEW reader, NEW text \in Text, NEW st, NEW g, Run(reader, g, st, text)
    PROVE  g[0] = st /\ \A n \in 1..Len(text) : g[n] = NextRune(reader, g[n - 1], text[n])
<1> HIDE DEF NextRune
<1> QED  BY DEF Run, Text

LEMMA OneRun ==
    ASSUME NEW reader, NEW text \in Text, NEW st, NEW g, NEW h,
           Run(reader, g, st, text), Run(reader, h, st, text)
    PROVE  g[Len(text)] = h[Len(text)]
<1> DEFINE S == {n \in Nat : n \leq Len(text) => g[n] = h[n]}
<1>0. /\ g[0] = st /\ \A n \in 1..Len(text) : g[n] = NextRune(reader, g[n - 1], text[n])
      /\ h[0] = st /\ \A n \in 1..Len(text) : h[n] = NextRune(reader, h[n - 1], text[n])
  BY RunSteps
<1>1. 0 \in S
  BY <1>0
<1>2. ASSUME NEW n \in Nat, n \in S  PROVE n + 1 \in S
  BY <1>0, <1>2 DEF Text
<1>3. Nat \subseteq S
  <2> HIDE DEF S
  <2> QED  BY <1>1, <1>2, Induction
<1> QED  BY <1>3 DEF Text

LEMMA ReadRunesReads ==
    ASSUME NEW text \in Text, NEW st, NEW end, Reads("split", st, text, end)
    PROVE  ReadRunes(st, text) = end
<1> DEFINE after == CHOOSE f : f = [n \in 0..Len(text) |-> IF n = 0 THEN st ELSE ReadRune(f[n - 1], text[n])]
<1>1. PICK g : Run("split", g, st, text) /\ g[Len(text)] = end
  BY DEF Reads
<1>2. Run("split", after, st, text)
  BY <1>1 DEF Run, NextRune
<1>3. after[Len(text)] = end
  <2> HIDE DEF after
  <2> QED  BY <1>1, <1>2, OneRun
<1>4. ReadRunes(st, text) = after[Len(text)]
  BY DEF ReadRunes
<1> QED  BY <1>3, <1>4

LEMMA UnquoteReads ==
    ASSUME NEW text \in Text, NEW end,
           Reads("unquote", [value |-> <<>>, escaped |-> FALSE, ok |-> TRUE], text, end)
    PROVE  Unquote(text) = [value |-> end.value, ok |-> end.ok /\ ~end.escaped]
<1> DEFINE st == [value |-> <<>>, escaped |-> FALSE, ok |-> TRUE]
           after == CHOOSE f : f = [n \in 0..Len(text) |-> IF n = 0 THEN st ELSE UnquoteRune(f[n - 1], text[n])]
<1>1. PICK g : Run("unquote", g, st, text) /\ g[Len(text)] = end
  BY DEF Reads
<1>2. Run("unquote", after, st, text)
  BY <1>1 DEF Run, NextRune
<1>3. after[Len(text)] = end
  <2> HIDE DEF after, st
  <2> QED  BY <1>1, <1>2, OneRun
<1>4. Unquote(text) = [value |-> after[Len(text)].value,
                       ok    |-> after[Len(text)].ok /\ ~after[Len(text)].escaped]
  BY DEF Unquote
<1> QED  BY <1>3, <1>4

LEMMA ReadsNothing == ASSUME NEW reader, NEW st PROVE Reads(reader, st, <<>>, st)
<1> DEFINE g == [n \in 0..0 |-> st]
<1>1. Run(reader, g, st, <<>>) /\ g[Len(<<>>)] = st
  BY DEF Run
<1> QED  BY <1>1 DEF Reads

LEMMA ReadsOne ==
    ASSUME NEW reader, NEW st, NEW r PROVE Reads(reader, st, <<r>>, NextRune(reader, st, r))
<1> DEFINE g == [n \in 0..1 |-> IF n = 0 THEN st ELSE NextRune(reader, st, r)]
<1> HIDE DEF NextRune
<1>1. Run(reader, g, st, <<r>>) /\ g[Len(<<r>>)] = NextRune(reader, st, r)
  BY DEF Run
<1> QED  BY <1>1 DEF Reads

LEMMA ReadsOn ==
    ASSUME NEW reader, NEW st, NEW mid, NEW end, NEW a \in Text, NEW b \in Text,
           Reads(reader, st, a, mid), Reads(reader, mid, b, end)
    PROVE  Reads(reader, st, a \o b, end)
<1>1. PICK g : Run(reader, g, st, a) /\ g[Len(a)] = mid
  BY DEF Reads
<1>2. PICK h : Run(reader, h, mid, b) /\ h[Len(b)] = end
  BY DEF Reads
<1>3. /\ g[0] = st /\ \A n \in 1..Len(a) : g[n] = NextRune(reader, g[n - 1], a[n])
      /\ h[0] = mid /\ \A n \in 1..Len(b) : h[n] = NextRune(reader, h[n - 1], b[n])
  BY <1>1, <1>2, RunSteps
<1> DEFINE k == [n \in 0..Len(a \o b) |-> IF n \leq Len(a) THEN g[n] ELSE h[n - Len(a)]]
<1>4. /\ Len(a) \in Nat /\ Len(b) \in Nat /\ Len(a \o b) = Len(a) + Len(b)
      /\ \A n \in 1..Len(a) : (a \o b)[n] = a[n]
      /\ \A n \in (Len(a) + 1)..(Len(a) + Len(b)) : (a \o b)[n] = b[n - Len(a)]
  BY DEF Text
<1>5. ASSUME NEW n \in 1..Len(a \o b)  PROVE k[n] = NextRune(reader, k[n - 1], (a \o b)[n])
  <2>1. CASE n \leq Len(a)
    BY <1>3, <1>4, <2>1
  <2>2. CASE n = Len(a) + 1
    <3>1. n \in 0..Len(a \o b) /\ n - 1 \in 0..Len(a \o b) /\ ~(n \leq Len(a)) /\ n - 1 = Len(a)
          /\ n - Len(a) = 1
      BY <1>4, <2>2
    <3>2. k[n] = h[1] /\ k[n - 1] = g[Len(a)]
      BY <3>1
    <3>3. (a \o b)[n] = b[1] /\ 1 \in 1..Len(b)
      BY <1>4, <2>2, <3>1
    <3>4. h[1] = NextRune(reader, h[0], b[1])
      BY <1>3, <3>3
    <3> QED  BY <1>1, <1>3, <3>2, <3>3, <3>4
  <2>3. CASE n > Len(a) + 1
    <3>1. /\ k[n] = h[n - Len(a)] /\ k[n - 1] = h[n - Len(a) - 1] /\ (a \o b)[n] = b[n - Len(a)]
          /\ n - Len(a) \in 1..Len(b)
      BY <1>4, <2>3
    <3> QED  BY <1>3, <3>1
  <2> QED  BY <1>4, <2>1, <2>2, <2>3
<1>6. k[0] = st /\ k[Len(a \o b)] = end
  BY <1>1, <1>2, <1>3, <1>4
<1>7. Run(reader, k, st, a \o b)
  <2>1. \A n \in 0..Len(a \o b) : k[n] = IF n = 0 THEN st ELSE NextRune(reader, k[n - 1], (a \o b)[n])
    <3> HIDE DEF k
    <3> QED  BY <1>4, <1>5, <1>6
  <2> QED  BY <2>1 DEF Run
<1> QED  BY <1>6, <1>7 DEF Reads

-------------------------------------------------------------------------------
(* Text without quotes and commas *)

\* The loop of splitSpecFields, outside and inside of quotes.
Outside(parts, current) == [parts |-> parts, current |-> current, inQuotes |-> FALSE, escaped |-> FALSE]
Inside(parts, current) == [parts |-> parts, current |-> current, inQuotes |-> TRUE, escaped |-> FALSE]

LEMMA OutsideRune ==
    ASSUME NEW p, NEW c
    PROVE  /\ \A r : r # Quote /\ r # Comma =>
                  NextRune("split", Outside(p, c), r) = Outside(p, Append(c, r))
           /\ NextRune("split", Outside(p, c), Comma) = Outside(Append(p, TrimSpace(c)), <<>>)
           /\ NextRune("split", Outside(p, c), Quote) = Inside(p, Append(c, Quote))
<1> HIDE DEF Quote, Comma, Backslash
<1>1. Quote # Comma
  BY Distinct
<1>2. ASSUME NEW r, r # Quote, r # Comma
      PROVE  NextRune("split", Outside(p, c), r) = Outside(p, Append(c, r))
  BY <1>2, Zenon DEF NextRune, ReadRune, Outside
<1>3. NextRune("split", Outside(p, c), Comma) = Outside(Append(p, TrimSpace(c)), <<>>)
  BY <1>1, Zenon DEF NextRune, ReadRune, Outside
<1>4. NextRune("split", Outside(p, c), Quote) = Inside(p, Append(c, Quote))
  BY <1>1, Zenon DEF NextRune, ReadRune, Outside, Inside
<1> QED  BY <1>2, <1>3, <1>4

LEMMA InsideRune ==
    ASSUME NEW p, NEW c
    PROVE  /\ \A r : r # Quote /\ r # Backslash =>
                  NextRune("split", Inside(p, c), r) = Inside(p, Append(c, r))
           /\ NextRune("split", Inside(p, c), Quote) = Outside(p, Append(c, Quote))
           /\ \A r : NextRune("split", NextRune("split", Inside(p, c), Backslash), r)
                         = Inside(p, Append(Append(c, Backslash), r))
  BY DEF NextRune, ReadRune, Outside, Inside, Quote, Comma, Backslash

LEMMA SplitPlain ==
    ASSUME NEW p, NEW c \in Text, NEW text \in Text, Plain(text)
    PROVE  Reads("split", Outside(p, c), text, Outside(p, c \o text))
<1> DEFINE Before(n) == SubSeq(text, 1, n)
           g == [n \in 0..Len(text) |-> Outside(p, c \o Before(n))]
<1>1. Len(text) \in Nat /\ DOMAIN text = 1..Len(text)
  BY Joins
<1>2. Before(0) = <<>> /\ Before(Len(text)) = text
  BY SubSeqFull, SubSeqEmpty DEF Text
<1>3. ASSUME NEW n \in 1..Len(text)
      PROVE  Append(c \o Before(n - 1), text[n]) = c \o Before(n)
  BY DEF Text
<1> HIDE DEF Before
<1>4. ASSUME NEW n \in 1..Len(text)  PROVE g[n] = NextRune("split", g[n - 1], text[n])
  <2>1. text[n] # Quote /\ text[n] # Comma
    BY <1>1 DEF Plain
  <2>2. NextRune("split", Outside(p, c \o Before(n - 1)), text[n])
            = Outside(p, Append(c \o Before(n - 1), text[n]))
    BY <2>1, OutsideRune
  <2>3. n \in 0..Len(text) /\ n - 1 \in 0..Len(text)
    BY <1>1
  <2>4. g[n] = Outside(p, c \o Before(n)) /\ g[n - 1] = Outside(p, c \o Before(n - 1))
    BY <2>3
  <2> QED  BY <1>3, <2>2, <2>4
<1>5. g[0] = Outside(p, c) /\ g[Len(text)] = Outside(p, c \o text)
  <2>1. 0 \in 0..Len(text) /\ Len(text) \in 0..Len(text) /\ c \o <<>> = c
    BY <1>1, Joins
  <2> QED  BY <1>2, <2>1
<1>6. Run("split", g, Outside(p, c), text)
  <2>1. \A n \in 0..Len(text) :
            g[n] = IF n = 0 THEN Outside(p, c) ELSE NextRune("split", g[n - 1], text[n])
    <3> HIDE DEF g
    <3> QED  BY <1>1, <1>4, <1>5
  <2> QED  BY <2>1 DEF Run
<1> QED  BY <1>5, <1>6 DEF Reads

-------------------------------------------------------------------------------
(* Texts put together *)

Grown(texts, text, n) == text \o texts[n]

\* What FlattenSeq puts together, text by text.
Flattens(texts, e) ==
    /\ e \in [0..Len(texts) -> Text]
    /\ e[0] = <<>>
    /\ \A n \in 1..Len(texts) : e[n] = Grown(texts, e[n - 1], n)
    /\ FlattenSeq(texts) = e[Len(texts)]

LEMMA FlattenBuilds == ASSUME NEW texts \in Seq(Text) PROVE \E e : Flattens(texts, e)
<1> DEFINE step == [p \in Text \X (1..Len(texts)) |-> Grown(texts, p[1], p[2])]
           flatten == CHOOSE f : f = [i \in 1..Len(texts) |->
                                          IF i = 1 THEN texts[i] ELSE f[i - 1] \o texts[i]]
<1>1. Len(texts) \in Nat /\ <<>> \in Text /\ \A n \in 1..Len(texts) : texts[n] \in Text
  BY Joins
<1>2. \A t \in Text, n \in 1..Len(texts) : Grown(texts, t, n) \in Text
  BY <1>1, Joins DEF Grown
<1>3. step \in [Text \X (1..Len(texts)) -> Text]
  BY <1>2
<1>4. PICK e \in [0..Len(texts) -> Text] :
          e[0] = <<>> /\ \A n \in 1..Len(texts) : e[n] = step[<<e[n - 1], n>>]
  <2> HIDE DEF step
  <2>1. Chained(Text, Len(texts), <<>>, step)
    BY <1>1, <1>3, Recursion
  <2> QED  BY <2>1 DEF Chained
<1>5. \A n \in 1..Len(texts) : e[n] = Grown(texts, e[n - 1], n)
  <2> SUFFICES ASSUME NEW n \in 1..Len(texts)  PROVE e[n] = Grown(texts, e[n - 1], n)
    OBVIOUS
  <2>1. <<e[n - 1], n>> \in Text \X (1..Len(texts))
    BY <1>1
  <2>2. step[<<e[n - 1], n>>] = Grown(texts, e[n - 1], n)
    BY <2>1
  <2> QED  BY <1>4, <2>2
<1>6. ASSUME Len(texts) > 0  PROVE e[1] = texts[1]
  <2>1. 1 \in 1..Len(texts) /\ 1 - 1 = 0
    BY <1>1, <1>6
  <2>2. e[1] = <<>> \o texts[1] /\ texts[1] \in Text
    BY <1>1, <1>4, <1>5, <2>1 DEF Grown
  <2> QED  BY <2>2, Joins
<1>7. \E f : f = [i \in 1..Len(texts) |-> IF i = 1 THEN texts[i] ELSE f[i - 1] \o texts[i]]
  <2> DEFINE g == [i \in 1..Len(texts) |-> e[i]]
  <2>1. ASSUME NEW i \in 1..Len(texts), i # 1  PROVE g[i] = Grown(texts, g[i - 1], i)
    <3>1. i - 1 \in 1..Len(texts)
      BY <1>1, <2>1
    <3> QED  BY <1>5, <3>1
  <2>2. \A i \in 1..Len(texts) : g[i] = IF i = 1 THEN texts[i] ELSE Grown(texts, g[i - 1], i)
    BY <1>1, <1>6, <2>1
  <2>3. g = [i \in 1..Len(texts) |-> IF i = 1 THEN texts[i] ELSE Grown(texts, g[i - 1], i)]
    BY <2>2
  <2> HIDE DEF g
  <2> QED  BY <2>3 DEF Grown
<1>8. flatten = [i \in 1..Len(texts) |-> IF i = 1 THEN texts[i] ELSE flatten[i - 1] \o texts[i]]
  BY <1>7, Zenon
<1>9. \A i \in 1..Len(texts) : flatten[i] = IF i = 1 THEN texts[i] ELSE Grown(texts, flatten[i - 1], i)
  <2> HIDE DEF flatten
  <2> QED  BY <1>8 DEF Grown
<1>10. \A n \in 1..Len(texts) : flatten[n] = e[n]
  <2> DEFINE S == {n \in Nat : n + 1 \leq Len(texts) => flatten[n + 1] = e[n + 1]}
  <2> HIDE DEF flatten
  <2>1. 0 \in S
    BY <1>1, <1>6, <1>9
  <2>2. ASSUME NEW n \in Nat, n \in S  PROVE n + 1 \in S
    <3> SUFFICES ASSUME n + 2 \leq Len(texts)  PROVE flatten[n + 2] = e[n + 2]
      OBVIOUS
    <3>1. n + 2 \in 1..Len(texts) /\ n + 2 # 1 /\ (n + 2) - 1 = n + 1 /\ n + 1 \leq Len(texts)
      BY <1>1
    <3> QED  BY <1>5, <1>9, <2>2, <3>1
  <2>3. Nat \subseteq S
    <3> HIDE DEF S
    <3> QED  BY <2>1, <2>2, Induction
  <2>4. ASSUME NEW n \in 1..Len(texts)  PROVE flatten[n] = e[n]
    <3>1. n - 1 \in S /\ (n - 1) + 1 = n
      <4> HIDE DEF S
      <4> QED  BY <2>3
    <3> QED  BY <1>1, <3>1
  <2> QED  BY <2>4
<1>11. FlattenSeq(texts) = e[Len(texts)]
  <2>1. CASE Len(texts) = 0
    <3>1. texts = <<>>
      BY <2>1
    <3> QED  BY <1>4, <2>1, <3>1 DEF FlattenSeq
  <2>2. CASE Len(texts) # 0
    <3>1. FlattenSeq(texts) = flatten[Len(texts)]
      BY <2>2 DEF FlattenSeq
    <3> HIDE DEF flatten
    <3> QED  BY <1>1, <1>10, <2>2, <3>1
  <2> QED  BY <2>1, <2>2
<1> QED  BY <1>4, <1>5, <1>11 DEF Flattens

-------------------------------------------------------------------------------
(* Strings *)

LEMMA TwoRunes == \A r \in Runes : <<Backslash, r>> = <<Backslash>> \o <<r>>
  OBVIOUS

LEMMA EscapedRuneIsText == \A r \in Runes : EscapedRune(r) \in Text
<1>1. <<Backslash>> \in Text /\ \A r \in Runes : <<r>> \in Text
  <2>1. Backslash \in Runes
    BY Distinct DEF Syntax
  <2> QED  BY <2>1, Joins
<1> QED  BY <1>1, TwoRunes, Joins DEF EscapedRune

LEMMA EscapedBuilds ==
    ASSUME NEW value \in Text
    PROVE  \E e \in [0..Len(value) -> Text] :
               /\ e[0] = <<>>
               /\ \A n \in 1..Len(value) : e[n] = e[n - 1] \o EscapedRune(value[n])
               /\ Escaped(value) = e[Len(value)]
<1> DEFINE texts == [i \in DOMAIN value |-> EscapedRune(value[i])]
<1>1. Len(value) \in Nat /\ DOMAIN value = 1..Len(value) /\ \A n \in 1..Len(value) : value[n] \in Runes
  BY Joins
<1>2. \A n \in 1..Len(value) : texts[n] = EscapedRune(value[n]) /\ texts[n] \in Text
  BY <1>1, EscapedRuneIsText
<1>3. texts \in [1..Len(value) -> Text]
  BY <1>1, <1>2
<1>4. Escaped(value) = FlattenSeq(texts)
  BY DEF Escaped
<1> HIDE DEF texts
<1>5. texts \in Seq(Text) /\ Len(texts) = Len(value)
  BY <1>1, <1>3
<1>6. PICK e : Flattens(texts, e)
  BY <1>5, FlattenBuilds
<1> QED  BY <1>2, <1>4, <1>5, <1>6 DEF Flattens, Grown

LEMMA EscapedRuneIsRead ==
    ASSUME NEW p, NEW c \in Text, NEW r \in Runes
    PROVE  Reads("split", Inside(p, c), EscapedRune(r), Inside(p, c \o EscapedRune(r)))
<1>1. CASE r \notin {Quote, Backslash}
  <2>1. EscapedRune(r) = <<r>> /\ Append(c, r) = c \o <<r>>
    BY <1>1, Joins DEF EscapedRune
  <2>2. NextRune("split", Inside(p, c), r) = Inside(p, Append(c, r))
    BY <1>1, InsideRune
  <2> QED  BY <2>1, <2>2, ReadsOne
<1>2. CASE r \in {Quote, Backslash}
  <2> DEFINE mid == NextRune("split", Inside(p, c), Backslash)
  <2>1. Backslash \in Runes /\ <<Backslash>> \in Text /\ <<r>> \in Text
    <3>1. Backslash \in Runes
      BY Distinct DEF Syntax
    <3> QED  BY <3>1, Joins
  <2>0. <<Backslash, r>> = <<Backslash>> \o <<r>>
    BY TwoRunes
  <2>2. EscapedRune(r) = <<Backslash>> \o <<r>>
    BY <1>2, <2>0 DEF EscapedRune
  <2>3. Append(Append(c, Backslash), r) = c \o (<<Backslash>> \o <<r>>)
    <3>1. Append(c, Backslash) = c \o <<Backslash>> /\ c \o <<Backslash>> \in Text
      BY <2>1, Joins
    <3>2. Append(c \o <<Backslash>>, r) = (c \o <<Backslash>>) \o <<r>>
      BY <3>1, Joins
    <3>3. (c \o <<Backslash>>) \o <<r>> = c \o (<<Backslash>> \o <<r>>)
      BY <2>1, Joins
    <3> QED  BY <3>1, <3>2, <3>3
  <2>4. NextRune("split", mid, r) = Inside(p, Append(Append(c, Backslash), r))
    BY InsideRune
  <2>5. Reads("split", Inside(p, c), <<Backslash>>, mid)
    BY ReadsOne
  <2>6. Reads("split", mid, <<r>>, Inside(p, Append(Append(c, Backslash), r)))
    BY <2>4, ReadsOne
  <2> HIDE DEF mid
  <2> QED  BY <2>1, <2>2, <2>3, <2>5, <2>6, ReadsOn
<1> QED  BY <1>1, <1>2

LEMMA EscapedIsRead ==
    ASSUME NEW p, NEW c \in Text, NEW value \in Text
    PROVE  /\ Escaped(value) \in Text
           /\ Reads("split", Inside(p, c), Escaped(value), Inside(p, c \o Escaped(value)))
<1>1. PICK e \in [0..Len(value) -> Text] :
          /\ e[0] = <<>>
          /\ \A n \in 1..Len(value) : e[n] = e[n - 1] \o EscapedRune(value[n])
          /\ Escaped(value) = e[Len(value)]
  BY EscapedBuilds
<1>2. Len(value) \in Nat /\ \A n \in 1..Len(value) : value[n] \in Runes
  BY Joins
<1> DEFINE S == {n \in Nat : n \leq Len(value) => Reads("split", Inside(p, c), e[n], Inside(p, c \o e[n]))}
<1>3. 0 \in S
  <2>1. c \o <<>> = c
    BY Joins
  <2> QED  BY <1>1, <2>1, ReadsNothing
<1>4. ASSUME NEW n \in Nat, n \in S  PROVE n + 1 \in S
  <2> SUFFICES ASSUME n + 1 \leq Len(value)
               PROVE  Reads("split", Inside(p, c), e[n + 1], Inside(p, c \o e[n + 1]))
    OBVIOUS
  <2> DEFINE more == EscapedRune(value[n + 1])
  <2>1. n + 1 \in 1..Len(value) /\ (n + 1) - 1 = n /\ n \in 0..Len(value)
    BY <1>2
  <2>2. value[n + 1] \in Runes /\ e[n] \in Text /\ e[n + 1] = e[n] \o more
    BY <1>1, <1>2, <2>1
  <2>3. more \in Text
    BY <2>2, EscapedRuneIsText
  <2>4. c \o e[n] \in Text /\ (c \o e[n]) \o more = c \o (e[n] \o more)
    <3> HIDE DEF more
    <3>1. c \o e[n] \in Text
      BY <2>2, Joins
    <3>2. (c \o e[n]) \o more = c \o (e[n] \o more)
      BY <2>2, <2>3, Joins
    <3> QED  BY <3>1, <3>2
  <2>5. Reads("split", Inside(p, c \o e[n]), more, Inside(p, (c \o e[n]) \o more))
    BY <2>2, <2>4, EscapedRuneIsRead
  <2>6. Reads("split", Inside(p, c), e[n], Inside(p, c \o e[n]))
    BY <1>4, <2>1
  <2> HIDE DEF more
  <2> QED  BY <2>2, <2>3, <2>4, <2>5, <2>6, ReadsOn
<1>5. Nat \subseteq S
  <2> HIDE DEF S
  <2> QED  BY <1>3, <1>4, Induction
<1> QED  BY <1>1, <1>2, <1>5

\* A string, and one that does not end.
LEMMA QuotedIsRead ==
    ASSUME NEW p, NEW c \in Text, NEW value \in Text
    PROVE  /\ Quoted(value) \in Text /\ <<Quote>> \o Escaped(value) \in Text
           /\ Reads("split", Outside(p, c), Quoted(value), Outside(p, c \o Quoted(value)))
           /\ Reads("split", Outside(p, c), <<Quote>> \o Escaped(value),
                    Inside(p, c \o (<<Quote>> \o Escaped(value))))
<1> DEFINE begun == <<Quote>> \o Escaped(value)
<1>1. <<Quote>> \in Text /\ Quote \in Runes
  <2>1. Quote \in Runes
    BY Distinct DEF Syntax
  <2> QED  BY <2>1, Joins
<1>2. Escaped(value) \in Text
  BY EscapedIsRead
<1>3. begun \in Text /\ Quoted(value) = begun \o <<Quote>> /\ begun \o <<Quote>> \in Text
  BY <1>1, <1>2, Joins DEF Quoted
<1>4. c \o <<Quote>> \in Text /\ Append(c, Quote) = c \o <<Quote>>
  BY <1>1, Joins
<1>5. Reads("split", Outside(p, c), <<Quote>>, Inside(p, c \o <<Quote>>))
  <2>1. NextRune("split", Outside(p, c), Quote) = Inside(p, c \o <<Quote>>)
    BY <1>4, OutsideRune
  <2> QED  BY <2>1, ReadsOne
<1>6. Reads("split", Inside(p, c \o <<Quote>>), Escaped(value), Inside(p, (c \o <<Quote>>) \o Escaped(value)))
  BY <1>4, EscapedIsRead
<1>7. (c \o <<Quote>>) \o Escaped(value) = c \o begun
  BY <1>1, <1>2, Joins
<1>8. Reads("split", Outside(p, c), begun, Inside(p, c \o begun))
  BY <1>1, <1>2, <1>5, <1>6, <1>7, ReadsOn
<1> HIDE DEF begun
<1>9. Append(c \o begun, Quote) = c \o (begun \o <<Quote>>)
  <2>1. c \o begun \in Text
    BY <1>3, Joins
  <2>2. Append(c \o begun, Quote) = (c \o begun) \o <<Quote>>
    BY <1>1, <2>1, Joins
  <2>3. (c \o begun) \o <<Quote>> = c \o (begun \o <<Quote>>)
    BY <1>1, <1>3, Joins
  <2> QED  BY <2>2, <2>3
<1>10. Reads("split", Inside(p, c \o begun), <<Quote>>, Outside(p, c \o (begun \o <<Quote>>)))
  <2>1. NextRune("split", Inside(p, c \o begun), Quote) = Outside(p, c \o (begun \o <<Quote>>))
    BY <1>9, InsideRune
  <2> QED  BY <2>1, ReadsOne
<1>11. Reads("split", Outside(p, c), begun \o <<Quote>>, Outside(p, c \o (begun \o <<Quote>>)))
  BY <1>1, <1>3, <1>8, <1>10, ReadsOn
<1> QED  BY <1>3, <1>8, <1>11 DEF begun

\* Unquote, not behind a backslash.
Sofar(value) == [value |-> value, escaped |-> FALSE, ok |-> TRUE]

LEMMA UnquoteRuneReads ==
    ASSUME NEW v, NEW r \in Runes
    PROVE  Reads("unquote", Sofar(v), EscapedRune(r), Sofar(Append(v, r)))
<1> DEFINE behind == [value |-> v, escaped |-> TRUE, ok |-> TRUE]
<1>0. Quote # Backslash
  BY Distinct
<1>1. CASE r \notin {Quote, Backslash}
  <2>1. EscapedRune(r) = <<r>>
    BY <1>1 DEF EscapedRune
  <2>2. NextRune("unquote", Sofar(v), r) = Sofar(Append(v, r))
    BY <1>1, Zenon DEF NextRune, UnquoteRune, Sofar
  <2> QED  BY <2>1, <2>2, ReadsOne
<1>2. CASE r \in {Quote, Backslash}
  <2>1. <<Backslash>> \in Text /\ <<r>> \in Text
    <3>1. Backslash \in Runes
      BY Distinct DEF Syntax
    <3> QED  BY <3>1, Joins
  <2>2. <<Backslash, r>> = <<Backslash>> \o <<r>>
    BY TwoRunes
  <2>3. EscapedRune(r) = <<Backslash>> \o <<r>>
    BY <1>2, <2>2 DEF EscapedRune
  <2>4. NextRune("unquote", Sofar(v), Backslash) = behind
    BY <1>0, Zenon DEF NextRune, UnquoteRune, Sofar
  <2>5. NextRune("unquote", behind, r) = Sofar(Append(v, r))
    BY <1>2, Zenon DEF NextRune, UnquoteRune, Sofar
  <2> HIDE DEF behind
  <2>6. Reads("unquote", Sofar(v), <<Backslash>>, behind)
    BY <2>4, ReadsOne
  <2>7. Reads("unquote", behind, <<r>>, Sofar(Append(v, r)))
    BY <2>5, ReadsOne
  <2> QED  BY <2>1, <2>3, <2>6, <2>7, ReadsOn
<1> QED  BY <1>1, <1>2

\* What is written in quotes is what is read from it.
LEMMA UnquoteEscaped ==
    ASSUME NEW value \in Text  PROVE Unquote(Escaped(value)) = [value |-> value, ok |-> TRUE]
<1>1. PICK e \in [0..Len(value) -> Text] :
          /\ e[0] = <<>>
          /\ \A n \in 1..Len(value) : e[n] = e[n - 1] \o EscapedRune(value[n])
          /\ Escaped(value) = e[Len(value)]
  BY EscapedBuilds
<1>2. Len(value) \in Nat /\ \A n \in 1..Len(value) : value[n] \in Runes
  BY Joins
<1> DEFINE Before(n) == SubSeq(value, 1, n)
           S == {n \in Nat : n \leq Len(value) => Reads("unquote", Sofar(<<>>), e[n], Sofar(Before(n)))}
<1>3. Before(0) = <<>> /\ Before(Len(value)) = value
  BY SubSeqFull, SubSeqEmpty DEF Text
<1>4. \A n \in 1..Len(value) : Append(Before(n - 1), value[n]) = Before(n)
  BY DEF Text
<1> HIDE DEF Before
<1>5. 0 \in S
  BY <1>1, <1>3, ReadsNothing
<1>6. ASSUME NEW n \in Nat, n \in S  PROVE n + 1 \in S
  <2> SUFFICES ASSUME n + 1 \leq Len(value)
               PROVE  Reads("unquote", Sofar(<<>>), e[n + 1], Sofar(Before(n + 1)))
    OBVIOUS
  <2> DEFINE more == EscapedRune(value[n + 1])
  <2>1. n + 1 \in 1..Len(value) /\ (n + 1) - 1 = n /\ n \in 0..Len(value)
    BY <1>2
  <2>2. value[n + 1] \in Runes /\ e[n] \in Text /\ e[n + 1] = e[n] \o more
    BY <1>1, <1>2, <2>1
  <2>3. more \in Text
    BY <2>2, EscapedRuneIsText
  <2>4. Reads("unquote", Sofar(Before(n)), more, Sofar(Append(Before(n), value[n + 1])))
    BY <2>2, UnquoteRuneReads
  <2>5. Append(Before(n), value[n + 1]) = Before(n + 1)
    BY <1>4, <2>1
  <2>6. Reads("unquote", Sofar(<<>>), e[n], Sofar(Before(n)))
    BY <1>6, <2>1
  <2> HIDE DEF more
  <2> QED  BY <2>2, <2>3, <2>4, <2>5, <2>6, ReadsOn
<1>7. Nat \subseteq S
  <2> HIDE DEF S
  <2> QED  BY <1>5, <1>6, Induction
<1>8. Reads("unquote", Sofar(<<>>), Escaped(value), Sofar(value))
  BY <1>1, <1>2, <1>3, <1>7
<1>9. Escaped(value) \in Text
  BY EscapedIsRead
<1> QED  BY <1>8, <1>9, UnquoteReads DEF Sofar

-------------------------------------------------------------------------------
(* Pieces: what splitSpecFields reads between commas *)

\* A text that ends outside of quotes, whatever is before it, without a comma outside of them.
Even(text) == \A p : \A c \in Text : Reads("split", Outside(p, c), text, Outside(p, c \o text))

LEMMA EvenPlain == ASSUME NEW text \in Text, Plain(text) PROVE Even(text)
  BY SplitPlain DEF Even

LEMMA EvenQuoted == ASSUME NEW value \in Text PROVE Even(Quoted(value)) /\ Quoted(value) \in Text
<1>1. Quoted(value) \in Text
  <2>1. <<>> \in Text
    BY Joins
  <2> QED  BY <2>1, QuotedIsRead
<1> QED  BY <1>1, QuotedIsRead DEF Even

LEMMA EvenJoin ==
    ASSUME NEW a \in Text, NEW b \in Text, Even(a), Even(b)  PROVE Even(a \o b)
<1> SUFFICES ASSUME NEW p, NEW c \in Text
             PROVE  Reads("split", Outside(p, c), a \o b, Outside(p, c \o (a \o b)))
  BY DEF Even
<1>1. c \o a \in Text
  BY Joins
<1>2. (c \o a) \o b = c \o (a \o b)
  BY Joins
<1>3. Reads("split", Outside(p, c), a, Outside(p, c \o a))
  BY DEF Even
<1>4. Reads("split", Outside(p, c \o a), b, Outside(p, (c \o a) \o b))
  BY <1>1 DEF Even
<1> QED  BY <1>2, <1>3, <1>4, ReadsOn

LEMMA PlainJoin ==
    ASSUME NEW a \in Text, NEW b \in Text, Plain(a), Plain(b)  PROVE Plain(a \o b)
<1>1. a \o b \in Text /\ Len(a \o b) = Len(a) + Len(b) /\ Len(a) \in Nat /\ Len(b) \in Nat
      /\ DOMAIN (a \o b) = 1..Len(a \o b) /\ DOMAIN a = 1..Len(a) /\ DOMAIN b = 1..Len(b)
  BY Joins
<1>2. ASSUME NEW i \in 1..(Len(a) + Len(b))  PROVE (a \o b)[i] \notin {Quote, Comma}
  <2>1. CASE i \leq Len(a)
    <3>1. i \in 1..Len(a) /\ (a \o b)[i] = a[i]
      BY <2>1, <1>1, RuneAt
    <3> QED  BY <1>1, <3>1 DEF Plain
  <2>2. CASE ~(i \leq Len(a))
    <3>1. i - Len(a) \in 1..Len(b) /\ (a \o b)[i] = b[i - Len(a)]
      BY <2>2, <1>1, RuneAt
    <3> QED  BY <1>1, <3>1 DEF Plain
  <2> QED  BY <2>1, <2>2
<1> QED  BY <1>1, <1>2 DEF Plain

LEMMA PadIsPlain == ASSUME NEW n \in Nat PROVE Pad(n) \in Text /\ Len(Pad(n)) = n /\ Plain(Pad(n))
<1>1. Space \in Runes /\ Space \notin {Quote, Comma}
  BY Distinct DEF Syntax
<1>2. Pad(n) \in Text /\ Len(Pad(n)) = n /\ \A i \in 1..n : Pad(n)[i] = Space
  BY <1>1 DEF Pad, Text
<1> QED  BY <1>1, <1>2, Joins DEF Plain

\* Spaces around a word do not change how it is read, and are taken away.
LEMMA PaddedText ==
    ASSUME NEW text, NEW word \in Text, Padded(text, word)
    PROVE  text \in Text /\ (Even(word) => Even(text)) /\ (Plain(word) => Plain(text))
<1>1. PICK a \in Nat, b \in Nat : text = Pad(a) \o word \o Pad(b)
  BY DEF Padded
<1>2. Pad(a) \in Text /\ Pad(b) \in Text /\ Plain(Pad(a)) /\ Plain(Pad(b))
  BY PadIsPlain
<1>3. Pad(a) \o word \in Text /\ text \in Text
  BY <1>1, <1>2, Joins
<1>4. Even(word) => Even(text)
  BY <1>1, <1>2, <1>3, EvenPlain, EvenJoin
<1>5. Plain(word) => Plain(text)
  BY <1>1, <1>2, <1>3, PlainJoin
<1> QED  BY <1>3, <1>4, <1>5

LEMMA Bounds ==
    ASSUME NEW S, S \subseteq Int, NEW low \in S, NEW high \in S, \A i \in S : low <= i /\ i <= high
    PROVE  Min(S) = low /\ Max(S) = high
<1>1. Min(S) \in S /\ \A i \in S : Min(S) <= i
  BY DEF Min
<1>2. Max(S) \in S /\ \A i \in S : Max(S) >= i
  BY DEF Max
<1>3. low <= Min(S) /\ Min(S) <= low /\ high <= Max(S) /\ Max(S) <= high
  BY <1>1, <1>2
<1>4. \A x \in S : x \in Int
  OBVIOUS
<1>5. Min(S) \in Int /\ Max(S) \in Int /\ low \in Int /\ high \in Int
  BY <1>1, <1>2, <1>4
<1>6. \A x, y \in Int : x <= y /\ y <= x => x = y
  OBVIOUS
<1> QED  BY <1>3, <1>5, <1>6

LEMMA PaddedTrims ==
    ASSUME NEW text, NEW word \in Text, Padded(text, word), Tight(word)
    PROVE  TrimSpace(text) = word
<1>1. PICK a \in Nat, b \in Nat : text = Pad(a) \o word \o Pad(b)
  BY DEF Padded
<1> DEFINE n == Len(word)
           Solid == {i \in DOMAIN text : text[i] # Space}
<1>2. n \in Nat /\ Pad(a) \in Text /\ Pad(b) \in Text /\ Len(Pad(a)) = a /\ Len(Pad(b)) = b
      /\ Pad(a) \o word \in Text /\ Len(Pad(a) \o word) = a + n /\ Len(text) = a + n + b
      /\ text \in Text /\ DOMAIN text = 1..(a + n + b)
  <2>1. n \in Nat /\ Pad(a) \in Text /\ Pad(b) \in Text /\ Len(Pad(a)) = a /\ Len(Pad(b)) = b
    BY PadIsPlain, Joins
  <2> DEFINE A == Pad(a)
             B == Pad(b)
  <2>2. A \o word \in Text /\ Len(A \o word) = a + n
    BY <2>1, Joins
  <2>3. (A \o word) \o B \in Text /\ Len((A \o word) \o B) = (a + n) + b
    <3>1. \A x, y \in Text : x \o y \in Text /\ Len(x \o y) = Len(x) + Len(y)
      BY Joins
    <3>2. B \in Text /\ Len(B) = b
      BY <2>1
    <3> HIDE DEF A, B
    <3> QED  BY <2>2, <3>1, <3>2
  <2>4. DOMAIN text = 1..Len(text)
    BY <1>1, <2>3, Joins
  <2> QED  BY <1>1, <2>1, <2>2, <2>3, <2>4
<1>3. \A i \in 1..a : Pad(a)[i] = Space
  BY DEF Pad
<1>4. \A i \in 1..b : Pad(b)[i] = Space
  BY DEF Pad
<1>5. \A i \in 1..(a + n + b) : text[i] = IF i \leq a THEN Space ELSE IF i \leq a + n THEN word[i - a] ELSE Space
  <2> SUFFICES ASSUME NEW i \in 1..(a + n + b)
               PROVE  text[i] = IF i \leq a THEN Space ELSE IF i \leq a + n THEN word[i - a] ELSE Space
    OBVIOUS
  <2>1. text[i] = IF i \leq a + n THEN (Pad(a) \o word)[i] ELSE Pad(b)[i - (a + n)]
    BY <1>1, <1>2, RuneAt
  <2>2. i \leq a + n => (Pad(a) \o word)[i] = IF i \leq a THEN Pad(a)[i] ELSE word[i - a]
    BY <1>2, RuneAt
  <2> QED  BY <1>2, <1>3, <1>4, <2>1, <2>2
<1> HIDE DEF n
<1>6. CASE word = <<>>
  <2>1. n = 0
    BY <1>6, Joins DEF n
  <2>2. Solid = {}
    BY <1>2, <1>5, <2>1
  <2> QED  BY <1>6, <2>2 DEF TrimSpace
<1>7. CASE word # <<>>
  <2>1. n >= 1 /\ word[1] # Space /\ word[n] # Space
    BY <1>2, <1>7 DEF Tight, Last, n, Text
  <2>2. a + 1 \in Solid /\ a + n \in Solid /\ \A i \in Solid : a + 1 \leq i /\ i \leq a + n
    BY <1>2, <1>5, <2>1
  <2>3. Min(Solid) = a + 1 /\ Max(Solid) = a + n
    <3>1. Solid \subseteq Int
      BY <1>2
    <3> HIDE DEF Solid
    <3> QED  BY <2>2, <3>1, Bounds
  <2>4. TrimSpace(text) = SubSeq(text, a + 1, a + n)
    <3>1. Solid # {}
      BY <2>2
    <3> QED  BY <2>3, <3>1 DEF TrimSpace
  <2>5. SubSeq(text, a + 1, a + n) = word
    <3>1. \A i \in (a + 1)..(a + n) : text[i] \in Runes
      <4>1. \A i \in 1..Len(text) : text[i] \in Runes
        BY <1>2, Joins
      <4> QED  BY <1>2, <4>1
    <3>2. /\ SubSeq(text, a + 1, a + n) \in Seq(Runes)
          /\ Len(SubSeq(text, a + 1, a + n)) = n
          /\ \A i \in 1..n : SubSeq(text, a + 1, a + n)[i] = text[a + i]
      BY <1>2, <2>1, <3>1, SubSeqProperties
    <3>3. \A i \in 1..n : text[a + i] = word[i]
      BY <1>2, <1>5
    <3> QED  BY <3>2, <3>3, SeqEqual DEF n, Text
  <2> QED  BY <2>4, <2>5
<1> QED  BY <1>6, <1>7

\* Pieces with commas between them: up to the last, which may not end.
LEMMA SeparatedIsRead ==
    ASSUME NEW pieces \in Seq(Text), pieces # <<>>,
           NEW words \in Seq(Text), Len(words) = Len(pieces),
           \A i \in 1..(Len(pieces) - 1) : TrimSpace(pieces[i]) = words[i] /\ Even(pieces[i]),
           NEW end,
           Reads("split", Outside(SubSeq(words, 1, Len(pieces) - 1), <<>>), pieces[Len(pieces)], end)
    PROVE  /\ Separated(pieces) \in Text
           /\ Reads("split", Outside(<<>>, <<>>), Separated(pieces), end)
<1> DEFINE N == Len(pieces) - 1
           texts == [i \in 1..N |-> pieces[i] \o <<Comma>>]
           Before(n) == SubSeq(words, 1, n)
<1>1. Len(pieces) \in Nat \ {0} /\ N \in Nat /\ \A i \in 1..Len(pieces) : pieces[i] \in Text
  BY EmptySeq
<1>2. <<Comma>> \in Text /\ <<>> \in Text
  <2>1. Comma \in Runes
    BY Distinct DEF Syntax
  <2> QED  BY <2>1, Joins
<1>3. \A i \in 1..N : texts[i] = pieces[i] \o <<Comma>> /\ texts[i] \in Text
  <2> SUFFICES ASSUME NEW i \in 1..N  PROVE texts[i] = pieces[i] \o <<Comma>> /\ texts[i] \in Text
    OBVIOUS
  <2>1. pieces[i] \in Text
    BY <1>1
  <2>2. pieces[i] \o <<Comma>> \in Text
    BY <1>2, <2>1, Joins
  <2> QED  BY <2>2
<1>4. Separated(pieces) = FlattenSeq(texts) \o pieces[Len(pieces)]
  BY DEF Separated, Last
<1>5. texts \in [1..N -> Text]
  BY <1>3
<1> HIDE DEF texts
<1>6. texts \in Seq(Text) /\ Len(texts) = N
  <2>1. texts \in Seq(Text)
    BY <1>1, <1>5
  <2> QED  BY <1>1, <1>5, <2>1
<1>7. PICK e : Flattens(texts, e)
  BY <1>6, FlattenBuilds
<1>8. Before(0) = <<>> /\ \A n \in 1..N : Append(Before(n - 1), words[n]) = Before(n)
  <2>1. Before(0) = <<>>
    BY SubSeqEmpty
  <2>2. \A n \in 1..Len(words) : Append(Before(n - 1), words[n]) = Before(n)
    OBVIOUS
  <2> QED  BY <1>1, <2>1, <2>2
<1> HIDE DEF Before
<1>9. e \in [0..N -> Text] /\ e[0] = <<>> /\ FlattenSeq(texts) = e[N]
      /\ \A n \in 1..N : e[n] = e[n - 1] \o (pieces[n] \o <<Comma>>)
  BY <1>3, <1>6, <1>7 DEF Flattens, Grown
<1> DEFINE S == {n \in Nat : n \leq N => Reads("split", Outside(<<>>, <<>>), e[n], Outside(Before(n), <<>>))}
<1>10. 0 \in S
  BY <1>8, <1>9, ReadsNothing
<1>11. ASSUME NEW n \in Nat, n \in S  PROVE n + 1 \in S
  <2> SUFFICES ASSUME n + 1 \leq N
               PROVE  Reads("split", Outside(<<>>, <<>>), e[n + 1], Outside(Before(n + 1), <<>>))
    OBVIOUS
  <2> DEFINE piece == pieces[n + 1]
  <2>1. n + 1 \in 1..N /\ n + 1 \in 1..Len(pieces) /\ (n + 1) - 1 = n /\ n \in 0..N
    BY <1>1
  <2>2. piece \in Text /\ e[n] \in Text /\ e[n + 1] = e[n] \o (piece \o <<Comma>>)
    BY <1>1, <1>9, <2>1
  <2>3. Even(piece) /\ TrimSpace(piece) = words[n + 1]
    BY <2>1
  <2>4. Append(Before(n), words[n + 1]) = Before(n + 1)
    BY <1>8, <2>1
  <2>5. Reads("split", Outside(<<>>, <<>>), e[n], Outside(Before(n), <<>>))
    BY <1>11, <2>1
  <2> HIDE DEF piece
  <2>6. Reads("split", Outside(Before(n), <<>>), piece, Outside(Before(n), piece))
    <3>1. <<>> \o piece = piece
      BY <2>2, Joins
    <3>2. Reads("split", Outside(Before(n), <<>>), piece, Outside(Before(n), <<>> \o piece))
      BY <1>2, <2>3 DEF Even
    <3> QED  BY <3>1, <3>2
  <2>7. Reads("split", Outside(Before(n), piece), <<Comma>>, Outside(Before(n + 1), <<>>))
    <3>1. NextRune("split", Outside(Before(n), piece), Comma) = Outside(Append(Before(n), TrimSpace(piece)), <<>>)
      BY OutsideRune
    <3>2. NextRune("split", Outside(Before(n), piece), Comma) = Outside(Before(n + 1), <<>>)
      BY <2>3, <2>4, <3>1
    <3> QED  BY <3>2, ReadsOne
  <2>8. piece \o <<Comma>> \in Text
    BY <1>2, <2>2, Joins
  <2>9. Reads("split", Outside(Before(n), <<>>), piece \o <<Comma>>, Outside(Before(n + 1), <<>>))
    BY <1>2, <2>2, <2>6, <2>7, ReadsOn
  <2> QED  BY <2>2, <2>5, <2>8, <2>9, ReadsOn
<1>12. Nat \subseteq S
  <2> HIDE DEF S
  <2> QED  BY <1>10, <1>11, Induction
<1>13. Reads("split", Outside(<<>>, <<>>), e[N], Outside(Before(N), <<>>))
  BY <1>1, <1>12
<1>14. Reads("split", Outside(Before(N), <<>>), pieces[Len(pieces)], end)
  BY DEF Before
<1>15. e[N] \in Text /\ pieces[Len(pieces)] \in Text
  BY <1>1, <1>9
<1>16. e[N] \o pieces[Len(pieces)] \in Text
  BY <1>15, Joins
<1> HIDE DEF N
<1> QED  BY <1>4, <1>9, <1>13, <1>14, <1>15, <1>16, ReadsOn

-------------------------------------------------------------------------------
(* Around the fields *)

LEMMA Wrapped ==
    ASSUME NEW first \in Runes, NEW text \in Text, NEW last \in Runes
    PROVE  LET whole == <<first>> \o text \o <<last>>
           IN /\ whole \in Text /\ whole # <<>> /\ Len(whole) = Len(text) + 2
              /\ Head(whole) = first /\ Last(whole) = last
              /\ SubSeq(whole, 2, Len(whole) - 1) = text
<1> DEFINE begun == <<first>> \o text
           whole == begun \o <<last>>
           n == Len(text)
<1>1. <<first>> \in Text /\ <<last>> \in Text /\ Len(<<first>>) = 1 /\ Len(<<last>>) = 1 /\ n \in Nat
  BY Joins
<1>2. begun \in Text /\ Len(begun) = n + 1
  BY <1>1, Joins
<1>3. begun[1] = first /\ \A i \in 2..(n + 1) : begun[i] = text[i - 1]
  BY <1>1, RuneAt
<1> HIDE DEF begun
<1>4. whole \in Text /\ Len(whole) = n + 2
  BY <1>1, <1>2, Joins
<1>5. whole[n + 2] = last /\ \A i \in 1..(n + 1) : whole[i] = begun[i]
  BY <1>1, <1>2, RuneAt
<1>6. DOMAIN whole = 1..(n + 2) /\ \A i \in 1..(n + 2) : whole[i] \in Runes
  BY <1>1, <1>4, Joins
<1>7. \A i \in 1..n : text[i] \in Runes
  BY <1>1, Joins
<1> HIDE DEF whole
<1>8. whole # <<>> /\ Head(whole) = first /\ Last(whole) = last
  BY <1>1, <1>3, <1>4, <1>5, Joins DEF Last
<1>9. SubSeq(whole, 2, n + 1) = text
  <2>1. \A i \in 2..(n + 1) : whole[i] \in Runes
    BY <1>6
  <2>2. /\ SubSeq(whole, 2, n + 1) \in Seq(Runes)
        /\ Len(SubSeq(whole, 2, n + 1)) = n
        /\ \A i \in 1..n : SubSeq(whole, 2, n + 1)[i] = whole[i + 1]
    BY <1>1, <2>1, SubSeqProperties
  <2>3. \A i \in 1..n : whole[i + 1] = text[i]
    BY <1>1, <1>3, <1>5
  <2> QED  BY <2>2, <2>3, SeqEqual DEF n, Text
<1>10. Len(whole) - 1 = n + 1
  BY <1>1, <1>4
<1> QED  BY <1>4, <1>8, <1>9, <1>10 DEF whole, begun, n

LEMMA EnclosedIsFound ==
    ASSUME NEW text, NEW body \in Text, Encloses(text, body)
    PROVE  WithoutParentheses(TrimSpace(text)) = body
<1>0. Tight(body)
  BY DEF Encloses
<1>1. CASE ~(body # <<>> /\ Head(body) = Open /\ Last(body) = Close) /\ Padded(text, body)
  <2>1. TrimSpace(text) = body
    BY <1>0, <1>1, PaddedTrims
  <2> QED  BY <1>1, <2>1 DEF WithoutParentheses
<1>2. CASE \E inside : Padded(inside, body) /\ Padded(text, <<Open>> \o inside \o <<Close>>)
  <2>1. PICK inside : Padded(inside, body) /\ Padded(text, <<Open>> \o inside \o <<Close>>)
    BY <1>2
  <2>2. inside \in Text /\ TrimSpace(inside) = body
    BY <1>0, <2>1, PaddedText, PaddedTrims
  <2>3. Open \in Runes /\ Close \in Runes /\ Open # Space /\ Close # Space
    BY Distinct DEF Syntax
  <2> DEFINE whole == <<Open>> \o inside \o <<Close>>
  <2>4. /\ whole \in Text /\ whole # <<>>
        /\ Head(whole) = Open /\ Last(whole) = Close
        /\ SubSeq(whole, 2, Len(whole) - 1) = inside
    BY <2>2, <2>3, Wrapped
  <2>5. Padded(text, whole)
    BY <2>1
  <2> HIDE DEF whole
  <2>6. TrimSpace(text) = whole
    BY <2>3, <2>4, <2>5, PaddedTrims DEF Tight
  <2> QED  BY <2>2, <2>4, <2>6 DEF WithoutParentheses
<1> QED  BY <1>1, <1>2 DEF Encloses

\* The fields of a text, and none when one is empty or the last does not end.
LEMMA FieldsAreSplit ==
    ASSUME NEW pieces \in Seq(Text), pieces # <<>>,
           NEW words \in Seq(Text), Len(words) = Len(pieces),
           \A i \in 1..Len(pieces) : TrimSpace(pieces[i]) = words[i],
           \A i \in 1..Len(pieces) : Even(pieces[i]),
           NEW text, Encloses(text, Separated(pieces))
    PROVE  splitSpecFields(text) = IF Contains(words, <<>>) THEN NoFields ELSE words
<1> DEFINE N == Len(pieces) - 1
           Before(n) == SubSeq(words, 1, n)
           end == Outside(Before(N), pieces[N + 1])
<1>1. Len(pieces) \in Nat \ {0} /\ N \in Nat /\ N + 1 = Len(pieces) /\ pieces[N + 1] \in Text
  BY EmptySeq
<1>2. Reads("split", Outside(Before(N), <<>>), pieces[N + 1], end)
  <2>1. <<>> \in Text /\ <<>> \o pieces[N + 1] = pieces[N + 1]
    BY <1>1, Joins
  <2>2. Even(pieces[N + 1])
    BY <1>1
  <2>3. Reads("split", Outside(Before(N), <<>>), pieces[N + 1], Outside(Before(N), <<>> \o pieces[N + 1]))
    BY <2>1, <2>2 DEF Even
  <2> QED  BY <2>1, <2>3
<1>3. Separated(pieces) \in Text /\ Reads("split", Outside(<<>>, <<>>), Separated(pieces), end)
  <2> HIDE DEF end
  <2>1. Reads("split", Outside(SubSeq(words, 1, Len(pieces) - 1), <<>>), pieces[Len(pieces)], end)
    BY <1>1, <1>2
  <2>2. \A i \in 1..(Len(pieces) - 1) : TrimSpace(pieces[i]) = words[i] /\ Even(pieces[i])
    BY <1>1
  <2> QED  BY <2>1, <2>2, SeparatedIsRead
<1>4. ReadRunes(Outside(<<>>, <<>>), Separated(pieces)) = end
  <2> HIDE DEF end
  <2> QED  BY <1>3, ReadRunesReads
<1>5. WithoutParentheses(TrimSpace(text)) = Separated(pieces)
  BY <1>3, EnclosedIsFound
<1>6. Append(Before(N), words[N + 1]) = words
  BY <1>1, SubSeqFull
<1>7. end.parts = Before(N) /\ TrimSpace(end.current) = words[N + 1] /\ end.inQuotes = FALSE
  BY <1>1 DEF Outside
<1> HIDE DEF end
<1>8. splitSpecFields(text) = IF end.inQuotes \/ Contains(Append(end.parts, TrimSpace(end.current)), <<>>)
                              THEN NoFields ELSE Append(end.parts, TrimSpace(end.current))
  BY <1>4, <1>5 DEF splitSpecFields, Outside
<1> QED  BY <1>6, <1>7, <1>8

LEMMA FieldsDoNotEnd ==
    ASSUME NEW pieces \in Seq(Text), pieces # <<>>,
           NEW words \in Seq(Text), Len(words) = Len(pieces),
           \A i \in 1..(Len(pieces) - 1) : TrimSpace(pieces[i]) = words[i] /\ Even(pieces[i]),
           NEW a \in Nat, NEW value \in Text,
           pieces[Len(pieces)] = Pad(a) \o <<Quote>> \o Escaped(value),
           NEW text, Encloses(text, Separated(pieces))
    PROVE  splitSpecFields(text) = NoFields
<1> DEFINE before == SubSeq(words, 1, Len(pieces) - 1)
           begun == <<Quote>> \o Escaped(value)
           end == Inside(before, Pad(a) \o begun)
<1>1. Pad(a) \in Text /\ Plain(Pad(a)) /\ begun \in Text /\ <<Quote>> \in Text /\ Escaped(value) \in Text
  <2>1. Quote \in Runes
    BY Distinct DEF Syntax
  <2>2. <<Quote>> \in Text
    BY <2>1, Joins
  <2>3. Escaped(value) \in Text
    BY EscapedIsRead
  <2> QED  BY <2>2, <2>3, PadIsPlain, Joins
<1>2. pieces[Len(pieces)] = Pad(a) \o begun
  BY <1>1, Joins
<1>3. Reads("split", Outside(before, <<>>), Pad(a) \o begun, end)
  <2>1. <<>> \in Text /\ <<>> \o Pad(a) = Pad(a)
    BY <1>1, Joins
  <2>2. Reads("split", Outside(before, <<>>), Pad(a), Outside(before, <<>> \o Pad(a)))
    BY <1>1, <2>1, SplitPlain
  <2>3. Reads("split", Outside(before, Pad(a)), begun, end)
    BY <1>1, QuotedIsRead
  <2> HIDE DEF begun, end
  <2> QED  BY <1>1, <2>1, <2>2, <2>3, ReadsOn
<1> HIDE DEF end
<1>4. Separated(pieces) \in Text /\ Reads("split", Outside(<<>>, <<>>), Separated(pieces), end)
  BY <1>2, <1>3, SeparatedIsRead
<1>5. ReadRunes(Outside(<<>>, <<>>), Separated(pieces)) = end
  BY <1>4, ReadRunesReads
<1>6. WithoutParentheses(TrimSpace(text)) = Separated(pieces)
  BY <1>4, EnclosedIsFound
<1>7. end.inQuotes = TRUE
  BY DEF end, Inside
<1>8. splitSpecFields(text) = IF end.inQuotes \/ Contains(Append(end.parts, TrimSpace(end.current)), <<>>)
                              THEN NoFields ELSE Append(end.parts, TrimSpace(end.current))
  BY <1>5, <1>6 DEF splitSpecFields, Outside
<1> QED  BY <1>7, <1>8

-------------------------------------------------------------------------------
(* Tokens *)

Token(spec, word) == IF spec = "template" THEN parseTemplateFieldToken(word) ELSE parseLiteralToken(word)

\* A text that may stand between commas, and is read as it is.
Word(text) == text \in Text /\ text # <<>> /\ Tight(text) /\ Even(text)

LEMMA WordsAreDistinct ==
    \A w \in {"true", "false", "string", "int", "bool"} : w \in Runes /\ w \notin Syntax
<1>1. \A w \in {"true", "false", "string", "int", "bool"} : w \notin Syntax
  BY Zenon DEF Syntax, Quote, Backslash, Comma, Space, Colon, Open, Close, Question
<1> QED  BY <1>1, RunesAssumption

LEMMA Ends ==
    ASSUME NEW a \in Text, NEW b \in Text
    PROVE  /\ a # <<>> => a \o b # <<>> /\ Head(a \o b) = Head(a)
           /\ b # <<>> => a \o b # <<>> /\ Last(a \o b) = Last(b)
<1> DEFINE m == Len(a)
           n == Len(b)
           whole == a \o b
<1>1. m \in Nat /\ n \in Nat /\ whole \in Text /\ Len(whole) = m + n
      /\ (a # <<>> => m >= 1) /\ (b # <<>> => n >= 1)
  <2>1. m \in Nat /\ n \in Nat /\ whole \in Text /\ Len(whole) = m + n
    BY Joins
  <2> QED  BY <2>1 DEF Text
<1>2. \A i \in 1..(m + n) : whole[i] = IF i \leq m THEN a[i] ELSE b[i - m]
  BY RuneAt
<1> HIDE DEF m, n, whole
<1>3. ASSUME a # <<>>  PROVE whole # <<>> /\ Head(whole) = Head(a)
  <2>1. whole[1] = a[1] /\ Len(whole) # 0
    BY <1>1, <1>2, <1>3
  <2>2. whole # <<>>
    BY <2>1, Joins
  <2> QED  BY <1>1, <1>3, <2>1, <2>2 DEF Text
<1>4. ASSUME b # <<>>  PROVE whole # <<>> /\ Last(whole) = Last(b)
  <2>1. whole[m + n] = b[n] /\ Len(whole) # 0
    BY <1>1, <1>2, <1>4
  <2>2. whole # <<>>
    BY <2>1, Joins
  <2> QED  BY <1>1, <2>1, <2>2 DEF Last, n
<1> QED  BY <1>3, <1>4 DEF whole

LEMMA OneRune == ASSUME NEW r \in Runes PROVE Head(<<r>>) = r /\ Last(<<r>>) = r /\ <<r>> # <<>> /\ <<r>> \in Text
  BY Joins DEF Last

Colons(token) == {i \in DOMAIN token : token[i] = Colon}

\* A formal is cut at its first colon.
LEMMA Cut ==
    ASSUME NEW left \in Text, NEW right \in Text, \A i \in DOMAIN left : left[i] # Colon,
           NEW token, token = (<<Question>> \o left) \o (<<Colon>> \o right)
    PROVE  /\ Colons(token) # {}
           /\ SubSeq(token, 2, Min(Colons(token)) - 1) = left
           /\ SubSeq(token, Min(Colons(token)) + 1, Len(token)) = right
<1> DEFINE m == Len(left)
           n == Len(right)
           head == <<Question>> \o left
           tail == <<Colon>> \o right
           colons == {i \in DOMAIN token : token[i] = Colon}
<1>0. Question \in Runes /\ Colon \in Runes /\ Question # Colon
  BY Distinct DEF Syntax
<1>1. <<Question>> \in Text /\ <<Colon>> \in Text /\ Len(<<Question>>) = 1 /\ Len(<<Colon>>) = 1
      /\ m \in Nat /\ n \in Nat /\ DOMAIN left = 1..m
  BY <1>0, Joins
<1>2. head \in Text /\ Len(head) = m + 1 /\ tail \in Text /\ Len(tail) = n + 1
  BY <1>1, Joins
<1>3. head[1] = Question /\ \A i \in 2..(m + 1) : head[i] = left[i - 1]
  BY <1>1, RuneAt
<1>4. tail[1] = Colon /\ \A i \in 2..(n + 1) : tail[i] = right[i - 1]
  BY <1>1, RuneAt
<1>5. token = head \o tail
  OBVIOUS
<1> HIDE DEF head, tail
<1>6. token \in Text /\ Len(token) = m + n + 2
  BY <1>1, <1>2, <1>5, Joins
<1>7. \A i \in 1..(m + n + 2) : token[i] = IF i \leq m + 1 THEN head[i] ELSE tail[i - (m + 1)]
  BY <1>1, <1>2, <1>5, RuneAt
<1>8. DOMAIN token = 1..(m + n + 2) /\ (\A i \in 1..(m + n + 2) : token[i] \in Runes)
      /\ (\A i \in 1..m : left[i] \in Runes)
  BY <1>1, <1>6, Joins
<1>9. m + 2 \in colons /\ \A i \in colons : m + 2 <= i
  <2>1. token[m + 2] = Colon
    BY <1>1, <1>4, <1>7
  <2>2. \A i \in 1..(m + 1) : token[i] # Colon
    <3>1. \A i \in 2..(m + 1) : i - 1 \in DOMAIN left /\ token[i] = left[i - 1]
      BY <1>1, <1>3, <1>7
    <3>2. token[1] = Question
      BY <1>1, <1>3, <1>7
    <3>3. ASSUME NEW i \in 2..(m + 1)  PROVE token[i] # Colon
      <4>1. i - 1 \in DOMAIN left /\ token[i] = left[i - 1]
        BY <3>1
      <4> QED  BY <4>1
    <3>4. \A i \in 1..(m + 1) : i = 1 \/ i \in 2..(m + 1)
      BY <1>1
    <3> QED  BY <1>0, <3>2, <3>3, <3>4
  <2>3. \A i \in 1..(m + n + 2) : token[i] = Colon => m + 2 <= i
    BY <1>1, <2>2
  <2> QED  BY <1>1, <1>8, <2>1, <2>3
<1>10. Min(colons) = m + 2
  <2>1. \A i \in colons : i \in Int
    BY <1>8
  <2> HIDE DEF colons
  <2>2. Min(colons) \in colons /\ \A i \in colons : Min(colons) <= i
    BY <1>9 DEF Min
  <2>3. Min(colons) <= m + 2 /\ m + 2 <= Min(colons) /\ Min(colons) \in Int /\ m + 2 \in Int
    BY <1>9, <2>1, <2>2
  <2>4. \A x, y \in Int : x <= y /\ y <= x => x = y
    OBVIOUS
  <2> QED  BY <2>3, <2>4
<1>11. SubSeq(token, 2, m + 1) = left
  <2>1. \A i \in 2..(m + 1) : token[i] \in Runes
    BY <1>1, <1>8
  <2>2. /\ SubSeq(token, 2, m + 1) \in Seq(Runes)
        /\ Len(SubSeq(token, 2, m + 1)) = m
        /\ \A i \in 1..m : SubSeq(token, 2, m + 1)[i] = token[i + 1]
    BY <1>1, <2>1, SubSeqProperties
  <2>3. \A i \in 1..m : token[i + 1] = left[i]
    BY <1>1, <1>3, <1>7
  <2> QED  BY <2>2, <2>3, SeqEqual DEF m, Text
<1>12. SubSeq(token, m + 3, m + n + 2) = right
  <2>1. \A i \in (m + 3)..(m + n + 2) : token[i] \in Runes
    BY <1>1, <1>8
  <2>2. /\ SubSeq(token, m + 3, m + n + 2) \in Seq(Runes)
        /\ Len(SubSeq(token, m + 3, m + n + 2)) = n
        /\ \A i \in 1..n : SubSeq(token, m + 3, m + n + 2)[i] = token[i + (m + 2)]
    BY <1>1, <2>1, SubSeqProperties
  <2>3. \A i \in 1..n : token[i + (m + 2)] = right[i]
    BY <1>1, <1>4, <1>7
  <2> QED  BY <2>2, <2>3, SeqEqual DEF n, Text
<1> HIDE DEF colons
<1>13. Min(colons) - 1 = m + 1 /\ Min(colons) + 1 = m + 3
  BY <1>1, <1>10
<1>14. colons # {}
  BY <1>9
<1> QED  BY <1>6, <1>11, <1>12, <1>13, <1>14 DEF colons, Colons

\* Named, because a prover that takes \o apart by itself does not come to an end.
Associates(u, v, w) == (u \o v) \o w = u \o (v \o w)
Regroups(q, a, name, b, colon, c, type) ==
    q \o a \o name \o b \o colon \o c \o type = (q \o (a \o name \o b)) \o (colon \o (c \o type))

LEMMA Associative == \A u, v, w \in Text : Associates(u, v, w)
<1>1. \A u, v, w \in Text : (u \o v) \o w = u \o (v \o w)
  BY Joins
<1> QED  BY <1>1 DEF Associates

LEMMA Regrouped ==
    ASSUME NEW q \in Text, NEW a \in Text, NEW name \in Text, NEW b \in Text,
           NEW colon \in Text, NEW c \in Text, NEW type \in Text
    PROVE  Regroups(q, a, name, b, colon, c, type)
<1>1. a \o name \in Text
  BY Joins
<1>2. a \o name \o b \in Text
  BY <1>1, Joins
<1> DEFINE x == q \o (a \o name \o b)
<1>3. x \in Text
  BY <1>2, Joins
<1>4. Associates(q, a, name) /\ Associates(q, a \o name, b)
  BY <1>1, Associative
<1>5. x = ((q \o a) \o name) \o b
  BY <1>4, Zenon DEF Associates
<1> HIDE DEF x
<1>6. x \o colon \in Text /\ c \o type \in Text
  BY <1>3, Joins
<1>7. Associates(x \o colon, c, type) /\ Associates(x, colon, c \o type)
  BY <1>3, <1>6, Associative
<1>8. ((x \o colon) \o c) \o type = x \o (colon \o (c \o type))
  BY <1>7, Zenon DEF Associates
<1> QED  BY <1>5, <1>8, Zenon DEF x, Regroups

LEMMA NoColon ==
    ASSUME NEW a \in Text, NEW b \in Text, NEW c \in Text,
           \A i \in DOMAIN a : a[i] # Colon, \A i \in DOMAIN b : b[i] # Colon,
           \A i \in DOMAIN c : c[i] # Colon
    PROVE  \A i \in DOMAIN (a \o b \o c) : (a \o b \o c)[i] # Colon
<1>1. ASSUME NEW x \in Text, NEW y \in Text,
             \A i \in DOMAIN x : x[i] # Colon, \A i \in DOMAIN y : y[i] # Colon
      PROVE  x \o y \in Text /\ \A i \in DOMAIN (x \o y) : (x \o y)[i] # Colon
  <2>1. x \o y \in Text /\ Len(x) \in Nat /\ Len(y) \in Nat /\ DOMAIN x = 1..Len(x) /\ DOMAIN y = 1..Len(y)
        /\ Len(x \o y) = Len(x) + Len(y) /\ DOMAIN (x \o y) = 1..Len(x \o y)
    BY Joins
  <2>2. ASSUME NEW i \in 1..(Len(x) + Len(y))  PROVE (x \o y)[i] # Colon
    <3>1. CASE i \leq Len(x)
      <4>1. i \in DOMAIN x /\ (x \o y)[i] = x[i]
        BY <2>1, <3>1, RuneAt
      <4> QED  BY <1>1, <4>1
    <3>2. CASE ~(i \leq Len(x))
      <4>1. i - Len(x) \in DOMAIN y /\ (x \o y)[i] = y[i - Len(x)]
        BY <2>1, <3>2, RuneAt
      <4> QED  BY <1>1, <4>1
    <3> QED  BY <3>1, <3>2
  <2> QED  BY <2>1, <2>2
<1>2. a \o b \in Text /\ \A i \in DOMAIN (a \o b) : (a \o b)[i] # Colon
  BY <1>1
<1> QED  BY <1>1, <1>2

LEMMA LiteralToken ==
    ASSUME NEW spec \in {"tuple", "template"}, NEW word,
           spec = "template" => Head(word) # Question
    PROVE  Token(spec, word) = parseLiteralToken(word)
  BY DEF Token, parseTemplateFieldToken

LEMMA QuotedWord ==
    ASSUME NEW spec \in {"tuple", "template"}, NEW value \in Text
    PROVE  Word(Quoted(value)) /\ Token(spec, Quoted(value)) = Actual("string", value)
<1> DEFINE word == Quoted(value)
<1>1. Quote \in Runes /\ Quote # Space /\ Quote # Question
  BY Distinct DEF Syntax
<1>2. Escaped(value) \in Text /\ Len(Escaped(value)) \in Nat
  BY EscapedIsRead, Joins
<1>3. /\ word \in Text /\ word # <<>> /\ Len(word) = Len(Escaped(value)) + 2
      /\ Head(word) = Quote /\ Last(word) = Quote
      /\ SubSeq(word, 2, Len(word) - 1) = Escaped(value)
  BY <1>1, <1>2, Wrapped DEF Quoted
<1>4. Even(word)
  BY EvenQuoted
<1> HIDE DEF word
<1>5. Unquote(SubSeq(word, 2, Len(word) - 1)) = [value |-> value, ok |-> TRUE]
  BY <1>3, UnquoteEscaped
<1>6. parseString(word) = Actual("string", value)
  <2>1. Len(word) >= 2
    BY <1>2, <1>3
  <2> QED  BY <1>3, <1>5, <2>1 DEF parseString
<1>7. Token(spec, word) = Actual("string", value)
  <2>1. parseLiteralToken(word) = Actual("string", value)
    BY <1>3, <1>6 DEF parseLiteralToken
  <2> QED  BY <1>1, <1>3, <2>1, LiteralToken
<1>8. Word(word)
  BY <1>1, <1>3, <1>4 DEF Word, Tight
<1> QED  BY <1>7, <1>8 DEF word

LEMMA BareWord ==
    ASSUME NEW spec \in {"tuple", "template"}, NEW word, Bare(spec, word)
    PROVE  Word(word) /\ Token(spec, word) = Actual("string", word)
<1>1. word \in Text /\ word # <<>> /\ Plain(word) /\ Tight(word)
  BY DEF Bare, Text
<1>2. Len(word) \in Nat \ {0} /\ Head(word) = word[1] /\ DOMAIN word = 1..Len(word)
  BY <1>1 DEF Text
<1>3. Head(word) # Quote
  BY <1>1, <1>2 DEF Plain
<1>4. Len(word) = 1 => word = <<word[1]>>
  BY <1>1 DEF Text
<1>5. word \notin {<<"true">>, <<"false">>} /\ ~(Len(word) = 1 /\ word[1] \in Numerals)
  BY <1>4 DEF Bare
<1>6. parseLiteralToken(word) = Actual("string", word)
  BY <1>3, <1>5, Zenon DEF parseLiteralToken
<1>7. Token(spec, word) = Actual("string", word)
  BY <1>6, LiteralToken DEF Bare
<1>8. Even(word)
  BY <1>1, EvenPlain
<1> QED  BY <1>1, <1>7, <1>8 DEF Word

\* A word of one rune that is none of the syntax.
LEMMA SingleWord ==
    ASSUME NEW spec \in {"tuple", "template"}, NEW r \in Runes, r \notin Syntax
    PROVE  Word(<<r>>) /\ Token(spec, <<r>>) = parseLiteralToken(<<r>>) /\ Head(<<r>>) # Quote
<1>1. Head(<<r>>) = r /\ Last(<<r>>) = r /\ <<r>> # <<>> /\ <<r>> \in Text
  BY OneRune
<1>2. r \notin {Quote, Comma, Space, Question}
  BY DEF Syntax
<1>3. Plain(<<r>>)
  BY <1>2 DEF Plain
<1>4. Even(<<r>>)
  BY <1>1, <1>3, EvenPlain
<1>5. Token(spec, <<r>>) = parseLiteralToken(<<r>>)
  BY <1>1, <1>2, LiteralToken
<1> QED  BY <1>1, <1>2, <1>4, <1>5 DEF Word, Tight

LEMMA NumeralWord ==
    ASSUME NEW spec \in {"tuple", "template"}, NEW n \in Numerals
    PROVE  Word(<<n>>) /\ Token(spec, <<n>>) = Actual("int", <<IntOf[n]>>)
<1>1. n \in Runes /\ n \notin Syntax /\ n # "true" /\ n # "false"
  BY RunesAssumption
<1>2. Word(<<n>>) /\ Token(spec, <<n>>) = parseLiteralToken(<<n>>) /\ Head(<<n>>) # Quote
  BY <1>1, SingleWord
<1>3. <<n>> \notin {<<"true">>, <<"false">>} /\ Len(<<n>>) = 1 /\ <<n>>[1] = n
  BY <1>1
<1>4. parseLiteralToken(<<n>>) = Actual("int", <<IntOf[n]>>)
  BY <1>2, <1>3, Zenon DEF parseLiteralToken
<1> QED  BY <1>2, <1>4

LEMMA BooleanWord ==
    ASSUME NEW spec \in {"tuple", "template"}, NEW b \in {"true", "false"}
    PROVE  Word(<<b>>) /\ Token(spec, <<b>>) = Actual("bool", <<b>>)
<1>1. b \in Runes /\ b \notin Syntax
  BY WordsAreDistinct
<1>2. Word(<<b>>) /\ Token(spec, <<b>>) = parseLiteralToken(<<b>>) /\ Head(<<b>>) # Quote
  BY <1>1, SingleWord
<1>3. <<b>> \in {<<"true">>, <<"false">>}
  OBVIOUS
<1>4. parseLiteralToken(<<b>>) = Actual("bool", <<b>>)
  BY <1>2, <1>3, Zenon DEF parseLiteralToken
<1> QED  BY <1>2, <1>4

LEMMA FormalIsCut ==
    ASSUME NEW name \in Text, NEW type \in Text, NEW word \in FormalText(name, type),
           Plain(name), Tight(name), \A i \in DOMAIN name : name[i] # Colon,
           Plain(type), Tight(type)
    PROVE  /\ word \in Text /\ word # <<>> /\ Even(word) /\ Head(word) = Question
           /\ type # <<>> => Last(word) = Last(type)
           /\ Token("template", word) =
                  IF name # <<>> /\ type \in {<<"string">>, <<"int">>, <<"bool">>}
                  THEN Formal(type[1], name) ELSE BadField
<1>1. PICK n \in Nat \X Nat \X Nat :
          word = <<Question>> \o Pad(n[1]) \o name \o Pad(n[2]) \o <<Colon>> \o Pad(n[3]) \o type
  BY DEF FormalText
<1> DEFINE A == Pad(n[1])
           B == Pad(n[2])
           C == Pad(n[3])
           left == A \o name \o B
           right == C \o type
<1>0. Question \in Runes /\ Colon \in Runes /\ Space \in Runes /\ Question \notin {Quote, Comma} /\ Colon \notin {Quote, Comma}
      /\ Space # Colon
  BY Distinct DEF Syntax
<1>2. n[1] \in Nat /\ n[2] \in Nat /\ n[3] \in Nat
  OBVIOUS
<1>3. A \in Text /\ B \in Text /\ C \in Text /\ Plain(A) /\ Plain(B) /\ Plain(C)
  BY <1>2, PadIsPlain
<1>4. Padded(left, name)
  BY <1>2 DEF Padded
<1>5. Padded(right, type)
  <2>1. Pad(0) = <<>>
    BY DEF Pad
  <2>2. C \o type \in Text
    BY <1>3, Joins
  <2>3. right = (C \o type) \o Pad(0)
    BY <2>1, <2>2, Joins
  <2> QED  BY <1>2, <2>3 DEF Padded
<1>6. left \in Text /\ Plain(left) /\ TrimSpace(left) = name
  BY <1>4, PaddedText, PaddedTrims
<1>7. right \in Text /\ Plain(right) /\ TrimSpace(right) = type
  BY <1>5, PaddedText, PaddedTrims
<1>8. \A i \in DOMAIN left : left[i] # Colon
  <2>1. \A i \in DOMAIN A : A[i] # Colon
    BY <1>0 DEF Pad
  <2>2. \A i \in DOMAIN B : B[i] # Colon
    BY <1>0 DEF Pad
  <2> HIDE DEF A, B
  <2> QED  BY <1>3, <2>1, <2>2, NoColon
<1>9. <<Question>> \in Text /\ <<Colon>> \in Text
  BY <1>0, Joins
<1>10. word = (<<Question>> \o left) \o (<<Colon>> \o right)
  <2> HIDE DEF A, B, C
  <2>1. word = <<Question>> \o A \o name \o B \o <<Colon>> \o C \o type
    BY <1>1, Zenon DEF A, B, C
  <2>2. Regroups(<<Question>>, A, name, B, <<Colon>>, C, type)
    BY <1>3, <1>9, Regrouped
  <2> QED  BY <2>1, <2>2, Zenon DEF Regroups
<1> HIDE DEF left, right
<1>11. <<Question>> \o left \in Text /\ <<Question>> \o left # <<>> /\ Head(<<Question>> \o left) = Question
       /\ Plain(<<Question>> \o left)
  <2>1. Head(<<Question>>) = Question /\ <<Question>> # <<>>
    BY <1>0, OneRune
  <2>2. Plain(<<Question>>)
    BY <1>0 DEF Plain
  <2> QED  BY <1>6, <1>9, <2>1, <2>2, Ends, Joins, PlainJoin
<1>12. <<Colon>> \o right \in Text /\ Plain(<<Colon>> \o right)
  <2>1. Plain(<<Colon>>)
    BY <1>0 DEF Plain
  <2> QED  BY <1>7, <1>9, <2>1, Joins, PlainJoin
<1>13. word \in Text /\ word # <<>> /\ Head(word) = Question /\ Plain(word)
  BY <1>10, <1>11, <1>12, Ends, Joins, PlainJoin
<1>14. ASSUME type # <<>>  PROVE Last(word) = Last(type)
  <2>1. right # <<>> /\ Last(right) = Last(type)
    BY <1>3, <1>14, Ends DEF right
  <2>2. <<Colon>> \o right # <<>> /\ Last(<<Colon>> \o right) = Last(right)
    BY <1>7, <1>9, <2>1, Ends
  <2> QED  BY <1>10, <1>11, <1>12, <2>1, <2>2, Ends
<1>15. /\ Colons(word) # {} /\ SubSeq(word, 2, Min(Colons(word)) - 1) = left
       /\ SubSeq(word, Min(Colons(word)) + 1, Len(word)) = right
  BY <1>6, <1>7, <1>8, <1>10, Cut
<1>16. parseFormalToken(word) = IF name # <<>> /\ type \in {<<"string">>, <<"int">>, <<"bool">>}
                                THEN Formal(type[1], name) ELSE BadField
  BY <1>6, <1>7, <1>15 DEF parseFormalToken, Colons
<1>17. Token("template", word) = parseFormalToken(word)
  BY <1>13 DEF Token, parseTemplateFieldToken
<1> QED  BY <1>13, <1>14, <1>16, <1>17, EvenPlain

LEMMA SpelledIsRead ==
    ASSUME NEW spec \in {"tuple", "template"}, NEW word, NEW f, Spells(spec, word, f)
    PROVE  Word(word) /\ Token(spec, word) = f /\ f # BadField
<1>0. \A type, value : Actual(type, value) # BadField /\ Formal(type, value) # BadField
  BY DEF Actual, Formal, BadField
<1>1. CASE \E value \in Seq(Runes) : word = Quoted(value) /\ f = Actual("string", value)
  BY <1>0, <1>1, QuotedWord DEF Text
<1>2. CASE Bare(spec, word) /\ f = Actual("string", word)
  BY <1>0, <1>2, BareWord
<1>3. CASE \E n \in Numerals : word = <<n>> /\ f = Actual("int", <<IntOf[n]>>)
  BY <1>0, <1>3, NumeralWord
<1>4. CASE \E b \in {"true", "false"} : word = <<b>> /\ f = Actual("bool", <<b>>)
  BY <1>0, <1>4, BooleanWord
<1>5. ASSUME spec = "template", NEW name \in Seq(Runes), NEW type \in Types,
             word \in FormalText(name, <<type>>), f = Formal(type, name),
             name # <<>>, Plain(name), Tight(name), \A i \in DOMAIN name : name[i] # Colon
      PROVE  Word(word) /\ Token(spec, word) = f
  <2>1. type \in Runes /\ type \notin Syntax
    BY WordsAreDistinct DEF Types
  <2>2. type \notin {Quote, Comma, Space}
    BY <2>1 DEF Syntax
  <2>3. <<type>> \in Text /\ Head(<<type>>) = type /\ Last(<<type>>) = type /\ <<type>> # <<>>
    BY <2>1, OneRune
  <2>4. Plain(<<type>>) /\ Tight(<<type>>)
    BY <2>2, <2>3 DEF Plain, Tight
  <2>5. /\ word \in Text /\ word # <<>> /\ Even(word) /\ Head(word) = Question /\ Last(word) = type
        /\ Token("template", word) =
               IF name # <<>> /\ <<type>> \in {<<"string">>, <<"int">>, <<"bool">>}
               THEN Formal(<<type>>[1], name) ELSE BadField
    <3>1. name \in Text
      BY <1>5 DEF Text
    <3>2. \A i \in DOMAIN name : name[i] # Colon
      BY <1>5
    <3>3. /\ word \in Text /\ word # <<>> /\ Even(word) /\ Head(word) = Question
          /\ <<type>> # <<>> => Last(word) = Last(<<type>>)
          /\ Token("template", word) =
                 IF name # <<>> /\ <<type>> \in {<<"string">>, <<"int">>, <<"bool">>}
                 THEN Formal(<<type>>[1], name) ELSE BadField
      BY <1>5, <2>3, <2>4, <3>1, <3>2, FormalIsCut
    <3> QED  BY <2>3, <3>3
  <2>6. <<type>> \in {<<"string">>, <<"int">>, <<"bool">>} /\ <<type>>[1] = type
    BY DEF Types
  <2>7. Token("template", word) = Formal(type, name)
    BY <1>5, <2>5, <2>6
  <2>8. Question # Space
    BY Distinct
  <2> QED  BY <1>5, <2>2, <2>5, <2>7, <2>8 DEF Word, Tight
<1> QED  BY <1>0, <1>1, <1>2, <1>3, <1>4, <1>5 DEF Spells

LEMMA MisspeltIsRefused ==
    ASSUME NEW spec \in {"tuple", "template"}, NEW word, Misspelt(spec, word)
    PROVE  Word(word) /\ Token(spec, word) = BadField
<1>0. Tight(word)
  BY DEF Misspelt
<1>1. ASSUME NEW value \in Text, NEW rest \in Text, word = Quoted(value) \o rest, rest # <<>>, Plain(rest)
      PROVE  Word(word) /\ Token(spec, word) = BadField
  <2>1. Quoted(value) \in Text /\ Even(Quoted(value)) /\ Even(rest)
    BY <1>1, EvenQuoted, EvenPlain
  <2>2. word \in Text /\ Even(word)
    BY <1>1, <2>1, EvenJoin, Joins
  <2>3. Quoted(value) # <<>> /\ Head(Quoted(value)) = Quote
    <3>1. Quote \in Runes /\ Escaped(value) \in Text
      BY Distinct, EscapedIsRead DEF Syntax
    <3> QED  BY <3>1, Wrapped DEF Quoted
  <2>4. word # <<>> /\ Head(word) = Quote /\ Last(word) = Last(rest)
    BY <1>1, <2>1, <2>3, Ends
  <2>5. Last(rest) # Quote
    <3>1. Len(rest) \in DOMAIN rest
      BY <1>1 DEF Text
    <3> QED  BY <1>1, <3>1 DEF Plain, Last
  <2>6. parseLiteralToken(word) = BadField
    BY <2>4, <2>5 DEF parseLiteralToken, parseString
  <2>7. Quote # Question
    BY Distinct
  <2> QED  BY <1>0, <2>2, <2>4, <2>6, <2>7, LiteralToken DEF Word
<1>2. ASSUME spec = "template", NEW rest \in Text, word = <<Question>> \o rest, Plain(rest),
             \A i \in DOMAIN rest : rest[i] # Colon
      PROVE  Word(word) /\ Token(spec, word) = BadField
  <2>1. Question \in Runes /\ Question \notin {Quote, Comma} /\ Question # Colon
    BY Distinct DEF Syntax
  <2>2. <<Question>> \in Text /\ <<>> \in Text /\ Head(<<Question>>) = Question /\ <<Question>> # <<>>
    BY <2>1, OneRune, Joins
  <2>3. Plain(<<Question>>) /\ \A i \in DOMAIN <<Question>> : <<Question>>[i] # Colon
    BY <2>1 DEF Plain
  <2>4. word \in Text /\ word # <<>> /\ Plain(word) /\ Head(word) = Question
    BY <1>2, <2>2, <2>3, PlainJoin, Ends, Joins
  <2>5. Colons(word) = {}
    <3>1. word = <<>> \o <<Question>> \o rest
      BY <1>2, <2>2, Joins
    <3>2. \A i \in DOMAIN (<<>> \o <<Question>> \o rest) : (<<>> \o <<Question>> \o rest)[i] # Colon
      BY <1>2, <2>2, <2>3, NoColon
    <3> QED  BY <3>1, <3>2 DEF Colons
  <2>6. parseFormalToken(word) = BadField
    BY <2>5, Zenon DEF parseFormalToken, Colons
  <2>7. Token(spec, word) = BadField
    BY <1>2, <2>4, <2>6 DEF Token, parseTemplateFieldToken
  <2>8. Even(word)
    BY <2>4, EvenPlain
  <2> QED  BY <1>0, <2>4, <2>7, <2>8 DEF Word
<1>3. ASSUME spec = "template", NEW name \in Text, NEW type \in Text, word \in FormalText(name, type),
             Plain(name), Tight(name), \A i \in DOMAIN name : name[i] # Colon,
             Plain(type), Tight(type), name = <<>> \/ type \notin {<<t>> : t \in Types}
      PROVE  Word(word) /\ Token(spec, word) = BadField
  <2>0. \A i \in DOMAIN name : name[i] # Colon
    BY <1>3
  <2>1. /\ word \in Text /\ word # <<>> /\ Even(word)
        /\ Token("template", word) =
               IF name # <<>> /\ type \in {<<"string">>, <<"int">>, <<"bool">>}
               THEN Formal(type[1], name) ELSE BadField
    BY <1>3, <2>0, FormalIsCut
  <2>2. name = <<>> \/ type \notin {<<"string">>, <<"int">>, <<"bool">>}
    BY <1>3 DEF Types
  <2> QED  BY <1>0, <1>3, <2>1, <2>2 DEF Word
<1> QED  BY <1>1, <1>2, <1>3 DEF Misspelt, Text

-------------------------------------------------------------------------------
(* Specs *)

Parsed(spec, text) == IF spec = "template" THEN ParseTemplateSpec(text) ELSE ParseTupleSpec(text)

Tokens(spec, words) == [i \in 1..Len(words) |-> Token(spec, words[i])]

LEMMA TokensAreParsed ==
    ASSUME NEW spec \in {"tuple", "template"}, NEW text, NEW words \in Seq(Text), splitSpecFields(text) = words
    PROVE  Parsed(spec, text) = IF Contains(Tokens(spec, words), BadField) THEN NoFields ELSE Tokens(spec, words)
<1>0. DOMAIN words = 1..Len(words)
  OBVIOUS
<1>1. CASE spec = "template"
  <2>1. Tokens(spec, words) = [i \in DOMAIN words |-> parseTemplateFieldToken(words[i])]
    BY <1>0, <1>1 DEF Tokens, Token
  <2>2. Parsed(spec, text) = ParseTemplateSpec(text)
    BY <1>1 DEF Parsed
  <2> QED  BY <2>1, <2>2, Zenon DEF ParseTemplateSpec, ParseSpec
<1>2. CASE spec = "tuple"
  <2>1. Tokens(spec, words) = [i \in DOMAIN words |-> parseLiteralToken(words[i])]
    BY <1>0, <1>2 DEF Tokens, Token
  <2>2. Parsed(spec, text) = ParseTupleSpec(text)
    BY <1>2 DEF Parsed
  <2> QED  BY <2>1, <2>2, Zenon DEF ParseTupleSpec, ParseSpec
<1> QED  BY <1>1, <1>2

LEMMA NothingIsParsed ==
    ASSUME NEW spec \in {"tuple", "template"}, NEW text, splitSpecFields(text) = NoFields
    PROVE  Parsed(spec, text) = NoFields
<1>1. NoFields \in Seq(Text) /\ Len(NoFields) = 0
  BY DEF NoFields
<1>2. Parsed(spec, text) = IF Contains(Tokens(spec, NoFields), BadField) THEN NoFields ELSE Tokens(spec, NoFields)
  BY <1>1, TokensAreParsed
<1>3. Tokens(spec, NoFields) = <<>>
  BY <1>1 DEF Tokens
<1> QED  BY <1>2, <1>3 DEF NoFields

LEMMA EmptyIsEven == <<>> \in Text /\ Tight(<<>>) /\ Even(<<>>)
<1>1. <<>> \in Text /\ Plain(<<>>) /\ Tight(<<>>)
  BY DEF Text, Plain, Tight
<1> QED  BY <1>1, EvenPlain

\* A piece is its word with spaces around it.
LEMMA PieceIsTrimmed ==
    ASSUME NEW piece, NEW word, Padded(piece, word), word = <<>> \/ Word(word)
    PROVE  TrimSpace(piece) = word /\ Even(piece) /\ word \in Text
<1>1. word \in Text /\ Tight(word) /\ Even(word)
  BY EmptyIsEven DEF Word
<1> QED  BY <1>1, PaddedText, PaddedTrims

Trimmed(pieces) == [i \in 1..Len(pieces) |-> TrimSpace(pieces[i])]

\* The text of fields is read as those fields: with spaces, quotes and escapes, parentheses
\* and formals, whatever its length.
THEOREM WrittenIsRead ==
    ASSUME NEW spec \in {"tuple", "template"}, NEW S, NEW fields \in Seq(S), NEW text,
           Writes(spec, text, fields)
    PROVE  Parsed(spec, text) = fields
<1>1. PICK pieces \in Seq(Text) :
          /\ Len(pieces) = Len(fields) /\ pieces # <<>>
          /\ \A i \in DOMAIN pieces :
                 \E word : Spells(spec, word, fields[i]) /\ Padded(pieces[i], word)
          /\ Encloses(text, Separated(pieces))
  BY DEF Writes, Text
<1> DEFINE words == Trimmed(pieces)
           N == Len(pieces)
<1>2. N \in Nat /\ DOMAIN pieces = 1..N /\ DOMAIN fields = 1..N
  BY <1>1
<1>3. ASSUME NEW i \in 1..N
      PROVE  /\ TrimSpace(pieces[i]) = words[i] /\ words[i] \in Text /\ words[i] # <<>> /\ Even(pieces[i])
             /\ Token(spec, words[i]) = fields[i] /\ fields[i] # BadField
  <2>1. PICK word : Spells(spec, word, fields[i]) /\ Padded(pieces[i], word)
    BY <1>1, <1>2
  <2>2. Word(word) /\ Token(spec, word) = fields[i] /\ fields[i] # BadField
    BY <2>1, SpelledIsRead
  <2>3. TrimSpace(pieces[i]) = word /\ Even(pieces[i])
    BY <2>1, <2>2, PieceIsTrimmed
  <2>4. words[i] = word
    BY <2>3 DEF Trimmed
  <2> QED  BY <2>2, <2>3, <2>4 DEF Word
<1>4. words \in [1..N -> Text]
  BY <1>3 DEF Trimmed
<1> HIDE DEF words
<1>5. words \in Seq(Text) /\ Len(words) = N
  BY <1>2, <1>4
<1>6. ~Contains(words, <<>>)
  BY <1>3, <1>5 DEF Contains
<1>7. splitSpecFields(text) = words
  <2>1. splitSpecFields(text) = IF Contains(words, <<>>) THEN NoFields ELSE words
    BY <1>1, <1>3, <1>5, FieldsAreSplit
  <2> QED  BY <1>6, <2>1
<1>8. Tokens(spec, words) = fields
  <2>1. \A i \in 1..N : Token(spec, words[i]) = fields[i]
    BY <1>3
  <2>2. Tokens(spec, words) = [i \in 1..N |-> fields[i]]
    BY <1>5, <2>1 DEF Tokens
  <2> QED  BY <1>2, <2>2
<1>9. ~Contains(fields, BadField)
  BY <1>1, <1>3 DEF Contains
<1> QED  BY <1>5, <1>7, <1>8, <1>9, TokensAreParsed

\* A malformed text is read as no fields.
THEOREM MalformedIsRefused ==
    ASSUME NEW spec \in {"tuple", "template"}, NEW text, Malformed(spec, text)
    PROVE  Parsed(spec, text) = NoFields
<1>1. PICK pieces \in Seq(Text) :
          /\ pieces # <<>>
          /\ Encloses(text, Separated(pieces))
          /\ \/ /\ \A i \in DOMAIN pieces : Right(spec, pieces[i]) \/ Wrong(spec, pieces[i])
                /\ \E i \in DOMAIN pieces : Wrong(spec, pieces[i])
             \/ /\ \A i \in 1..(Len(pieces) - 1) : Right(spec, pieces[i]) \/ Wrong(spec, pieces[i])
                /\ \E a \in Nat, value \in Seq(Runes) :
                       pieces[Len(pieces)] = Pad(a) \o <<Quote>> \o Escaped(value)
  BY DEF Malformed, Text
<1> DEFINE N == Len(pieces)
<1>2. N \in Nat \ {0} /\ DOMAIN pieces = 1..N
  BY <1>1
<1>3. ASSUME NEW i \in 1..N, Right(spec, pieces[i]) \/ Wrong(spec, pieces[i])
      PROVE  TrimSpace(pieces[i]) \in Text /\ Even(pieces[i])
  <2>1. PICK word : Padded(pieces[i], word) /\ (word = <<>> \/ Word(word))
    BY <1>3, SpelledIsRead, MisspeltIsRefused DEF Right, Wrong
  <2> QED  BY <2>1, PieceIsTrimmed
<1>4. ASSUME NEW i \in 1..N, Wrong(spec, pieces[i])
      PROVE  TrimSpace(pieces[i]) = <<>> \/ Token(spec, TrimSpace(pieces[i])) = BadField
  <2>1. PICK word : Padded(pieces[i], word) /\ (word = <<>> \/ Misspelt(spec, word))
    BY <1>4 DEF Wrong
  <2>2. word = <<>> \/ (Word(word) /\ Token(spec, word) = BadField)
    BY <2>1, MisspeltIsRefused
  <2>3. TrimSpace(pieces[i]) = word
    BY <2>1, <2>2, PieceIsTrimmed
  <2> QED  BY <2>2, <2>3
<1>5. ASSUME \A i \in 1..N : Right(spec, pieces[i]) \/ Wrong(spec, pieces[i]),
             NEW j \in 1..N, Wrong(spec, pieces[j])
      PROVE  Parsed(spec, text) = NoFields
  <2> DEFINE words == Trimmed(pieces)
  <2>1. \A i \in 1..N : TrimSpace(pieces[i]) = words[i] /\ words[i] \in Text /\ Even(pieces[i])
    BY <1>3, <1>5 DEF Trimmed
  <2>2. words \in [1..N -> Text]
    BY <2>1 DEF Trimmed
  <2>3. words[j] = <<>> \/ Token(spec, words[j]) = BadField
    BY <1>4, <1>5, <2>1
  <2> HIDE DEF words
  <2>4. words \in Seq(Text) /\ Len(words) = N
    BY <1>2, <2>2
  <2>5. splitSpecFields(text) = IF Contains(words, <<>>) THEN NoFields ELSE words
    BY <1>1, <2>1, <2>4, FieldsAreSplit
  <2>6. CASE Contains(words, <<>>)
    BY <2>5, <2>6, NothingIsParsed
  <2>7. CASE ~Contains(words, <<>>)
    <3>1. Token(spec, words[j]) = BadField
      BY <2>3, <2>4, <2>7 DEF Contains
    <3>2. Len(Tokens(spec, words)) = N /\ Tokens(spec, words)[j] = BadField
      BY <1>2, <2>4, <3>1 DEF Tokens
    <3>3. Contains(Tokens(spec, words), BadField)
      BY <3>2 DEF Contains
    <3> QED  BY <2>4, <2>5, <2>7, <3>3, TokensAreParsed
  <2> QED  BY <2>6, <2>7
<1>6. ASSUME \A i \in 1..(N - 1) : Right(spec, pieces[i]) \/ Wrong(spec, pieces[i]),
             NEW a \in Nat, NEW value \in Text, pieces[N] = Pad(a) \o <<Quote>> \o Escaped(value)
      PROVE  Parsed(spec, text) = NoFields
  <2> DEFINE words == [i \in 1..N |-> IF i = N THEN <<>> ELSE TrimSpace(pieces[i])]
  <2>0. /\ \A i \in 1..(N - 1) : i \in 1..N /\ i # N
        /\ \A i \in 1..N : i = N \/ i \in 1..(N - 1)
    <3>1. \A n \in Nat : /\ \A i \in 1..(n - 1) : i \in 1..n /\ i # n
                        /\ \A i \in 1..n : i = n \/ i \in 1..(n - 1)
      OBVIOUS
    <3>2. N \in Nat
      BY <1>2
    <3> HIDE DEF N
    <3> QED  BY <3>1, <3>2
  <2>1. \A i \in 1..(N - 1) : i \in 1..N /\ i # N
    BY <2>0
  <2>2. \A i \in 1..(N - 1) : TrimSpace(pieces[i]) \in Text /\ Even(pieces[i])
    BY <1>3, <1>6, <2>1
  <2>3. \A i \in 1..(N - 1) : TrimSpace(pieces[i]) = words[i] /\ Even(pieces[i])
    BY <2>1, <2>2
  <2>4. words \in [1..N -> Text]
    <3>1. \A i \in 1..N : i = N \/ i \in 1..(N - 1)
      BY <2>0
    <3> QED  BY <2>2, <3>1, EmptyIsEven
  <2> HIDE DEF words
  <2>5. words \in Seq(Text) /\ Len(words) = N
    BY <1>2, <2>4
  <2>6. splitSpecFields(text) = NoFields
    BY <1>1, <1>6, <2>3, <2>5, FieldsDoNotEnd
  <2> QED  BY <2>6, NothingIsParsed
<1> QED  BY <1>1, <1>2, <1>5, <1>6 DEF Text

-------------------------------------------------------------------------------
(* There is a text for every tuple *)

Begins(text) == text = <<>> \/ Head(text) # Space

LEMMA BeginsOn ==
    ASSUME NEW a \in Text, NEW b \in Text, Begins(a), b # <<>>, Head(b) # Space
    PROVE  a \o b # <<>> /\ Head(a \o b) # Space
<1>1. CASE a = <<>>
  <2>1. a \o b = b
    BY <1>1, Joins
  <2> QED  BY <2>1
<1>2. CASE a # <<>>
  BY <1>2, Ends DEF Begins
<1> QED  BY <1>1, <1>2

LEMMA SeparatedIsTight ==
    ASSUME NEW pieces \in Seq(Text), pieces # <<>>, \A i \in 1..Len(pieces) : Word(pieces[i])
    PROVE  Separated(pieces) \in Text /\ Tight(Separated(pieces))
<1> DEFINE N == Len(pieces) - 1
           texts == [i \in 1..N |-> pieces[i] \o <<Comma>>]
           last == pieces[Len(pieces)]
<1>1. /\ Len(pieces) \in Nat \ {0} /\ N \in Nat /\ Len(pieces) \in 1..Len(pieces)
      /\ \A i \in 1..N : i \in 1..Len(pieces)
  BY EmptySeq
<1>2. \A i \in 1..Len(pieces) : /\ pieces[i] \in Text /\ pieces[i] # <<>>
                                /\ Head(pieces[i]) # Space /\ Last(pieces[i]) # Space
  BY DEF Word, Tight
<1>3. <<Comma>> \in Text
  <2>1. Comma \in Runes
    BY Distinct DEF Syntax
  <2> QED  BY <2>1, Joins
<1>4. \A i \in 1..N : /\ texts[i] \in Text /\ texts[i] # <<>> /\ Head(texts[i]) # Space
  <2> SUFFICES ASSUME NEW i \in 1..N
               PROVE  texts[i] \in Text /\ texts[i] # <<>> /\ Head(texts[i]) # Space
    OBVIOUS
  <2>1. pieces[i] \in Text /\ pieces[i] # <<>> /\ Head(pieces[i]) # Space
    BY <1>1, <1>2
  <2>2. pieces[i] \o <<Comma>> \in Text
    BY <1>3, <2>1, Joins
  <2>3. pieces[i] \o <<Comma>> # <<>> /\ Head(pieces[i] \o <<Comma>>) # Space
    BY <1>3, <2>1, Ends
  <2> QED  BY <2>2, <2>3
<1>5. Separated(pieces) = FlattenSeq(texts) \o last
  BY DEF Separated, Last
<1>6. texts \in [1..N -> Text]
  BY <1>4
<1> HIDE DEF texts
<1>7. texts \in Seq(Text) /\ Len(texts) = N
  <2>1. texts \in Seq(Text)
    BY <1>1, <1>6
  <2> QED  BY <1>1, <1>6, <2>1
<1>8. PICK e : Flattens(texts, e)
  BY <1>7, FlattenBuilds
<1>9. e \in [0..N -> Text] /\ e[0] = <<>> /\ FlattenSeq(texts) = e[N]
      /\ \A n \in 1..N : e[n] = e[n - 1] \o texts[n]
  BY <1>7, <1>8 DEF Flattens, Grown
<1> DEFINE S == {n \in Nat : n \leq N => Begins(e[n])}
<1>10. 0 \in S
  BY <1>9 DEF Begins
<1>11. ASSUME NEW n \in Nat, n \in S  PROVE n + 1 \in S
  <2> SUFFICES ASSUME n + 1 \leq N  PROVE Begins(e[n + 1])
    OBVIOUS
  <2>1. n + 1 \in 1..N /\ (n + 1) - 1 = n /\ n \in 0..N
    BY <1>1
  <2>2. e[n] \in Text /\ e[n + 1] = e[n] \o texts[n + 1] /\ Begins(e[n])
    <3>1. Begins(e[n])
      BY <1>11, <2>1
    <3>2. e[n] \in Text
      BY <1>9, <2>1
    <3>3. e[n + 1] = e[(n + 1) - 1] \o texts[n + 1]
      BY <1>9, <2>1
    <3> QED  BY <2>1, <3>1, <3>2, <3>3
  <2>3. texts[n + 1] \in Text /\ texts[n + 1] # <<>> /\ Head(texts[n + 1]) # Space
    BY <1>4, <2>1
  <2>4. Head(e[n] \o texts[n + 1]) # Space
    BY <2>2, <2>3, BeginsOn
  <2> QED  BY <2>2, <2>4 DEF Begins
<1>12. Nat \subseteq S
  <2> HIDE DEF S
  <2> QED  BY <1>10, <1>11, Induction
<1>13. e[N] \in Text /\ Begins(e[N])
  BY <1>1, <1>9, <1>12
<1>14. last \in Text /\ last # <<>> /\ Head(last) # Space /\ Last(last) # Space
  BY <1>1, <1>2
<1> HIDE DEF last, N
<1>15. Head(e[N] \o last) # Space /\ Last(e[N] \o last) = Last(last) /\ e[N] \o last \in Text
  BY <1>13, <1>14, BeginsOn, Ends, Joins
<1> QED  BY <1>5, <1>9, <1>14, <1>15 DEF Tight

LEMMA PaddedByNothing == ASSUME NEW text \in Text PROVE Padded(text, text)
<1>1. Pad(0) = <<>>
  BY DEF Pad
<1>2. text = Pad(0) \o text \o Pad(0)
  BY <1>1, Joins
<1> QED  BY <1>2 DEF Padded

LEMMA SpelledCanBeWritten ==
    ASSUME NEW spec \in {"tuple", "template"}, NEW S, NEW fields \in Seq(S), fields # <<>>,
           \A i \in 1..Len(fields) : \E word : Spells(spec, word, fields[i])
    PROVE  \E text \in Text : Writes(spec, text, fields)
<1> DEFINE N == Len(fields)
           pieces == [i \in 1..N |-> CHOOSE word : Spells(spec, word, fields[i])]
<1>1. N \in Nat \ {0}
  OBVIOUS
<1>2. \A i \in 1..N : Spells(spec, pieces[i], fields[i])
  BY Zenon
<1> HIDE DEF pieces
<1>3. \A i \in 1..N : Word(pieces[i]) /\ pieces[i] \in Text
  BY <1>2, SpelledIsRead DEF Word
<1>4. pieces \in [1..N -> Text]
  BY <1>3 DEF pieces
<1>5. pieces \in Seq(Text) /\ Len(pieces) = N /\ DOMAIN pieces = 1..N /\ pieces # <<>>
  <2>1. pieces \in Seq(Text) /\ Len(pieces) = N /\ DOMAIN pieces = 1..N
    BY <1>1, <1>4
  <2> QED  BY <1>1, <2>1
<1> DEFINE body == Separated(pieces)
           text == <<Open>> \o body \o <<Close>>
<1>6. body \in Text /\ Tight(body)
  BY <1>3, <1>5, SeparatedIsTight
<1>7. text \in Text
  <2>1. Open \in Runes /\ Close \in Runes
    BY Distinct DEF Syntax
  <2> HIDE DEF body
  <2> QED  BY <1>6, <2>1, Wrapped
<1>8. Encloses(text, body)
  <2>1. Padded(body, body) /\ Padded(text, text)
    BY <1>6, <1>7, PaddedByNothing
  <2> HIDE DEF body
  <2> QED  BY <1>6, <2>1 DEF Encloses
<1>9. \A i \in 1..N : Padded(pieces[i], pieces[i])
  BY <1>3, PaddedByNothing
<1> HIDE DEF text
<1>10. Writes(spec, text, fields)
  BY <1>2, <1>5, <1>8, <1>9 DEF Writes, Text
<1> QED  BY <1>7, <1>10

\* The fields that tuples of this model have.
TupleFields ==
    {Actual("string", value) : value \in Text} \cup {Actual("int", <<IntOf[n]>>) : n \in Numerals}
        \cup {Actual("bool", <<b>>) : b \in {"true", "false"}}

\* Every tuple has a text from which the command line reads it back (ParseTupleSpec),
\* whatever quotes, backslashes, commas, spaces and parentheses are in its strings.
THEOREM TuplesCanBeTyped ==
    ASSUME NEW fields \in Seq(TupleFields), fields # <<>>
    PROVE  \E text \in Text : ParseTupleSpec(text) = fields
<1>1. ASSUME NEW f \in TupleFields  PROVE \E word : Spells("tuple", word, f)
  <2>1. CASE \E value \in Text : f = Actual("string", value)
    BY <2>1, Zenon DEF Spells, Text
  <2>2. CASE \E n \in Numerals : f = Actual("int", <<IntOf[n]>>)
    BY <2>2, Zenon DEF Spells
  <2>3. CASE \E b \in {"true", "false"} : f = Actual("bool", <<b>>)
    BY <2>3, Zenon DEF Spells
  <2> QED  BY <2>1, <2>2, <2>3 DEF TupleFields
<1>2. \A i \in 1..Len(fields) : fields[i] \in TupleFields
  <2> HIDE DEF TupleFields
  <2> QED  OBVIOUS
<1>3. \A i \in 1..Len(fields) : \E word : Spells("tuple", word, fields[i])
  BY <1>1, <1>2
<1>4. PICK text \in Text : Writes("tuple", text, fields)
  BY <1>3, SpelledCanBeWritten
<1>5. Parsed("tuple", text) = fields
  BY <1>4, WrittenIsRead
<1> QED  BY <1>4, <1>5 DEF Parsed
=============================================================================
