------------------------------ MODULE AdminProofs -----------------------------
(***************************************************************************)
(* Proofs about Admin for any number of clients, commands and times.       *)
(***************************************************************************)
EXTENDS Admin, FiniteSetTheorems, TLAPS

Numbered == {w \in Outs : stage[w] \in {"inserted", "visible", "gone"}}

\* The sequence has given out the ids of the rows, each one once.
IdsInv ==
    /\ \A w \in Numbered : row[w].id \in Nat \ {0} /\ row[w].id < nextId
    /\ \A v, w \in Numbered : row[v].id = row[w].id => v = w

\* Rows that an open transaction has deleted are visible, and its alone; they are what
\* its command asks for.
LocksInv ==
    /\ \A a \in Operators : locked[a] \subseteq Visible
    /\ \A a, b \in Operators : a # b => locked[a] \cap locked[b] = {}
    /\ \A a \in Operators : \A w \in locked[a] :
           IF RoutedTo(command[a], {"purge"}) THEN Matches(w, command[a].filter)
           ELSE row[w].id = command[a].id

\* Since a listing, nothing that it would have had has come that was not open then.
ListingInv ==
    \A a \in Operators : told[a].kind = "all" =>
        /\ told[a].at \in Times /\ told[a].at <= now
        /\ \A w \in told[a].listed : w \in Visible \cup Gone /\ Matches(w, told[a].filter)
        /\ \A w \in Visible \cup Open :
              Matches(w, told[a].filter) /\ row[w].created_at < told[a].at
                  => w \in told[a].listed \cup told[a].open

\* What get has shown is a row that is there or was.
ShownInv ==
    \A a \in Operators : told[a].kind = "one" => \E w \in Visible \cup Gone : row[w] = told[a].row

\* A purge by the filter of the last listing has all of it that is left.
PurgeInv ==
    \A a \in Operators :
        command[a] # Idle /\ RoutedTo(command[a], {"purge"}) /\ told[a].kind = "all"
        /\ command[a].filter = told[a].filter
        => told[a].listed \subseteq locked[a] \cup Gone

IInv == TypeOK /\ IdsInv /\ LocksInv /\ ListingInv /\ ShownInv /\ PurgeInv /\ RemovedOnce

-------------------------------------------------------------------------------
(* Filters and routes *)

\* The client's requests reach the operations they are meant for (Request, adminRoutes).
LEMMA RoutesAgree ==
    ASSUME NEW a \in Operators, NEW c \in Commands[a]
    PROVE  /\ RoutedTo(c, {"purge"}) <=> c.op = "purge"
           /\ RoutedTo(c, {"delete"}) <=> c.op = "delete"
           /\ RoutedTo(c, {"purge", "delete"}) <=> c.op \in {"purge", "delete"}
<1>1. c.op \in ListOps \cup {"purge", "get", "delete"}
  BY CommandsAssumption
<1>2. ASSUME c.op = "get" PROVE \A ops : RoutedTo(c, ops) <=> c.op \in ops
  <2>1. Request(c) = [method |-> "GET", path |-> "tuples"]
    BY <1>2 DEF Request, ListOps
  <2>2. ASSUME NEW route \in adminRoutes,
               [method |-> route.method, path |-> route.path] = Request(c)
        PROVE  route.to = c.op
    <3>1. route.method = "GET" /\ route.path = "tuples"
      BY <2>1, <2>2
    <3> QED  BY <1>2, <2>2, <3>1 DEF adminRoutes, ListOps
  <2>3. [method |-> "GET", path |-> "tuples", to |-> c.op] \in adminRoutes
    BY <1>2 DEF adminRoutes
  <2> QED  BY <2>1, <2>2, <2>3 DEF RoutedTo
<1>3. ASSUME c.op = "delete" PROVE \A ops : RoutedTo(c, ops) <=> c.op \in ops
  <2>1. Request(c) = [method |-> "DELETE", path |-> "tuples"]
    BY <1>3 DEF Request, ListOps
  <2>2. ASSUME NEW route \in adminRoutes,
               [method |-> route.method, path |-> route.path] = Request(c)
        PROVE  route.to = c.op
    <3>1. route.method = "DELETE" /\ route.path = "tuples"
      BY <2>1, <2>2
    <3> QED  BY <1>3, <2>2, <3>1 DEF adminRoutes, ListOps
  <2>3. [method |-> "DELETE", path |-> "tuples", to |-> c.op] \in adminRoutes
    BY <1>3 DEF adminRoutes
  <2> QED  BY <2>1, <2>2, <2>3 DEF RoutedTo
<1>4. ASSUME c.op \in ListOps \cup {"purge"} PROVE \A ops : RoutedTo(c, ops) <=> c.op \in ops
  <2>1. Request(c) = [method |-> "POST", path |-> c.op]
    BY <1>4 DEF Request, ListOps
  <2>2. ASSUME NEW route \in adminRoutes,
               [method |-> route.method, path |-> route.path] = Request(c)
        PROVE  route.to = c.op
    <3>1. route.method = "POST" /\ route.path = c.op
      BY <2>1, <2>2
    <3> QED  BY <1>4, <2>2, <3>1 DEF adminRoutes, ListOps
  <2>3. [method |-> "POST", path |-> c.op, to |-> c.op] \in adminRoutes
    BY <1>4 DEF adminRoutes
  <2> QED  BY <2>1, <2>2, <2>3 DEF RoutedTo
<1> QED  BY <1>1, <1>2, <1>3, <1>4

\* A listing without a page has every row that matches (Page).
LEMMA WholeListing ==
    ASSUME NEW f, f.limit = 0, f.offset = 0
    PROVE  Page(f) = Listed(f)
<1>1. ASSUME NEW w \in Listed(f) PROVE Rank(w, Listed(f)) \in Nat
  <2>1. {v \in Listed(f) : Before(v, w)} \subseteq Outs
    BY DEF Listed, Visible
  <2>2. IsFiniteSet({v \in Listed(f) : Before(v, w)})
    BY <2>1, OutsAssumption, FS_Subset
  <2> QED  BY <2>2, FS_CardinalityType DEF Rank
<1> QED  BY <1>1 DEF Page

\* A row that does not change matches what it matched (appendTupleFilter).
LEMMA MatchesKept ==
    ASSUME NEW w, NEW f, row'[w] = row[w]
    PROVE  Matches(w, f)' <=> Matches(w, f)
BY DEF Matches, CreatedBefore
-------------------------------------------------------------------------------
(* Steps of the other clients *)

LEMMA InitIInv == Init => IInv
<1> SUFFICES ASSUME Init PROVE IInv
  OBVIOUS
<1>1. TypeOK
  <2>1. now \in Times /\ nextId \in Nat \ {0}
    BY TimeAssumption DEF Init, Times
  <2>2. /\ stage \in [Outs -> {"none", "open", "inserted", "visible", "gone", "undone"}]
        /\ row \in [Outs -> [space : Spaces \cup {AnySpace}, created_at : Times \cup {None}, id : Nat]]
        /\ claims \in [Outs -> Nat] /\ locked \in [Operators -> SUBSET Outs]
    BY DEF Init, AnySpace, None
  <2>3. Visible = {} /\ Gone = {}
    BY DEF Init, Visible, Gone
  <2> QED  BY <2>1, <2>2, <2>3 DEF Init, TypeOK
<1>2. IdsInv /\ LocksInv
  BY DEF Init, IdsInv, LocksInv, Numbered
<1>3. ListingInv /\ ShownInv /\ PurgeInv /\ RemovedOnce
  BY DEF Init, ListingInv, ShownInv, PurgeInv, RemovedOnce, Nothing
<1> QED  BY <1>1, <1>2, <1>3 DEF IInv

\* What a step of a writer or a consumer needs to keep: rows that others can see stay
\* what they are, locked rows stay visible, and a row that was open at no time before
\* is newer than every listing (BeginOut, Insert, EndOut, Take).
LEMMA OthersKeep ==
    ASSUME IInv, TypeOK', IdsInv', RemovedOnce',
           UNCHANGED <<command, locked, told>>,
           now' \in Times, now <= now',
           \A w \in Visible \cup Gone : row'[w] = row[w] /\ w \in Visible' \cup Gone',
           Gone \subseteq Gone',
           \A a \in Operators : locked[a] \subseteq Visible',
           \A w \in Visible' \cup Open' :
               \/ /\ w \in Visible \cup Open
                  /\ row'[w].space = row[w].space /\ row'[w].created_at = row[w].created_at
               \/ row'[w].created_at = now
    PROVE  IInv'
<1>1. LocksInv'
  <2>1. \A a \in Operators : \A w \in locked[a] : row'[w] = row[w]
    BY DEF IInv, LocksInv
  <2>2. \A a \in Operators : \A w \in locked[a] : \A f : Matches(w, f)' <=> Matches(w, f)
    BY <2>1, MatchesKept
  <2>3. \A c, ops : RoutedTo(c, ops)' <=> RoutedTo(c, ops)
    OBVIOUS
  <2> QED  BY <2>1, <2>2, <2>3 DEF IInv, LocksInv
<1>2. ListingInv'
  <2> SUFFICES ASSUME NEW a \in Operators, told[a].kind = "all"
               PROVE  /\ told[a].at \in Times /\ told[a].at <= now'
                      /\ \A w \in told[a].listed :
                            w \in Visible' \cup Gone' /\ Matches(w, told[a].filter)'
                      /\ \A w \in Visible' \cup Open' :
                            Matches(w, told[a].filter)' /\ row'[w].created_at < told[a].at
                                => w \in told[a].listed \cup told[a].open
    BY DEF ListingInv
  <2>1. told[a].at \in Times /\ told[a].at <= now /\ now \in Times
    BY DEF IInv, ListingInv, TypeOK
  <2>2. told[a].at <= now'
    BY <2>1 DEF Times
  <2>3. ASSUME NEW w \in told[a].listed
        PROVE  w \in Visible' \cup Gone' /\ Matches(w, told[a].filter)'
    BY <2>3, MatchesKept DEF IInv, ListingInv
  <2>4. ASSUME NEW w \in Visible' \cup Open', Matches(w, told[a].filter)',
               row'[w].created_at < told[a].at
        PROVE  w \in told[a].listed \cup told[a].open
    <3>1. row'[w].created_at # now
      BY <2>1, <2>4 DEF Times
    <3>2. /\ w \in Visible \cup Open
          /\ row'[w].space = row[w].space /\ row'[w].created_at = row[w].created_at
      BY <2>4, <3>1
    <3>3. Matches(w, told[a].filter)
      BY <2>4, <3>2 DEF Matches, CreatedBefore
    <3> QED  BY <2>4, <3>2, <3>3 DEF IInv, ListingInv
  <2> QED  BY <2>1, <2>2, <2>3, <2>4
<1>3. ShownInv' /\ PurgeInv'
  BY DEF IInv, ShownInv, PurgeInv, RoutedTo, Request, adminRoutes
<1> QED  BY <1>1, <1>2, <1>3 DEF IInv

LEMMA TickInv == IInv /\ Tick => IInv'
<1> SUFFICES ASSUME IInv, Tick PROVE IInv'
  OBVIOUS
<1>1. now' \in Times /\ now <= now' /\ UNCHANGED <<nextId, stage, row, command, locked, told, claims>>
  BY TimeAssumption DEF Tick, IInv, TypeOK, Times
<1>2. Visible' = Visible /\ Gone' = Gone /\ Open' = Open /\ Numbered' = Numbered
  BY <1>1 DEF Visible, Gone, Open, Numbered
<1>3. TypeOK'
  BY <1>1, <1>2 DEF IInv, TypeOK
<1>4. IdsInv' /\ RemovedOnce'
  BY <1>1, <1>2 DEF IInv, IdsInv, RemovedOnce
<1> QED  BY <1>1, <1>2, <1>3, <1>4, OthersKeep DEF IInv, LocksInv

LEMMA BeginOutInv == ASSUME IInv, NEW w \in Outs, BeginOut(w) PROVE IInv'
<1>1. PICK s \in Spaces : row' = [row EXCEPT ![w] = [space |-> s, created_at |-> now, id |-> None]]
  BY DEF BeginOut
<1>2. /\ stage[w] = "none" /\ stage' = [stage EXCEPT ![w] = "open"]
      /\ UNCHANGED <<now, nextId, command, locked, told, claims>>
  BY DEF BeginOut
<1>3. /\ row'[w].created_at = now
      /\ \A v \in Outs : v # w => row'[v] = row[v] /\ stage'[v] = stage[v]
  BY <1>1, <1>2 DEF IInv, TypeOK
<1>4. /\ Visible' = Visible /\ Gone' = Gone /\ Open' = Open \cup {w} /\ Numbered' = Numbered
      /\ w \notin Visible \cup Gone \cup Numbered
  BY <1>2, <1>3 DEF Visible, Gone, Open, Numbered, IInv, TypeOK
<1>5. TypeOK'
  <2>1. row' \in [Outs -> [space : Spaces \cup {AnySpace}, created_at : Times \cup {None}, id : Nat]]
    BY <1>1 DEF IInv, TypeOK, None
  <2>2. \A u, v \in Visible' \cup Gone' : row'[u].id = row'[v].id => u = v
    BY <1>3, <1>4 DEF IInv, TypeOK, Visible, Gone
  <2> QED  BY <1>2, <2>1, <2>2 DEF IInv, TypeOK
<1>6. IdsInv' /\ RemovedOnce'
  <2>1. \A v \in Numbered' : v \in Outs /\ v # w
    BY <1>4 DEF Numbered
  <2> QED  BY <1>2, <1>3, <1>4, <2>1 DEF IInv, IdsInv, RemovedOnce
<1>7. \A v \in Visible \cup Gone \cup Open : v \in Outs
  BY DEF Visible, Gone, Open
<1>8. now \in Times /\ now <= now
  BY DEF IInv, TypeOK, Times
<1> QED  BY <1>2, <1>3, <1>4, <1>5, <1>6, <1>7, <1>8, OthersKeep DEF IInv, LocksInv

LEMMA InsertInv == ASSUME IInv, NEW w \in Outs, Insert(w) PROVE IInv'
<1>1. /\ stage[w] = "open" /\ stage' = [stage EXCEPT ![w] = "inserted"]
      /\ row' = [row EXCEPT ![w].id = nextId] /\ nextId' = nextId + 1
      /\ UNCHANGED <<now, command, locked, told, claims>>
  BY DEF Insert
<1>2. /\ row'[w].id = nextId /\ nextId \in Nat \ {0}
      /\ row'[w].space = row[w].space /\ row'[w].created_at = row[w].created_at
      /\ \A v \in Outs : v # w => row'[v] = row[v] /\ stage'[v] = stage[v]
  BY <1>1 DEF IInv, TypeOK
<1>3. /\ Visible' = Visible /\ Gone' = Gone /\ Open' = Open /\ Numbered' = Numbered \cup {w}
      /\ w \notin Visible \cup Gone \cup Numbered /\ w \in Open
  BY <1>1, <1>2 DEF Visible, Gone, Open, Numbered, IInv, TypeOK
<1>4. \A v \in Visible \cup Gone \cup Open \cup Numbered : v \in Outs
  BY DEF Visible, Gone, Open, Numbered
<1>5. TypeOK'
  <2>1. row' \in [Outs -> [space : Spaces \cup {AnySpace}, created_at : Times \cup {None}, id : Nat]]
    BY <1>1 DEF IInv, TypeOK
  <2>2. \A u, v \in Visible' \cup Gone' : row'[u].id = row'[v].id => u = v
    BY <1>2, <1>3, <1>4 DEF IInv, TypeOK
  <2> QED  BY <1>1, <2>1, <2>2 DEF IInv, TypeOK
<1>6. IdsInv'
  BY <1>1, <1>2, <1>3, <1>4 DEF IInv, IdsInv
<1>7. RemovedOnce'
  BY <1>1, <1>3 DEF IInv, RemovedOnce
<1>8. now \in Times /\ now <= now
  BY DEF IInv, TypeOK, Times
<1> QED  BY <1>1, <1>2, <1>3, <1>4, <1>5, <1>6, <1>7, <1>8, OthersKeep DEF IInv, LocksInv

LEMMA EndOutInv == ASSUME IInv, NEW w \in Outs, EndOut(w) PROVE IInv'
<1>1. /\ stage[w] \in {"open", "inserted"}
      /\ \/ stage[w] = "inserted" /\ stage' = [stage EXCEPT ![w] = "visible"]
         \/ stage' = [stage EXCEPT ![w] = "undone"]
      /\ UNCHANGED <<now, nextId, row, command, locked, told, claims>>
  BY DEF EndOut
<1>2. \A v \in Outs : v # w => stage'[v] = stage[v]
  BY <1>1 DEF IInv, TypeOK
<1>3. stage'[w] \in {"visible", "undone"} /\ (stage'[w] = "visible" => stage[w] = "inserted")
  BY <1>1 DEF IInv, TypeOK
<1>4. /\ Visible \subseteq Visible' /\ Gone' = Gone /\ Numbered' \subseteq Numbered
      /\ Visible' \cup Open' \subseteq Visible \cup Open /\ Visible' \cup Gone' \subseteq Numbered
  BY <1>1, <1>2, <1>3 DEF Visible, Gone, Open, Numbered
<1>5. TypeOK'
  <2>1. \A u, v \in Visible' \cup Gone' : row'[u].id = row'[v].id => u = v
    BY <1>1, <1>4 DEF IInv, IdsInv
  <2> QED  BY <1>1, <2>1 DEF IInv, TypeOK
<1>6. IdsInv' /\ RemovedOnce'
  BY <1>1, <1>4 DEF IInv, IdsInv, RemovedOnce
<1>7. now \in Times /\ now <= now
  BY DEF IInv, TypeOK, Times
<1> QED  BY <1>1, <1>4, <1>5, <1>6, <1>7, OthersKeep DEF IInv, LocksInv

LEMMA TakeInv == ASSUME IInv, NEW w \in Outs, Take(w) PROVE IInv'
<1>1. /\ stage[w] = "visible" /\ stage' = [stage EXCEPT ![w] = "gone"]
      /\ claims' = [claims EXCEPT ![w] = @ + 1]
      /\ UNCHANGED <<now, nextId, row, command, locked, told>>
      /\ \A a \in Operators : w \notin locked[a]
  BY DEF Take, LockedRows
<1>2. \A v \in Outs : v # w => stage'[v] = stage[v] /\ claims'[v] = claims[v]
  BY <1>1 DEF IInv, TypeOK
<1>3. stage'[w] = "gone" /\ w \notin Gone /\ claims'[w] = claims[w] + 1
  BY <1>1 DEF IInv, TypeOK, Gone
<1>4. /\ Visible' = Visible \ {w} /\ Gone' = Gone \cup {w} /\ w \in Visible
      /\ Open' = Open /\ Numbered' = Numbered
  BY <1>1, <1>2, <1>3 DEF Visible, Gone, Open, Numbered
<1>5. claims[w] = 0
  <2>1. claims[w] \in Nat /\ claims[w] <= 1 /\ claims[w] # 1
    BY <1>3 DEF IInv, TypeOK, RemovedOnce
  <2> QED  BY <2>1
<1>6. TypeOK'
  <2>1. \A u, v \in Visible' \cup Gone' : row'[u].id = row'[v].id => u = v
    BY <1>1, <1>4 DEF IInv, TypeOK
  <2>2. stage' \in [Outs -> {"none", "open", "inserted", "visible", "gone", "undone"}]
        /\ claims' \in [Outs -> Nat]
    BY <1>1, <1>5 DEF IInv, TypeOK
  <2> QED  BY <1>1, <2>1, <2>2 DEF IInv, TypeOK
<1>7. IdsInv'
  BY <1>1, <1>4 DEF IInv, IdsInv
<1>8. RemovedOnce'
  BY <1>2, <1>3, <1>4, <1>5 DEF IInv, RemovedOnce
<1>9. now \in Times /\ now <= now
  BY DEF IInv, TypeOK, Times
<1> QED  BY <1>1, <1>4, <1>6, <1>7, <1>8, <1>9, OthersKeep DEF IInv, LocksInv

-------------------------------------------------------------------------------
(* Steps of the operators *)

LEMMA TypeKept ==
    ASSUME IInv, TypeOK', UNCHANGED tupleVars, UNCHANGED claims
    PROVE  /\ Visible' = Visible /\ Gone' = Gone /\ Open' = Open
           /\ IdsInv' /\ RemovedOnce'
<1>1. Visible' = Visible /\ Gone' = Gone /\ Open' = Open /\ Numbered' = Numbered
  BY DEF tupleVars, Visible, Gone, Open, Numbered
<1> QED  BY <1>1 DEF IInv, IdsInv, RemovedOnce, tupleVars

LEMMA ListInv == ASSUME IInv, NEW a \in Operators, NEW c \in Commands[a], List(a, c) PROVE IInv'
<1> DEFINE f == c.filter
<1>1. UNCHANGED <<tupleVars, command, locked, claims>> /\ command[a] = Idle
  BY DEF List
<1>2. PICK t : /\ told' = [told EXCEPT ![a] = t]
               /\ \/ f.limit = 0 /\ f.offset = 0 /\ t = Listing(f)
                  \/ t.kind \in {"pages", "nothing"}
  <2> DEFINE t == IF f.limit = 0 /\ f.offset = 0 THEN Listing(f)
                  ELSE IF f.limit > 0 /\ f.offset = 0 THEN FirstPage(f)
                  ELSE IF IsNextPage(told[a], f) THEN NextPage(told[a], f)
                  ELSE Nothing
  <2>1. told' = [told EXCEPT ![a] = t]
    BY DEF List
  <2>2. FirstPage(f).kind = "pages" /\ NextPage(told[a], f).kind = "pages"
        /\ Nothing.kind = "nothing"
    BY DEF FirstPage, NextPage, Nothing
  <2> QED  BY <2>1, <2>2
<1>3. TypeOK'
  BY <1>1, <1>2 DEF IInv, TypeOK, tupleVars, Visible, Gone
<1>4. Visible' = Visible /\ Gone' = Gone /\ Open' = Open /\ IdsInv' /\ RemovedOnce'
  BY <1>1, <1>3, TypeKept
<1>6. LocksInv'
  BY <1>1, <1>4 DEF IInv, LocksInv, RoutedTo, Matches, CreatedBefore, tupleVars
<1>7. \A b \in Operators : told'[b] = IF b = a THEN t ELSE told[b]
  BY <1>2 DEF IInv, TypeOK
<1>8. ListingInv'
  <2> SUFFICES ASSUME NEW b \in Operators, told'[b].kind = "all", told'[b] # told[b]
               PROVE  /\ told'[b].at \in Times /\ told'[b].at <= now'
                      /\ \A w \in told'[b].listed :
                            w \in Visible' \cup Gone' /\ Matches(w, told[b].filter)'
                      /\ \A w \in Visible' \cup Open' :
                            Matches(w, told[b].filter)' /\ row'[w].created_at < told'[b].at
                                => w \in told'[b].listed \cup told'[b].open
    BY <1>1, <1>4 DEF IInv, ListingInv, Matches, CreatedBefore, tupleVars
  <2>1. f.limit = 0 /\ f.offset = 0 /\ told'[b] = Listing(f)
    BY <1>2, <1>7
  <2>2. /\ told'[b].at = now /\ told'[b].listed = Listed(f) /\ told'[b].open = Open
        /\ told'[b].filter = f
    BY <2>1, WholeListing DEF Listing
  <2>3. now \in Times /\ now <= now
    BY DEF IInv, TypeOK, Times
  <2> QED  BY <1>1, <1>4, <2>2, <2>3 DEF Listed, Matches, CreatedBefore, tupleVars
<1>9. ShownInv'
  <2>1. \A b \in Operators : told'[b].kind = "one" => told'[b] = told[b]
    BY <1>2, <1>7 DEF Listing
  <2> QED  BY <1>1, <1>4, <2>1 DEF IInv, ShownInv, tupleVars
<1>10. PurgeInv'
  <2>1. \A b \in Operators : command[b] # Idle => told'[b] = told[b]
    BY <1>1, <1>2
  <2> QED  BY <1>1, <1>4, <2>1 DEF IInv, PurgeInv, RoutedTo
<1> QED  BY <1>3, <1>4, <1>6, <1>8, <1>9, <1>10 DEF IInv

LEMMA GetInv == ASSUME IInv, NEW a \in Operators, NEW c \in Commands[a], Get(a, c) PROVE IInv'
<1>1. UNCHANGED <<tupleVars, command, locked, claims>> /\ command[a] = Idle
  BY DEF Get
<1>2. PICK v \in Visible : told' = [told EXCEPT ![a] = [kind |-> "one", row |-> row[v]]]
  BY DEF Get
<1>3. TypeOK'
  BY <1>1, <1>2 DEF IInv, TypeOK, tupleVars, Visible, Gone
<1>4. Visible' = Visible /\ Gone' = Gone /\ Open' = Open /\ IdsInv' /\ RemovedOnce'
  BY <1>1, <1>3, TypeKept
<1>6. LocksInv'
  BY <1>1, <1>4 DEF IInv, LocksInv, RoutedTo, Matches, CreatedBefore, tupleVars
<1>7. \A b \in Operators : \/ told'[b] = told[b]
                           \/ told'[b].kind = "one" /\ told'[b].row = row[v]
  BY <1>2
<1>8. ListingInv' /\ ShownInv'
  BY <1>1, <1>4, <1>7 DEF IInv, ListingInv, ShownInv, Matches, CreatedBefore, tupleVars
<1>9. PurgeInv'
  BY <1>1, <1>4, <1>7 DEF IInv, PurgeInv, RoutedTo
<1> QED  BY <1>3, <1>4, <1>6, <1>8, <1>9 DEF IInv

LEMMA DeleteInv ==
    ASSUME IInv, NEW a \in Operators, NEW c \in Commands[a], Delete(a, c) PROVE IInv'
<1>1. /\ UNCHANGED <<tupleVars, told, claims>> /\ command[a] = Idle
      /\ command' = [command EXCEPT ![a] = c] /\ locked' = [locked EXCEPT ![a] = Targets(c)]
      /\ \A b \in Operators : Targets(c) \cap locked[b] = {}
  BY DEF Delete, LockedRows
<1>2. Targets(c) \subseteq Visible /\ Visible \subseteq Outs
  BY DEF Targets, Visible
<1>3. c.op # "none"
  BY CommandsAssumption DEF ListOps
<1>4. c # Idle
  BY <1>3 DEF Idle
<1>5. \A b \in Operators : b # a => command'[b] = command[b] /\ locked'[b] = locked[b]
  BY <1>1 DEF IInv, TypeOK
<1>6. command'[a] = c /\ locked'[a] = Targets(c)
  BY <1>1 DEF IInv, TypeOK
<1>7. TypeOK'
  <2>1. \A b \in Operators : command'[b] \in Commands[b] \cup {Idle}
    BY <1>5, <1>6 DEF IInv, TypeOK
  <2>2. locked' \in [Operators -> SUBSET Outs] /\ DOMAIN command' = Operators
    BY <1>1, <1>2 DEF IInv, TypeOK
  <2>3. \A b \in Operators : command'[b] = Idle => locked'[b] = {}
    BY <1>4, <1>5, <1>6 DEF IInv, TypeOK
  <2> QED  BY <1>1, <2>1, <2>2, <2>3 DEF IInv, TypeOK, tupleVars, Visible, Gone
<1>8. Visible' = Visible /\ Gone' = Gone /\ Open' = Open /\ IdsInv' /\ RemovedOnce'
  BY <1>1, <1>7, TypeKept
<1>9. \A w, g : Matches(w, g)' <=> Matches(w, g)
  BY <1>1 DEF Matches, CreatedBefore, tupleVars
<1>10. \A b, ops : b \in Operators /\ b # a => (RoutedTo(command[b], ops)' <=> RoutedTo(command[b], ops))
  BY <1>5 DEF RoutedTo, Request
<1>11. \A ops : RoutedTo(command[a], ops)' <=> RoutedTo(c, ops)
  BY <1>6 DEF RoutedTo, Request
<1>12. LocksInv'
  <2>1. ASSUME NEW b \in Operators, NEW w \in locked'[b]
        PROVE  IF RoutedTo(command[b], {"purge"})' THEN Matches(w, command[b].filter)'
               ELSE row'[w].id = command'[b].id
    <3>1. CASE b = a
      BY <1>1, <1>6, <1>9, <1>11, <2>1, <3>1 DEF Targets, tupleVars
    <3>2. CASE b # a
      BY <1>1, <1>5, <1>9, <1>10, <2>1, <3>2 DEF IInv, LocksInv, tupleVars
    <3> QED  BY <3>1, <3>2
  <2>2. \A b, d \in Operators : b # d => locked'[b] \cap locked'[d] = {}
    BY <1>1, <1>5, <1>6 DEF IInv, LocksInv
  <2>3. \A b \in Operators : locked'[b] \subseteq Visible'
    BY <1>2, <1>5, <1>6, <1>8 DEF IInv, LocksInv
  <2> QED  BY <2>1, <2>2, <2>3 DEF LocksInv
<1>13. ListingInv' /\ ShownInv'
  BY <1>1, <1>8, <1>9 DEF IInv, ListingInv, ShownInv, tupleVars
<1>14. PurgeInv'
  <2> SUFFICES ASSUME NEW b \in Operators, command'[b] # Idle, RoutedTo(command[b], {"purge"})',
                      told[b].kind = "all", command'[b].filter = told[b].filter
               PROVE  told[b].listed \subseteq locked'[b] \cup Gone'
    BY <1>1 DEF PurgeInv
  <2>1. CASE b # a
    BY <1>5, <1>8, <1>10, <2>1 DEF IInv, PurgeInv
  <2>2. CASE b = a
    <3>1. RoutedTo(c, {"purge"}) /\ c.filter = told[a].filter
      BY <1>6, <1>11, <2>2
    <3>2. \A w \in told[a].listed : w \in Visible \cup Gone /\ Matches(w, c.filter)
      BY <2>2, <3>1 DEF IInv, ListingInv
    <3> QED  BY <1>6, <1>8, <2>2, <3>1, <3>2 DEF Targets
  <2> QED  BY <2>1, <2>2
<1> QED  BY <1>7, <1>8, <1>12, <1>13, <1>14 DEF IInv

\* The commands of which a transaction is open are done with: what it had deleted is
\* gone, or visible again (CommitDelete, AnswerLost, Rollback).
LEMMA DoneInv ==
    ASSUME IInv, NEW a \in Operators, command[a] # Idle, Done(a), RemovedOnce',
           Removed(a) \/ UNCHANGED stage,
           UNCHANGED <<now, nextId, row, told>>, claims' \in [Outs -> Nat]
    PROVE  IInv'
<1>1. /\ command'[a] = Idle /\ locked'[a] = {} /\ locked' \in [Operators -> SUBSET Outs]
      /\ DOMAIN command' = Operators
      /\ \A b \in Operators : b # a => command'[b] = command[b] /\ locked'[b] = locked[b]
  BY DEF Done, IInv, TypeOK
<1>2. stage' \in [Outs -> {"none", "open", "inserted", "visible", "gone", "undone"}]
  BY DEF IInv, TypeOK, Removed
<1>3. locked[a] \subseteq Visible /\ Visible \subseteq Outs
  BY DEF IInv, LocksInv, Visible
<1>4. \A w \in Outs : stage'[w] = stage[w] \/ (stage'[w] = "gone" /\ w \in locked[a])
  BY DEF Removed
<1>5. /\ Visible' \subseteq Visible /\ Visible \ locked[a] \subseteq Visible'
      /\ Gone \subseteq Gone' /\ Visible' \cup Gone' = Visible \cup Gone
      /\ Open' = Open /\ Numbered' = Numbered
  BY <1>3, <1>4 DEF Visible, Gone, Open, Numbered
<1>6. TypeOK'
  <2>1. \A u, v \in Visible' \cup Gone' : row'[u].id = row'[v].id => u = v
    BY <1>5 DEF IInv, TypeOK
  <2>2. \A b \in Operators : /\ command'[b] \in Commands[b] \cup {Idle}
                             /\ command'[b] = Idle => locked'[b] = {}
    BY <1>1 DEF IInv, TypeOK
  <2> QED  BY <1>1, <1>2, <2>1, <2>2 DEF IInv, TypeOK
<1>7. IdsInv'
  BY <1>5 DEF IInv, IdsInv
<1>8. \A w, g : Matches(w, g)' <=> Matches(w, g)
  BY DEF Matches, CreatedBefore
<1>9. \A b, ops : b \in Operators /\ b # a => (RoutedTo(command[b], ops)' <=> RoutedTo(command[b], ops))
  BY <1>1 DEF RoutedTo, Request
<1>10. LocksInv'
  <2>1. \A b \in Operators : locked'[b] \subseteq Visible'
    BY <1>1, <1>5 DEF IInv, LocksInv
  <2>2. \A b, d \in Operators : b # d => locked'[b] \cap locked'[d] = {}
    BY <1>1 DEF IInv, LocksInv
  <2>3. ASSUME NEW b \in Operators, NEW w \in locked'[b]
        PROVE  IF RoutedTo(command[b], {"purge"})' THEN Matches(w, command[b].filter)'
               ELSE row'[w].id = command'[b].id
    <3>1. b # a
      BY <1>1, <2>3
    <3> QED  BY <1>1, <1>8, <1>9, <2>3, <3>1 DEF IInv, LocksInv
  <2> QED  BY <2>1, <2>2, <2>3 DEF LocksInv
<1>11. ListingInv' /\ ShownInv'
  BY <1>5, <1>8 DEF IInv, ListingInv, ShownInv
<1>12. PurgeInv'
  BY <1>1, <1>5, <1>9 DEF IInv, PurgeInv
<1> QED  BY <1>6, <1>7, <1>10, <1>11, <1>12 DEF IInv

LEMMA EndInv ==
    ASSUME IInv, NEW a \in Operators, CommitDelete(a) \/ AnswerLost(a) \/ Rollback(a)
    PROVE  IInv'
<1>1. locked[a] \subseteq Visible
  BY DEF IInv, LocksInv
<1>2. \A w \in locked[a] : w \in Outs /\ claims[w] = 0
  <2> SUFFICES ASSUME NEW w \in locked[a] PROVE w \in Outs /\ claims[w] = 0
    OBVIOUS
  <2>1. w \in Outs /\ w \notin Gone
    BY <1>1 DEF Visible, Gone
  <2>2. claims[w] \in Nat /\ claims[w] <= 1 /\ claims[w] # 1
    BY <2>1 DEF IInv, TypeOK, RemovedOnce
  <2> QED  BY <2>1, <2>2
<1>3. CASE CommitDelete(a)
  <2>1. Removed(a) /\ Done(a) /\ command[a] # Idle /\ UNCHANGED <<now, nextId, row, told>>
        /\ claims' = [w \in Outs |-> IF w \in locked[a] THEN claims[w] + 1 ELSE claims[w]]
    BY <1>3 DEF CommitDelete, Affected
  <2>2. claims' \in [Outs -> Nat]
    BY <2>1 DEF IInv, TypeOK
  <2>3. \A w \in Outs : IF w \in locked[a] THEN claims'[w] = 1 /\ w \in Gone'
                        ELSE claims'[w] = claims[w] /\ (w \in Gone => w \in Gone')
    BY <1>2, <2>1 DEF Gone, Removed
  <2>4. RemovedOnce'
    BY <2>3 DEF IInv, RemovedOnce
  <2> QED  BY <2>1, <2>2, <2>4, DoneInv
<1>4. CASE AnswerLost(a)
  <2>1. Removed(a) /\ Done(a) /\ command[a] # Idle /\ UNCHANGED <<now, nextId, row, told, claims>>
    BY <1>4 DEF AnswerLost
  <2>2. Gone \subseteq Gone'
    BY <2>1 DEF Gone, Removed
  <2> QED  BY <2>1, <2>2, DoneInv DEF IInv, RemovedOnce, TypeOK
<1>5. CASE Rollback(a)
  <2>1. UNCHANGED stage /\ Done(a) /\ command[a] # Idle /\ UNCHANGED <<now, nextId, row, told, claims>>
    BY <1>5 DEF Rollback, tupleVars
  <2>2. Gone' = Gone
    BY <2>1 DEF Gone
  <2> QED  BY <2>1, <2>2, DoneInv DEF IInv, RemovedOnce, TypeOK
<1> QED  BY <1>3, <1>4, <1>5

LEMMA NextIInv == IInv /\ [Next]_vars => IInv'
<1> SUFFICES ASSUME IInv, [Next]_vars PROVE IInv'
  OBVIOUS
<1>1. CASE UNCHANGED vars
  <2>1. TypeOK'
    BY <1>1 DEF IInv, TypeOK, vars, tupleVars, Visible, Gone
  <2>2. Visible' = Visible /\ Gone' = Gone /\ Open' = Open /\ IdsInv' /\ RemovedOnce'
    BY <1>1, <2>1, TypeKept DEF vars
  <2>3. LocksInv' /\ ListingInv' /\ ShownInv' /\ PurgeInv'
    BY <1>1, <2>2 DEF IInv, LocksInv, ListingInv, ShownInv, PurgeInv, Matches, CreatedBefore,
                      RoutedTo, vars, tupleVars
  <2> QED  BY <2>1, <2>2, <2>3 DEF IInv
<1>2. CASE Tick
  BY <1>2, TickInv
<1>3. ASSUME NEW w \in Outs, BeginOut(w) \/ Insert(w) \/ EndOut(w) \/ Take(w) PROVE IInv'
  BY <1>3, BeginOutInv, InsertInv, EndOutInv, TakeInv
<1>4. ASSUME NEW a \in Operators, NEW c \in Commands[a], List(a, c) \/ Get(a, c) \/ Delete(a, c)
      PROVE  IInv'
  BY <1>4, ListInv, GetInv, DeleteInv
<1>5. ASSUME NEW a \in Operators, CommitDelete(a) \/ AnswerLost(a) \/ Rollback(a) PROVE IInv'
  BY <1>5, EndInv
<1> QED  BY <1>1, <1>2, <1>3, <1>4, <1>5 DEF Next

LEMMA Invariant == Spec => []IInv
<1>1. Init => IInv
  BY InitIInv
<1>2. IInv /\ [Next]_vars => IInv'
  BY NextIInv
<1> QED  BY <1>1, <1>2, PTL DEF Spec

-------------------------------------------------------------------------------
(* What a step removes *)

\* Only the end of a's own command takes away the rows that it has deleted.
LEMMA RemovedByOwner ==
    ASSUME IInv, [Next]_vars, NEW a \in Operators, NEW w \in locked[a],
           stage[w] = "visible", stage'[w] = "gone"
    PROVE  command[a] # Idle /\ Removed(a)
<1> USE DEF Idle
<1>1. w \in Outs /\ command[a] # Idle
  BY DEF IInv, TypeOK
<1>2. stage' # stage
  OBVIOUS
<1>3. ASSUME NEW v \in Outs, BeginOut(v) \/ Insert(v) \/ EndOut(v) PROVE FALSE
  BY <1>1, <1>3 DEF BeginOut, Insert, EndOut, IInv, TypeOK
<1>4. ASSUME NEW v \in Outs, Take(v) PROVE FALSE
  <2>1. v # w
    BY <1>4 DEF Take, LockedRows
  <2> QED  BY <1>1, <1>4, <2>1 DEF Take, IInv, TypeOK
<1>5. ASSUME NEW b \in Operators, CommitDelete(b) \/ AnswerLost(b) PROVE b = a /\ Removed(b)
  <2>1. Removed(b)
    BY <1>5 DEF CommitDelete, AnswerLost
  <2>2. w \in locked[b]
    BY <1>1, <2>1 DEF Removed
  <2> QED  BY <2>1, <2>2 DEF IInv, LocksInv
<1>6. ASSUME NEW b \in Operators, Rollback(b) PROVE FALSE
  BY <1>2, <1>6 DEF Rollback, tupleVars
<1>7. ASSUME NEW b \in Operators, NEW c \in Commands[b], List(b, c) \/ Get(b, c) \/ Delete(b, c)
      PROVE  FALSE
  BY <1>2, <1>7 DEF List, Get, Delete, tupleVars
<1>8. ~ UNCHANGED vars /\ ~ Tick
  BY <1>2 DEF Tick, vars, tupleVars
<1> QED  BY <1>1, <1>3, <1>4, <1>5, <1>6, <1>7, <1>8 DEF Next

\* What is purged was exported.
LEMMA PurgedWasListed ==
    ASSUME IInv, NEW a \in Operators, command[a] # Idle, Removed(a), locked[a] \subseteq Outs,
           RoutedTo(command[a], {"purge"}), told[a].kind = "all",
           command[a].filter = told[a].filter, told[a].filter.created_before \in 1..told[a].at
    PROVE  /\ locked[a] \subseteq told[a].listed \cup told[a].open
           /\ \A w \in told[a].listed : stage'[w] = "gone"
<1>1. told[a].at \in Nat /\ told[a].at <= now
  BY DEF IInv, ListingInv, Times
<1>2. ASSUME NEW w \in locked[a] PROVE w \in told[a].listed \cup told[a].open
  <2>1. w \in Visible /\ Matches(w, told[a].filter)
    BY DEF IInv, LocksInv
  <2>2. row[w].created_at < told[a].filter.created_before
    BY <1>1, <2>1 DEF Matches, CreatedBefore, None
  <2>3. row[w].created_at \in Int
    BY <2>1 DEF Visible, IInv, TypeOK, Times, None
  <2>4. row[w].created_at < told[a].at
    BY <1>1, <2>2, <2>3
  <2> QED  BY <2>1, <2>4 DEF IInv, ListingInv
<1>3. ASSUME NEW w \in told[a].listed PROVE stage'[w] = "gone"
  <2>1. w \in locked[a] \cup Gone
    BY DEF IInv, PurgeInv
  <2>2. w \in Outs
    BY <2>1 DEF Gone
  <2> QED  BY <2>1, <2>2 DEF Removed, Gone
<1> QED  BY <1>2, <1>3

\* What is deleted by the id of a shown row is that row.
LEMMA DeletedWasShown ==
    ASSUME IInv, NEW a \in Operators, command[a] # Idle, RoutedTo(command[a], {"delete"}),
           told[a].kind = "one", command[a].id = told[a].row.id, NEW w \in locked[a]
    PROVE  row[w] = told[a].row
<1>1. PICK v \in Visible \cup Gone : row[v] = told[a].row
  BY DEF IInv, ShownInv
<1>2. command[a] \in Commands[a]
  BY DEF IInv, TypeOK
<1>3. ~ RoutedTo(command[a], {"purge"})
  BY <1>2, RoutesAgree
<1>4. row[w].id = row[v].id /\ w \in Visible
  BY <1>1, <1>3 DEF IInv, LocksInv
<1>5. v = w
  BY <1>4 DEF IInv, TypeOK
<1> QED  BY <1>1, <1>5

-------------------------------------------------------------------------------
(* Reading by pages *)

Absent == Outs \ (Visible \cup Gone)

\* While no tuple is removed, those there were at the first page that are in no page
\* yet are beyond the pages that were read; while none is put, those that are in one
\* are not (FirstPage, NextPage).
PagesRight(t) ==
    LET rows == Listed(t.filter) IN
    /\ t.filter.limit \in Nat \ {0} /\ t.next \in Nat
    /\ t.gone \subseteq Gone /\ Absent \subseteq t.absent
    /\ t.listed \subseteq Visible \cup Gone
    /\ Gone = t.gone =>
          \A w \in t.start \ t.listed : w \in rows /\ ~t.over /\ Rank(w, rows) >= t.next
    /\ Absent = t.absent =>
          ~t.twice /\ \A w \in t.listed \cap rows : Rank(w, rows) < t.next

PagesInv == \A a \in Operators : told[a].kind = "pages" => PagesRight(told[a])

LEMMA RankType ==
    ASSUME NEW rows \in SUBSET Outs, NEW w
    PROVE  IsFiniteSet({v \in rows : Before(v, w)}) /\ Rank(w, rows) \in Nat
<1>1. {v \in rows : Before(v, w)} \subseteq Outs
  OBVIOUS
<1>2. IsFiniteSet({v \in rows : Before(v, w)})
  BY <1>1, OutsAssumption, FS_Subset
<1> QED  BY <1>2, FS_CardinalityType DEF Rank

\* ORDER BY space, id: of two rows one comes first, and none before itself.
LEMMA Ordered ==
    ASSUME IInv, NEW u \in Visible, NEW v \in Visible, NEW w \in Visible
    PROVE  /\ Before(u, v) /\ Before(v, w) => Before(u, w)
           /\ ~Before(u, u)
           /\ u # v => Before(u, v) \/ Before(v, u)
<1>1. \A x \in Visible : row[x].space \in Nat /\ row[x].id \in Nat
  <2>1. Spaces \cup {AnySpace} \subseteq Nat
    BY SpacesAssumption DEF AnySpace
  <2>2. ASSUME NEW x \in Visible
        PROVE  row[x] \in [space : Spaces \cup {AnySpace}, created_at : Times \cup {None}, id : Nat]
    BY DEF IInv, TypeOK, Visible
  <2> QED  BY <2>1, <2>2
<1>2. row[u].id = row[v].id => u = v
  BY DEF IInv, TypeOK
<1> QED  BY <1>1, <1>2 DEF Before

\* A row before another one has the smaller rank.
LEMMA RankLess ==
    ASSUME IInv, NEW rows \in SUBSET Visible, NEW u \in rows, NEW v \in rows, Before(u, v)
    PROVE  Rank(u, rows) < Rank(v, rows)
<1> DEFINE below(x) == {y \in rows : Before(y, x)}
<1>1. rows \in SUBSET Outs
  BY DEF Visible
<1>2. IsFiniteSet(below(v)) /\ Rank(u, rows) \in Nat /\ Rank(v, rows) \in Nat
  BY <1>1, RankType
<1>3. below(u) \subseteq below(v)
  <2>1. rows \subseteq Visible /\ u \in Visible /\ v \in Visible
    OBVIOUS
  <2>2. ASSUME NEW y \in below(u) PROVE y \in below(v)
    BY <2>1, <2>2, Ordered
  <2> QED  BY <2>2
<1>4. u \in below(v) /\ u \notin below(u)
  BY Ordered
<1>5. Rank(u, rows) = Cardinality(below(u)) /\ Rank(v, rows) = Cardinality(below(v))
  BY DEF Rank
<1>6. Cardinality(below(u)) <= Cardinality(below(v)) /\ Cardinality(below(u)) # Cardinality(below(v))
  BY <1>2, <1>3, <1>4, FS_Subset
<1> QED  BY <1>2, <1>5, <1>6

\* The ranks of rows have no gaps: where a row is beyond a page, the page is full
\* (LIMIT and OFFSET).
LEMMA NoGaps ==
    ASSUME IInv, NEW rows \in SUBSET Visible, NEW w \in rows,
           NEW n \in Nat, NEW m \in Nat \ {0}, Rank(w, rows) >= n + m
    PROVE  LET page == {v \in rows : Rank(v, rows) >= n /\ Rank(v, rows) < n + m}
           IN  IsFiniteSet(page) /\ Cardinality(page) \in Nat /\ Cardinality(page) >= m
<1> DEFINE page == {v \in rows : Rank(v, rows) >= n /\ Rank(v, rows) < n + m}
           below == {v \in rows : Before(v, w)}
           r == Rank(w, rows)
           rank == [v \in below |-> Rank(v, rows)]
           onPage == [v \in page |-> Rank(v, rows)]
<1>1. rows \in SUBSET Outs /\ rows \subseteq Visible
  BY DEF Visible
<1>2. \A v \in rows : Rank(v, rows) \in Nat
  BY <1>1, RankType
<1>3. r = Cardinality(below) /\ r \in Nat /\ r >= n + m
  BY <1>2 DEF Rank
<1>4. rank \in Injection(below, 0..(r - 1))
  <2>1. \A v \in below : v \in rows /\ Rank(v, rows) \in Nat /\ Rank(v, rows) < r
    BY <1>2, RankLess
  <2>2. rank \in [below -> 0..(r - 1)]
    BY <1>3, <2>1
  <2>3. ASSUME NEW u \in below, NEW v \in below, u # v PROVE rank[u] # rank[v]
    <3>1. Before(u, v) \/ Before(v, u)
      BY <2>3, Ordered
    <3>2. Rank(u, rows) < Rank(v, rows) \/ Rank(v, rows) < Rank(u, rows)
      BY <3>1, RankLess
    <3> QED  BY <1>2, <3>2
  <2> QED  BY <2>2, <2>3 DEF Injection, IsInjective
<1>5. IsFiniteSet(0..(r - 1)) /\ Cardinality(0..(r - 1)) = r
  <2> HIDE DEF r
  <2>1. r - 1 \in Int /\ 0 \in Int
    BY <1>3
  <2>2. IsFiniteSet(0..(r - 1)) /\ Cardinality(0..(r - 1)) = IF 0 > r - 1 THEN 0 ELSE (r - 1) - 0 + 1
    BY <2>1, FS_Interval
  <2> QED  BY <1>3, <2>2
<1>6. rank \in Surjection(below, 0..(r - 1))
  BY <1>3, <1>4, <1>5, FS_Injection
<1>7. onPage \in Surjection(page, n..(n + m - 1))
  <2>1. onPage \in [page -> n..(n + m - 1)]
    BY <1>2
  <2>2. ASSUME NEW k \in n..(n + m - 1) PROVE \E v \in page : onPage[v] = k
    <3>1. k \in 0..(r - 1)
      BY <1>3
    <3>2. PICK v \in below : rank[v] = k
      BY <1>6, <3>1 DEF Surjection
    <3>3. v \in page /\ onPage[v] = k
      BY <3>2
    <3> QED  BY <3>3
  <2> QED  BY <2>1, <2>2 DEF Surjection
<1>8. page \subseteq Outs
  BY <1>1
<1>9. IsFiniteSet(page)
  BY <1>8, OutsAssumption, FS_Subset
<1>10. Cardinality(n..(n + m - 1)) = m
  BY FS_Interval
<1>11. Cardinality(n..(n + m - 1)) <= Cardinality(page)
  BY <1>7, <1>9, FS_Surjection
<1> QED  BY <1>9, <1>10, <1>11, FS_CardinalityType

\* What was seen stays as it was, and what is gone is gone for good (Insert, EndOut,
\* Take, CommitDelete, AnswerLost).
LEMMA SeenRowsStay ==
    ASSUME IInv, [Next]_vars
    PROVE  /\ Gone \subseteq Gone' /\ Absent' \subseteq Absent
           /\ \A w \in Visible \cup Gone : w \in Visible' \cup Gone' /\ row'[w] = row[w]
<1> SUFFICES /\ Gone \subseteq Gone'
             /\ \A w \in Visible \cup Gone : w \in Visible' \cup Gone' /\ row'[w] = row[w]
  BY DEF Absent
<1>1. stage \in [Outs -> {"none", "open", "inserted", "visible", "gone", "undone"}]
      /\ DOMAIN row = Outs /\ \A a \in Operators : locked[a] \subseteq Visible
  BY DEF IInv, TypeOK, LocksInv
<1>2. CASE UNCHANGED <<stage, row>>
  BY <1>2 DEF Visible, Gone
<1>3. ASSUME NEW w \in Outs, BeginOut(w) \/ Insert(w) \/ EndOut(w) \/ Take(w)
      PROVE  \A v \in Outs : /\ stage[v] = "gone" => stage'[v] = "gone"
                             /\ stage[v] \in {"visible", "gone"} =>
                                   row'[v] = row[v] /\ stage'[v] \in {"visible", "gone"}
  BY <1>1, <1>3 DEF BeginOut, Insert, EndOut, Take
<1>4. ASSUME NEW a \in Operators, Removed(a), UNCHANGED row
      PROVE  \A v \in Outs : /\ stage[v] = "gone" => stage'[v] = "gone"
                             /\ stage[v] \in {"visible", "gone"} =>
                                   row'[v] = row[v] /\ stage'[v] \in {"visible", "gone"}
  BY <1>1, <1>4 DEF Removed
<1>5. CASE \/ UNCHANGED vars \/ Tick
           \/ \E a \in Operators : \/ \E c \in Commands[a] : List(a, c) \/ Get(a, c) \/ Delete(a, c)
                                   \/ Rollback(a)
  BY <1>2, <1>5 DEF vars, tupleVars, Tick, List, Get, Delete, Rollback
<1>6. CASE \E w \in Outs : BeginOut(w) \/ Insert(w) \/ EndOut(w) \/ Take(w)
  BY <1>3, <1>6 DEF Visible, Gone
<1>7. CASE \E a \in Operators : CommitDelete(a) \/ AnswerLost(a)
  BY <1>4, <1>7 DEF Visible, Gone, CommitDelete, AnswerLost
<1> QED  BY <1>5, <1>6, <1>7 DEF Next

\* As long as nothing is removed a row that is listed stays so, and its rank does not
\* become less; as long as nothing is put there is no row that was not there.
LEMMA RanksMove ==
    ASSUME IInv, [Next]_vars, NEW f
    PROVE  /\ Gone' = Gone =>
                /\ Listed(f) \subseteq Listed(f)'
                /\ \A w \in Listed(f) : Rank(w, Listed(f)) <= Rank(w, Listed(f))'
           /\ Absent' = Absent =>
                /\ Listed(f)' \subseteq Listed(f)
                /\ \A w \in Listed(f)' : Rank(w, Listed(f))' <= Rank(w, Listed(f))
<1>1. /\ Gone \subseteq Gone'
      /\ \A w \in Visible \cup Gone : w \in Visible' \cup Gone' /\ row'[w] = row[w]
  BY SeenRowsStay
<1>2. \A w \in Visible \cup Gone : Matches(w, f)' <=> Matches(w, f)
  BY <1>1, MatchesKept
<1>3. /\ Listed(f) \subseteq Outs /\ Listed(f)' \subseteq Outs
      /\ Listed(f) \subseteq Visible /\ Listed(f)' \subseteq Visible'
  BY DEF Listed, Visible
<1>4. \A v, w \in Visible : Before(v, w)' <=> Before(v, w)
  BY <1>1 DEF Before
<1>5. ASSUME Gone' = Gone
      PROVE  /\ Listed(f) \subseteq Listed(f)'
             /\ \A w \in Listed(f) : Rank(w, Listed(f)) <= Rank(w, Listed(f))'
  <2>1. Listed(f) \subseteq Listed(f)'
    BY <1>1, <1>2, <1>5 DEF Listed, Visible, Gone
  <2>2. ASSUME NEW w \in Listed(f) PROVE Rank(w, Listed(f)) <= Rank(w, Listed(f))'
    <3>1. {v \in Listed(f) : Before(v, w)} \subseteq {v \in Listed(f)' : Before(v, w)'}
      BY <1>3, <1>4, <2>1
    <3>2. IsFiniteSet({v \in Listed(f)' : Before(v, w)'})
      BY <1>3, OutsAssumption, FS_Subset
    <3> QED  BY <3>1, <3>2, FS_Subset DEF Rank
  <2> QED  BY <2>1, <2>2
<1>6. ASSUME Absent' = Absent
      PROVE  /\ Listed(f)' \subseteq Listed(f)
             /\ \A w \in Listed(f)' : Rank(w, Listed(f))' <= Rank(w, Listed(f))
  <2>1. Visible' \subseteq Visible
    BY <1>1, <1>6 DEF Absent, Visible, Gone
  <2>2. Listed(f)' \subseteq Listed(f)
    BY <1>2, <2>1 DEF Listed
  <2>3. ASSUME NEW w \in Listed(f)' PROVE Rank(w, Listed(f))' <= Rank(w, Listed(f))
    <3>1. {v \in Listed(f)' : Before(v, w)'} \subseteq {v \in Listed(f) : Before(v, w)}
      BY <1>3, <1>4, <2>1, <2>2
    <3>2. IsFiniteSet({v \in Listed(f) : Before(v, w)})
      BY <1>3, RankType
    <3> QED  BY <3>1, <3>2, FS_Subset DEF Rank
  <2> QED  BY <2>2, <2>3
<1> QED  BY <1>5, <1>6

\* A page that is not the first one starts where the last one ended.
LEMMA SameRows ==
    ASSUME NEW t, NEW f \in Filters, IsNextPage(t, f)
    PROVE  /\ Listed(f) = Listed(t.filter)
           /\ t.filter.limit = f.limit /\ f.offset = t.next
<1>1. [f EXCEPT !.offset = 0] = t.filter /\ f.offset = t.next
  BY DEF IsNextPage
<1>2. /\ t.filter.space = f.space /\ t.filter.limit = f.limit
      /\ t.filter.created_before = f.created_before /\ t.filter.created_after = f.created_after
  BY <1>1 DEF Filters
<1>3. \A w : Matches(w, f) <=> Matches(w, t.filter)
  BY <1>2 DEF Matches, CreatedBefore
<1> QED  BY <1>1, <1>2, <1>3 DEF Listed

LEMMA FirstPageRight ==
    ASSUME IInv, NEW f \in Filters, f.limit > 0, f.offset = 0
    PROVE  PagesRight(FirstPage(f))
<1> DEFINE rows == Listed(f)
<1>1. f.limit \in Nat \ {0}
  BY DEF Filters
<1>2. rows \subseteq Visible /\ rows \subseteq Outs
  BY DEF Listed, Visible
<1>3. \A w \in rows : Rank(w, rows) \in Nat
  BY <1>2, RankType
<1>4. Page(f) = {w \in rows : Rank(w, rows) >= 0 /\ Rank(w, rows) < 0 + f.limit}
  BY <1>1, <1>3 DEF Page
<1>5. ASSUME NEW w \in rows, w \notin Page(f)
      PROVE  ~(Cardinality(Page(f)) < f.limit) /\ Rank(w, rows) >= f.limit
  <2>1. Rank(w, rows) >= f.limit
    BY <1>1, <1>3, <1>4, <1>5
  <2>2. Cardinality(Page(f)) \in Nat /\ Cardinality(Page(f)) >= f.limit
    <3>1. PICK n \in Nat : n = 0
      OBVIOUS
    <3>2. rows \in SUBSET Visible /\ w \in rows /\ Rank(w, rows) >= n + f.limit
      BY <1>1, <1>2, <2>1, <3>1
    <3>3. Page(f) = {v \in rows : Rank(v, rows) >= n /\ Rank(v, rows) < n + f.limit}
      BY <1>4, <3>1
    <3> DEFINE m == f.limit
    <3>4. m \in Nat \ {0} /\ Rank(w, rows) >= n + m
      BY <1>1, <3>2
    <3> HIDE DEF rows, m
    <3>5. LET page == {v \in rows : Rank(v, rows) >= n /\ Rank(v, rows) < n + m}
          IN  IsFiniteSet(page) /\ Cardinality(page) \in Nat /\ Cardinality(page) >= m
      BY <3>2, <3>4, NoGaps
    <3> QED  BY <3>3, <3>5 DEF m
  <2> QED  BY <1>1, <2>1, <2>2
<1>6. \A w \in Page(f) : w \in rows /\ Rank(w, rows) < f.limit
  BY <1>1, <1>3, <1>4
<1> DEFINE t == FirstPage(f)
<1>7. /\ t.filter = f /\ t.next = f.limit /\ (t.over <=> Cardinality(Page(f)) < f.limit)
      /\ t.listed = Page(f) /\ t.twice = FALSE /\ t.start = rows /\ t.gone = Gone /\ t.absent = Absent
  BY DEF FirstPage, Absent
<1> HIDE DEF t
<1>8. PagesRight(t)
  BY <1>1, <1>2, <1>5, <1>6, <1>7 DEF PagesRight
<1> QED  BY <1>8 DEF t

LEMMA NextPageRight ==
    ASSUME IInv, NEW t, PagesRight(t), NEW f \in Filters, IsNextPage(t, f)
    PROVE  PagesRight(NextPage(t, f))
<1> DEFINE rows == Listed(f)
<1>1. /\ Listed(t.filter) = rows /\ t.filter.limit = f.limit /\ f.offset = t.next /\ ~t.over
      /\ f.limit \in Nat \ {0} /\ t.next \in Nat /\ t.next + f.limit \in Nat
  BY SameRows DEF IsNextPage, PagesRight
<1>2. rows \subseteq Visible /\ rows \subseteq Outs
  BY DEF Listed, Visible
<1>3. \A w \in rows : Rank(w, rows) \in Nat
  BY <1>2, RankType
<1>4. Page(f) = {w \in rows : Rank(w, rows) >= t.next /\ Rank(w, rows) < t.next + f.limit}
  BY <1>1, <1>3 DEF Page
<1> DEFINE u == NextPage(t, f)
<1>5. /\ u.filter = t.filter /\ u.next = t.next + f.limit
      /\ (u.over <=> Cardinality(Page(f)) < f.limit) /\ u.listed = t.listed \cup Page(f)
      /\ u.twice = (t.twice \/ Page(f) \cap t.listed # {})
      /\ u.start = t.start /\ u.gone = t.gone /\ u.absent = t.absent
  BY DEF NextPage
<1> HIDE DEF u
<1>6. ASSUME Gone = t.gone, NEW w \in t.start \ u.listed
      PROVE  w \in rows /\ ~u.over /\ Rank(w, rows) >= u.next
  <2>1. w \in rows /\ Rank(w, rows) >= t.next /\ w \notin Page(f)
    BY <1>1, <1>5, <1>6 DEF PagesRight
  <2>2. Rank(w, rows) >= t.next + f.limit
    BY <1>1, <1>3, <1>4, <2>1
  <2>3. Cardinality(Page(f)) \in Nat /\ Cardinality(Page(f)) >= f.limit
    <3> DEFINE m == f.limit
               n == t.next
    <3>1. rows \in SUBSET Visible /\ w \in rows
      BY <1>2, <2>1
    <3>2. Page(f) = {v \in rows : Rank(v, rows) >= n /\ Rank(v, rows) < n + m}
      BY <1>4
    <3>3. n \in Nat /\ m \in Nat \ {0} /\ Rank(w, rows) >= n + m
      BY <1>1, <2>2
    <3> HIDE DEF rows, m, n
    <3>4. LET page == {v \in rows : Rank(v, rows) >= n /\ Rank(v, rows) < n + m}
          IN  IsFiniteSet(page) /\ Cardinality(page) \in Nat /\ Cardinality(page) >= m
      BY <3>1, <3>3, NoGaps
    <3> QED  BY <3>2, <3>4 DEF m
  <2>4. ~u.over
    BY <1>1, <1>5, <2>3
  <2> QED  BY <1>5, <2>1, <2>2, <2>4
<1>7. ASSUME Absent = t.absent
      PROVE  ~u.twice /\ \A w \in u.listed \cap rows : Rank(w, rows) < u.next
  <2>1. ~t.twice /\ \A w \in t.listed \cap rows : Rank(w, rows) < t.next
    BY <1>1, <1>7 DEF PagesRight
  <2>2. Page(f) \cap t.listed = {}
    BY <1>1, <1>3, <1>4, <2>1
  <2>3. \A w \in u.listed \cap rows : Rank(w, rows) < t.next + f.limit
    BY <1>1, <1>3, <1>4, <1>5, <2>1
  <2> QED  BY <1>5, <2>1, <2>2, <2>3
<1>8. u.listed \subseteq Visible \cup Gone
  BY <1>2, <1>4, <1>5 DEF PagesRight
<1>9. PagesRight(u)
  BY <1>1, <1>5, <1>6, <1>7, <1>8 DEF PagesRight
<1> QED  BY <1>9 DEF u

\* What was told stays right while others put and remove tuples.
LEMMA PagesKept ==
    ASSUME IInv, IInv', [Next]_vars, NEW t, PagesRight(t)
    PROVE  PagesRight(t)'
<1> DEFINE rows == Listed(t.filter)
<1>1. /\ t.filter.limit \in Nat \ {0} /\ t.next \in Nat
      /\ t.gone \subseteq Gone /\ Absent \subseteq t.absent /\ t.listed \subseteq Visible \cup Gone
  BY DEF PagesRight
<1>2. /\ Gone \subseteq Gone' /\ Absent' \subseteq Absent
      /\ \A w \in Visible \cup Gone : w \in Visible' \cup Gone'
  BY SeenRowsStay
<1>3. rows \subseteq Outs /\ rows' \subseteq Outs
  BY DEF Listed, Visible
<1>4. /\ \A w : Rank(w, rows) \in Nat
      /\ \A w : Rank(w, rows)' \in Nat
  <2>1. ASSUME NEW w PROVE Rank(w, rows) \in Nat
    BY <1>3, RankType
  <2>2. ASSUME NEW w PROVE Rank(w, rows)' \in Nat
    <3>1. {v \in rows' : Before(v, w)'} \subseteq Outs
      BY <1>3
    <3>2. IsFiniteSet({v \in rows' : Before(v, w)'})
      BY <3>1, OutsAssumption, FS_Subset
    <3> QED  BY <3>2, FS_CardinalityType DEF Rank
  <2> QED  BY <2>1, <2>2
<1>5. ASSUME Gone' = t.gone, NEW w \in t.start \ t.listed
      PROVE  w \in rows' /\ ~t.over /\ Rank(w, rows)' >= t.next
  <2>1. Gone' = Gone /\ Gone = t.gone
    BY <1>1, <1>2, <1>5
  <2>2. w \in rows /\ ~t.over /\ Rank(w, rows) >= t.next
    BY <1>5, <2>1 DEF PagesRight
  <2>3. w \in rows' /\ Rank(w, rows) <= Rank(w, rows)'
    BY <2>1, <2>2, RanksMove
  <2> QED  BY <1>1, <1>4, <2>2, <2>3
<1>6. ASSUME Absent' = t.absent
      PROVE  ~t.twice /\ \A w \in t.listed \cap rows' : Rank(w, rows)' < t.next
  <2>1. Absent' = Absent /\ Absent = t.absent
    BY <1>1, <1>2, <1>6
  <2>2. ~t.twice /\ \A w \in t.listed \cap rows : Rank(w, rows) < t.next
    BY <2>1 DEF PagesRight
  <2>3. rows' \subseteq rows /\ \A w \in rows' : Rank(w, rows)' <= Rank(w, rows)
    BY <2>1, RanksMove
  <2> QED  BY <1>1, <1>4, <2>2, <2>3
<1> QED  BY <1>1, <1>2, <1>5, <1>6 DEF PagesRight

LEMMA PagesInductive == IInv /\ IInv' /\ PagesInv /\ [Next]_vars => PagesInv'
<1> SUFFICES ASSUME IInv, IInv', PagesInv, [Next]_vars, NEW a \in Operators, told'[a].kind = "pages"
             PROVE  PagesRight(told[a])'
  BY DEF PagesInv
<1>1. CASE told'[a] = told[a]
  <2>1. PICK t : t = told[a]
    OBVIOUS
  <2>2. PagesRight(t)'
    BY <1>1, <2>1, PagesKept DEF PagesInv
  <2> QED  BY <1>1, <2>1, <2>2
<1>2. CASE told'[a] # told[a]
  <2>1. PICK c \in Commands[a] : List(a, c) \/ Get(a, c)
    <3>1. ~ UNCHANGED told
      BY <1>2
    <3>2. ~ UNCHANGED vars /\ ~ Tick
      BY <3>1 DEF vars, Tick
    <3>3. \A w \in Outs : ~(BeginOut(w) \/ Insert(w) \/ EndOut(w) \/ Take(w))
      BY <3>1 DEF BeginOut, Insert, EndOut, Take
    <3>4. \A b \in Operators : ~(CommitDelete(b) \/ AnswerLost(b) \/ Rollback(b))
      BY <3>1 DEF CommitDelete, AnswerLost, Rollback
    <3>5. PICK b \in Operators : \E c \in Commands[b] : List(b, c) \/ Get(b, c)
      BY <3>1, <3>2, <3>3, <3>4 DEF Next, Delete
    <3>6. b = a
      BY <1>2, <3>5 DEF List, Get, IInv, TypeOK
    <3> QED  BY <3>5, <3>6
  <2>2. ~Get(a, c)
    BY DEF Get, IInv, TypeOK
  <2> DEFINE f == c.filter
  <2>3. f \in Filters
    BY CommandsAssumption
  <2>4. PICK t : t = told[a] /\ (t.kind = "pages" => PagesRight(t))
    BY DEF PagesInv
  <2>5. UNCHANGED tupleVars /\ told' = [told EXCEPT ![a] = told'[a]]
        /\ told'[a] = IF f.limit = 0 /\ f.offset = 0 THEN Listing(f)
                      ELSE IF f.limit > 0 /\ f.offset = 0 THEN FirstPage(f)
                      ELSE IF IsNextPage(t, f) THEN NextPage(t, f)
                      ELSE Nothing
    BY <2>1, <2>2, <2>4 DEF List, IInv, TypeOK
  <2>6. Listing(f).kind # "pages" /\ Nothing.kind # "pages"
    BY DEF Listing, Nothing
  <2>7. PagesRight(told'[a])
    <3>1. CASE f.limit > 0 /\ f.offset = 0 /\ told'[a] = FirstPage(f)
      BY <2>3, <3>1, FirstPageRight
    <3>2. CASE IsNextPage(t, f) /\ told'[a] = NextPage(t, f)
      <4>1. PagesRight(t)
        BY <2>4, <3>2 DEF IsNextPage
      <4> QED  BY <2>3, <3>2, <4>1, NextPageRight
    <3> QED  BY <2>5, <2>6, <3>1, <3>2
  <2>8. PICK u : u = told'[a]
    OBVIOUS
  <2>9. PagesRight(u)' <=> PagesRight(u)
    BY <2>5 DEF PagesRight, Listed, Matches, CreatedBefore, Rank, Before, Visible, Gone, Absent, tupleVars
  <2> QED  BY <2>7, <2>8, <2>9
<1> QED  BY <1>1, <1>2

-------------------------------------------------------------------------------
(* The theorems *)

\* Ids stay unique among the rows that are there or were, and no operator holds rows
\* without a command (the whole of Admin).
THEOREM TypeCorrect == Spec => []TypeOK
<1>1. IInv => TypeOK
  BY DEF IInv
<1> QED  BY <1>1, Invariant, PTL

\* Of those who take, delete or purge a tuple one at most is told that it has, and then
\* it is gone (DeleteTupleByID, DeleteTuples).
THEOREM RemovedAtMostOnce == Spec => []RemovedOnce
<1>1. IInv => RemovedOnce
  BY DEF IInv
<1> QED  BY <1>1, Invariant, PTL

\* A purge by the filter of an export removes nothing that the export does not have,
\* but for what was being put while it was read, and leaves nothing that it has; a
\* delete removes the row that was shown (Purge, DeleteTuple).
THEOREM RemovedStepsWereShown == Spec => RemovedWasShown
<1>1. ASSUME IInv, [Next]_vars
      PROVE  [\A a \in Operators :
                LET removed == {w \in locked[a] : stage[w] = "visible" /\ stage'[w] = "gone"}
                IN  removed # {} =>
                    /\ RoutedTo(command[a], {"purge"}) /\ told[a].kind = "all"
                       /\ command[a].filter = told[a].filter
                       /\ told[a].filter.created_before \in 1..told[a].at
                       => /\ removed \subseteq told[a].listed \cup told[a].open
                          /\ \A w \in told[a].listed : stage'[w] = "gone"
                    /\ RoutedTo(command[a], {"delete"}) /\ told[a].kind = "one"
                       /\ command[a].id = told[a].row.id
                       => \A w \in removed : row[w] = told[a].row]_vars
  <2> SUFFICES ASSUME NEW a \in Operators, NEW v \in locked[a],
                      stage[v] = "visible", stage'[v] = "gone"
               PROVE  /\ RoutedTo(command[a], {"purge"}) /\ told[a].kind = "all"
                         /\ command[a].filter = told[a].filter
                         /\ told[a].filter.created_before \in 1..told[a].at
                         => /\ locked[a] \subseteq told[a].listed \cup told[a].open
                            /\ \A w \in told[a].listed : stage'[w] = "gone"
                      /\ RoutedTo(command[a], {"delete"}) /\ told[a].kind = "one"
                         /\ command[a].id = told[a].row.id
                         => \A w \in locked[a] : row[w] = told[a].row
    OBVIOUS
  <2>1. command[a] # Idle /\ Removed(a)
    BY <1>1, RemovedByOwner
  <2>2. locked[a] \subseteq Outs
    BY <1>1 DEF IInv, TypeOK
  <2> QED  BY <1>1, <2>1, <2>2, PurgedWasListed, DeletedWasShown
<1> QED  BY <1>1, Invariant, PTL DEF Spec, RemovedWasShown

\* Whoever reads page after page, until one is not full, has seen every tuple there was
\* at the start if none was removed meanwhile, and none twice if none was put, whatever
\* the order of the ids' commits (ListTuples, peek --limit --offset).
THEOREM PagesStayComplete == Spec => []PagesComplete
<1>1. IInv /\ Init => PagesInv
  BY DEF Init, PagesInv, Nothing
<1>2. PagesInv => PagesComplete
  BY DEF PagesInv, PagesRight, PagesComplete, Absent
<1> QED  BY <1>1, <1>2, Invariant, PagesInductive, PTL DEF Spec
===============================================================================
