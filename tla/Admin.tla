-------------------------------- MODULE Admin ---------------------------------
(***************************************************************************)
(* The admin commands on tuples, from tuplespacectl through the HTTP       *)
(* routes and the service to PostgreSQL and back: dump, peek and export    *)
(* list tuples by pages, get shows one, delete and purge remove them,      *)
(* while other clients put tuples into the spaces and take them out.       *)
(*                                                                         *)
(* A tuple is named by the out request that puts it.  The rest of what     *)
(* writers and consumers do is in TupleStore; the waiters, notify-test and *)
(* stats are in Service, Notifier and Server.                              *)
(***************************************************************************)
EXTENDS Integers, FiniteSets

CONSTANTS
    Outs,       \* out requests
    Spaces,     \* tuple spaces, numbered in the order of their names
    Operators,  \* operators who run tuplespacectl admin
    Commands,   \* Commands[a]: the commands a runs
    MaxTime     \* bound of the clock

VARIABLES
    now,        \* PostgreSQL's clock
    nextId,     \* the sequence tuples_id_seq
    stage,      \* stage[w]: what has become of w's transaction and of its row
    row,        \* its row
    command,    \* command[a]: a's delete or purge, when its transaction is open
    locked,     \* the rows that it has deleted
    told,       \* told[a]: what a was shown last
    claims      \* claims[w]: how many clients were told that they removed w's tuple

tupleVars == <<now, nextId, stage, row>>
vars == <<tupleVars, command, locked, told, claims>>

Times == 1..MaxTime
None == 0       \* a filter without the field, no id, no time
AnySpace == 0

Filters == [space : Spaces \cup {AnySpace}, created_before : Times \cup {None},
            created_after : Times \cup {None}, limit : Int, offset : Int]

ListOps == {"dump", "peek", "export"}

ASSUME OutsAssumption == IsFiniteSet(Outs)
ASSUME SpacesAssumption == Spaces \subseteq Nat \ {AnySpace}
ASSUME TimeAssumption == MaxTime \in Nat \ {0}
ASSUME CommandsAssumption ==
    \A a \in Operators :
        Commands[a] \subseteq [op : ListOps \cup {"purge", "get", "delete"},
                               filter : Filters, confirm : BOOLEAN, id : Int]

Idle == [op |-> "none"]
Nothing == [kind |-> "nothing"]

Visible == {w \in Outs : stage[w] = "visible"}
Gone == {w \in Outs : stage[w] = "gone"}
Open == {w \in Outs : stage[w] \in {"open", "inserted"}}

TypeOK ==
    /\ now \in Times
    /\ nextId \in Nat \ {0}
    /\ stage \in [Outs -> {"none", "open", "inserted", "visible", "gone", "undone"}]
    /\ row \in [Outs -> [space : Spaces \cup {AnySpace}, created_at : Times \cup {None}, id : Nat]]
    /\ \A v, w \in Visible \cup Gone : row[v].id = row[w].id => v = w
    /\ DOMAIN command = Operators /\ DOMAIN told = Operators
    /\ \A a \in Operators : command[a] \in Commands[a] \cup {Idle}
    /\ locked \in [Operators -> SUBSET Outs]
    /\ \A a \in Operators : command[a] = Idle => locked[a] = {}
    /\ claims \in [Outs -> Nat]

Init ==
    /\ now = 1
    /\ nextId = 1
    /\ stage = [w \in Outs |-> "none"]
    /\ row = [w \in Outs |-> [space |-> AnySpace, created_at |-> None, id |-> None]]
    /\ command = [a \in Operators |-> Idle]
    /\ locked = [a \in Operators |-> {}]
    /\ told = [a \in Operators |-> Nothing]
    /\ claims = [w \in Outs |-> 0]

-------------------------------------------------------------------------------
(* The other clients *)

Tick ==
    /\ now < MaxTime
    /\ now' = now + 1
    /\ UNCHANGED <<nextId, stage, row, command, locked, told, claims>>

\* created_at is the time of the transaction's start, DEFAULT now().
BeginOut(w) ==
    /\ stage[w] = "none"
    /\ stage' = [stage EXCEPT ![w] = "open"]
    /\ \E s \in Spaces :
          row' = [row EXCEPT ![w] = [space |-> s, created_at |-> now, id |-> None]]
    /\ UNCHANGED <<now, nextId, command, locked, told, claims>>

\* The sequence gives ids out for good, also to transactions that fail.
Insert(w) ==
    /\ stage[w] = "open"
    /\ stage' = [stage EXCEPT ![w] = "inserted"]
    /\ row' = [row EXCEPT ![w].id = nextId]
    /\ nextId' = nextId + 1
    /\ UNCHANGED <<now, command, locked, told, claims>>

EndOut(w) ==
    /\ \/ stage[w] = "inserted" /\ stage' = [stage EXCEPT ![w] = "visible"]
       \/ stage[w] \in {"open", "inserted"} /\ stage' = [stage EXCEPT ![w] = "undone"]
    /\ UNCHANGED <<now, nextId, row, command, locked, told, claims>>

LockedRows == UNION {locked[a] : a \in Operators}

\* A consumer skips rows that are locked.
Take(w) ==
    /\ stage[w] = "visible" /\ w \notin LockedRows
    /\ stage' = [stage EXCEPT ![w] = "gone"]
    /\ claims' = [claims EXCEPT ![w] = @ + 1]
    /\ UNCHANGED <<now, nextId, row, command, locked, told>>

-------------------------------------------------------------------------------
(* A command on its way to its operation *)

\* The methods and paths of internal/client/admin.go.
Request(c) ==
    CASE c.op = "get"    -> [method |-> "GET", path |-> "tuples"]
      [] c.op = "delete" -> [method |-> "DELETE", path |-> "tuples"]
      [] OTHER           -> [method |-> "POST", path |-> c.op]

\* The routes of internal/api/httpapi/router.go, and what they hand the request to.
adminRoutes ==
    {[method |-> "POST", path |-> op, to |-> op] : op \in ListOps \cup {"purge"}}
        \cup {[method |-> "GET", path |-> "tuples", to |-> "get"],
              [method |-> "DELETE", path |-> "tuples", to |-> "delete"]}

RoutedTo(c, ops) ==
    \E route \in adminRoutes :
        route.to \in ops /\ [method |-> route.method, path |-> route.path] = Request(c)

validateTupleFilter(f) ==
    /\ f.limit >= 0 /\ f.offset >= 0
    /\ f.created_before # None /\ f.created_after # None => f.created_after < f.created_before

\* confirm_required, invalid_filter, invalid_tuple_id.
Accepted(c) ==
    \/ RoutedTo(c, ListOps) /\ validateTupleFilter(c.filter)
    \/ RoutedTo(c, {"purge"}) /\ c.confirm /\ validateTupleFilter(c.filter)
    \/ RoutedTo(c, {"get", "delete"}) /\ c.id > 0

CreatedBefore_Mutant(w, f) == f.created_before # None => row[w].created_at <= f.created_before
CreatedBefore(w, f) == f.created_before # None => row[w].created_at < f.created_before

\* appendTupleFilter
Matches(w, f) ==
    /\ f.space # AnySpace => row[w].space = f.space
    /\ CreatedBefore(w, f)
    /\ f.created_after # None => row[w].created_at > f.created_after

Listed(f) == {w \in Visible : Matches(w, f)}

\* ORDER BY space, id LIMIT limit OFFSET offset
Before(v, w) ==
    \/ row[v].space < row[w].space
    \/ row[v].space = row[w].space /\ row[v].id < row[w].id

Rank(w, rows) == Cardinality({v \in rows : Before(v, w)})

Page_Mutant(f) ==
    {w \in Listed(f) :
        /\ f.offset > 0 => Rank(w, Listed(f)) > f.offset
        /\ f.limit > 0 => Rank(w, Listed(f)) < f.offset + f.limit}
Page(f) ==
    {w \in Listed(f) :
        /\ Rank(w, Listed(f)) >= f.offset
        /\ f.limit > 0 => Rank(w, Listed(f)) < f.offset + f.limit}

-------------------------------------------------------------------------------
(* Listing and showing: ListTuples, GetTupleByID                           *)

\* A command on its way, and an answer on its way back, change nothing: an action is
\* what the server does for command c.  A command that is refused or that fails before
\* its statement is executed is no step.

Listing(f) == [kind |-> "all", filter |-> f, at |-> now, listed |-> Page(f), open |-> Open]

FirstPage(f) ==
    [kind |-> "pages", filter |-> f, next |-> f.limit, over |-> Cardinality(Page(f)) < f.limit,
     listed |-> Page(f), twice |-> FALSE,
     start |-> Listed(f), gone |-> Gone, absent |-> Outs \ (Visible \cup Gone)]

IsNextPage(t, f) ==
    /\ t.kind = "pages" /\ ~t.over
    /\ f.offset = t.next /\ [f EXCEPT !.offset = 0] = t.filter

NextPage(t, f) ==
    [kind |-> "pages", filter |-> t.filter, next |-> t.next + f.limit,
     over |-> Cardinality(Page(f)) < f.limit,
     listed |-> t.listed \cup Page(f), twice |-> t.twice \/ Page(f) \cap t.listed # {},
     start |-> t.start, gone |-> t.gone, absent |-> t.absent]

\* Who has seen a page asks for the next one, until one is not full.
List(a, c) ==
    LET f == c.filter IN
    /\ command[a] = Idle /\ Accepted(c) /\ RoutedTo(c, ListOps)
    /\ told' = [told EXCEPT ![a] =
                   IF f.limit = 0 /\ f.offset = 0 THEN Listing(f)
                   ELSE IF f.limit > 0 /\ f.offset = 0 THEN FirstPage(f)
                   ELSE IF IsNextPage(@, f) THEN NextPage(@, f)
                   ELSE Nothing]
    /\ UNCHANGED <<tupleVars, command, locked, claims>>

Get(a, c) ==
    /\ command[a] = Idle /\ Accepted(c) /\ RoutedTo(c, {"get"})
    /\ \E w \in Visible :
          row[w].id = c.id /\ told' = [told EXCEPT ![a] = [kind |-> "one", row |-> row[w]]]
    /\ UNCHANGED <<tupleVars, command, locked, claims>>

-------------------------------------------------------------------------------
(* Removing: DeleteTupleByID, DeleteTuples *)

Targets(c) ==
    {w \in Visible : IF RoutedTo(c, {"purge"}) THEN Matches(w, c.filter) ELSE row[w].id = c.id}

\* The statement waits for the transactions that have deleted one of its rows.
Delete(a, c) ==
    /\ command[a] = Idle /\ Accepted(c) /\ RoutedTo(c, {"purge", "delete"})
    /\ Targets(c) \cap LockedRows = {}
    /\ command' = [command EXCEPT ![a] = c]
    /\ locked' = [locked EXCEPT ![a] = Targets(c)]
    /\ UNCHANGED <<tupleVars, told, claims>>

Done_Mutant(a) == command' = [command EXCEPT ![a] = Idle] /\ UNCHANGED locked
Done(a) ==
    /\ command' = [command EXCEPT ![a] = Idle]
    /\ locked' = [locked EXCEPT ![a] = {}]

\* What the answer says was removed: the rows affected.
Affected_Mutant(a) ==
    locked[a] \cup {w \in Gone : RoutedTo(command[a], {"delete"}) /\ row[w].id = command[a].id}
Affected(a) == locked[a]

Removed(a) == stage' = [w \in Outs |-> IF w \in locked[a] THEN "gone" ELSE stage[w]]

CommitDelete(a) ==
    /\ command[a] # Idle
    /\ Removed(a)
    /\ claims' = [w \in Outs |-> IF w \in Affected(a) THEN claims[w] + 1 ELSE claims[w]]
    /\ Done(a)
    /\ UNCHANGED <<now, nextId, row, told>>

\* Committed, but the answer is lost: a failing Commit, a broken connection.
AnswerLost(a) ==
    /\ command[a] # Idle
    /\ Removed(a)
    /\ Done(a)
    /\ UNCHANGED <<now, nextId, row, told, claims>>

Rollback(a) ==
    /\ command[a] # Idle
    /\ Done(a)
    /\ UNCHANGED <<tupleVars, told, claims>>

Next ==
    \/ Tick
    \/ \E w \in Outs : BeginOut(w) \/ Insert(w) \/ EndOut(w) \/ Take(w)
    \/ \E a \in Operators :
          \/ \E c \in Commands[a] : List(a, c) \/ Get(a, c) \/ Delete(a, c)
          \/ CommitDelete(a) \/ AnswerLost(a) \/ Rollback(a)

Spec == Init /\ [][Next]_vars

-------------------------------------------------------------------------------
(* Properties *)

\* An operator who exports what was created before some time that has come, and then
\* purges by the same filter, loses no tuple that the export does not have, other than
\* those whose transaction was open when the export was read; and what the export
\* has is no longer there.  Who deletes by the id of a tuple that get has shown removes
\* that tuple or none (Export, Purge, GetTuple, DeleteTuple).
RemovedWasShown ==
    [][\A a \in Operators :
          LET removed == {w \in locked[a] : stage[w] = "visible" /\ stage'[w] = "gone"}
          IN  removed # {} =>
              /\ RoutedTo(command[a], {"purge"}) /\ told[a].kind = "all"
                 /\ command[a].filter = told[a].filter
                 /\ told[a].filter.created_before \in 1..told[a].at
                 => /\ removed \subseteq told[a].listed \cup told[a].open
                    /\ \A w \in told[a].listed : stage'[w] = "gone"
              /\ RoutedTo(command[a], {"delete"}) /\ told[a].kind = "one"
                 /\ command[a].id = told[a].row.id
                 => \A w \in removed : row[w] = told[a].row]_vars

\* Reading page after page until one is not full: when no tuple was removed on the way,
\* every tuple there was at the first page is in one of them; when none was put, no
\* tuple is in two (ListTuples).
PagesComplete ==
    \A a \in Operators : told[a].kind = "pages" =>
        /\ told[a].over /\ Gone = told[a].gone => told[a].start \subseteq told[a].listed
        /\ Outs \ (Visible \cup Gone) = told[a].absent => ~told[a].twice

\* Of the clients who take a tuple, delete it by its id or purge it, only one is told
\* that it has removed it, and then it is gone (DeleteTupleByID, DeleteTuples).
RemovedOnce == \A w \in Outs : claims[w] <= 1 /\ (claims[w] = 1 => w \in Gone)
===============================================================================
