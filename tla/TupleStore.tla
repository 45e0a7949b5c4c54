------------------------------ MODULE TupleStore ------------------------------
(***************************************************************************)
(* The operations of the service on PostgreSQL, statement by statement:    *)
(* Out, readOnce, consumeOnce (internal/service/service.go), DeleteTuple   *)
(* and Purge (internal/service/admin.go), with the queries they run        *)
(* (internal/store).  Blocking is not here: an In or Rd of this module is  *)
(* one turn of the loop in Service.read.                                   *)
(*                                                                         *)
(* A session is a request and the database connection it has taken from    *)
(* the pool.  PostgreSQL runs at READ COMMITTED: each statement sees the   *)
(* rows committed when it starts; a row that a transaction inserted,       *)
(* deleted or selected FOR UPDATE is locked by it until it ends.  A row of *)
(* `tuples' stands for its `tuple_fields' too: they are inserted with it,  *)
(* locked after it and deleted with it.                                    *)
(***************************************************************************)
EXTENDS Integers, FiniteSets

CONSTANTS
    Sessions,         \* requests, each with its connection
    Tuples,           \* tuple contents, the space they are in included
    Templates,        \* templates, the space they ask in included
    Candidates,       \* Candidates[p]: the tuples the SQL filter of p lets through
    Matches,          \* Matches[p]: the tuples match.Match accepts for p
    Spaces, SpaceOf,  \* SpaceOf[t]: the space of a tuple
    Filters,          \* what delete and purge ask for: sets of rows
    CandidateLimit,   \* LIMIT of the candidate query
    MaxId,            \* bound: the rows ever inserted
    NoOne             \* not a session, not an argument

Ids == 1..MaxId

ASSUME CandidatesAssumption == Candidates \in [Templates -> SUBSET Tuples]
ASSUME MatchesAssumption ==
    /\ Matches \in [Templates -> SUBSET Tuples]
    /\ \A p \in Templates : Matches[p] \subseteq Candidates[p]
ASSUME SpaceAssumption == SpaceOf \in [Tuples -> Spaces]
ASSUME FilterAssumption == Filters \subseteq SUBSET Ids
ASSUME LimitAssumption == CandidateLimit \in Nat \ {0}
ASSUME BoundAssumption == MaxId \in Nat
ASSUME NoOneAssumption == NoOne \notin Sessions \cup Tuples

VARIABLES
    status,   \* [Ids -> Statuses]
    tuple,    \* the content of each row, NoOne before it is inserted
    lock,     \* [Ids -> Sessions \cup {NoOne}]: whose transaction locks the row
    nextId,   \* the sequence behind tuples.id
    pc,       \* where each session is
    op,       \* its operation and argument
    snap,     \* candidate rows its running statement saw when it started
    visit,    \* those it has not come to yet
    held,     \* candidates it locked and returned to the service
    skipped,  \* rows it passed over because another transaction locked them
    target,   \* rows its transaction inserted, or deletes
    notes,    \* spaces its transaction called pg_notify for
    reply     \* what the operation returned

rowVars == <<status, tuple, lock, nextId>>
scanVars == <<snap, visit, held, skipped>>
vars == <<rowVars, pc, op, scanVars, target, notes, reply>>

Statuses == {"free",                \* the sequence has not reached it
             "inserted", "aborted", \* by an open transaction; by one that failed
             "live", "gone"}        \* committed; its deletion is committed

PCs == {"idle", "called",           \* no request; its transaction is begun
        "inserted",                 \* Out: between INSERT and pg_notify
        "locking", "matching",      \* In: SELECT ... FOR UPDATE; the loop over it
        "deleting",                 \* delete, purge: the DELETE statement runs
        "commit", "committed",      \* COMMIT sent; done, answer on its way
        "broken", "broken_commit"}  \* the service gave up, the server has not seen it

Operations ==
    [kind : {"none"}, arg : {NoOne}]
        \cup [kind : {"out"}, arg : Tuples]
        \cup [kind : {"rd", "in"}, arg : Templates]
        \cup [kind : {"delete"}, arg : SUBSET Ids]

NoOperation == [kind |-> "none", arg |-> NoOne]
NoReply == [res |-> "none", ids |-> {}]
Replies == [res : {"none", "ok", "found", "not_found", "error"}, ids : SUBSET Ids]

TypeOK ==
    /\ status \in [Ids -> Statuses]
    /\ tuple \in [Ids -> Tuples \cup {NoOne}]
    /\ lock \in [Ids -> Sessions \cup {NoOne}]
    /\ nextId \in Nat
    /\ pc \in [Sessions -> PCs]
    /\ op \in [Sessions -> Operations]
    /\ snap \in [Sessions -> SUBSET Ids]
    /\ visit \in [Sessions -> SUBSET Ids]
    /\ held \in [Sessions -> SUBSET Ids]
    /\ skipped \in [Sessions -> SUBSET Ids]
    /\ target \in [Sessions -> SUBSET Ids]
    /\ notes \in [Sessions -> SUBSET Spaces]
    /\ reply \in [Sessions -> Replies]

Init ==
    /\ status = [i \in Ids |-> "free"]
    /\ tuple = [i \in Ids |-> NoOne]
    /\ lock = [i \in Ids |-> NoOne]
    /\ nextId = 1
    /\ pc = [s \in Sessions |-> "idle"]
    /\ op = [s \in Sessions |-> NoOperation]
    /\ snap = [s \in Sessions |-> {}]
    /\ visit = [s \in Sessions |-> {}]
    /\ held = [s \in Sessions |-> {}]
    /\ skipped = [s \in Sessions |-> {}]
    /\ target = [s \in Sessions |-> {}]
    /\ notes = [s \in Sessions |-> {}]
    /\ reply = [s \in Sessions |-> NoReply]

-------------------------------------------------------------------------------
\* The definitions named ..._Mutant are plausible mistakes in the code they
\* stand beside; no specification uses them.

Visible_Mutant == {i \in Ids : status[i] \in {"inserted", "live"}}
Visible == {i \in Ids : status[i] = "live"}
CandidateRows(p) == {i \in Visible : tuple[i] \in Candidates[p]}
MatchingRows_Mutant(p, rows) == rows
MatchingRows(p, rows) == {i \in rows : tuple[i] \in Matches[p]}

First(rows) == CHOOSE i \in rows : \A j \in rows : i <= j
Window(rows) == {i \in rows : Cardinality({j \in rows : j < i}) < CandidateLimit}

Return(s, res, ids) == reply' = [reply EXCEPT ![s] = [res |-> res, ids |-> ids]]

Goto(s, label) == pc' = [pc EXCEPT ![s] = label]

Lockable_Mutant(i) == status[i] = "live"
Lockable(i) == lock[i] = NoOne /\ status[i] = "live"
Lock_Mutant(s, i) == UNCHANGED lock
Lock(s, i) == lock' = [lock EXCEPT ![i] = s]
Unlock_Mutant(s) == UNCHANGED lock
Unlock(s) == lock' = [i \in Ids |-> IF lock[i] = s THEN NoOne ELSE lock[i]]

\* Bound: no more Outs at a time than there are rows left.
Room == nextId + Cardinality({s \in Sessions : pc[s] = "called" /\ op[s].kind = "out"}) <= MaxId

\* The end of a statement whose rows are of no more use.
ForgetScan(s) ==
    /\ snap' = [snap EXCEPT ![s] = {}]
    /\ visit' = [visit EXCEPT ![s] = {}]
    /\ held' = [held EXCEPT ![s] = {}]
    /\ skipped' = [skipped EXCEPT ![s] = {}]

\* A request arrives; it begins its transaction (Rd needs none).
Call(s, operation) ==
    /\ pc[s] = "idle"
    /\ operation.kind = "out" => Room
    /\ op' = [op EXCEPT ![s] = operation]
    /\ Goto(s, "called")
    /\ ForgetScan(s)
    /\ target' = [target EXCEPT ![s] = {}]
    /\ reply' = [reply EXCEPT ![s] = NoReply]
    /\ UNCHANGED <<rowVars, notes>>

\* Out: store.InsertTuple.  MaxId bounds the model, not the code.
Insert(s) ==
    /\ pc[s] = "called" /\ op[s].kind = "out"
    /\ nextId <= MaxId
    /\ nextId' = nextId + 1
    /\ tuple' = [tuple EXCEPT ![nextId] = op[s].arg]
    /\ status' = [status EXCEPT ![nextId] = "inserted"]
    /\ lock' = [lock EXCEPT ![nextId] = s]
    /\ target' = [target EXCEPT ![s] = {nextId}]
    /\ Goto(s, "inserted")
    /\ UNCHANGED <<op, scanVars, notes, reply>>

Notify_Mutant(s) ==
    /\ pc[s] = "inserted"
    /\ Goto(s, "commit")
    /\ UNCHANGED <<rowVars, op, scanVars, target, notes, reply>>

Channel_Mutant(t) == t
Channel(t) == SpaceOf[t]

\* Out: SELECT pg_notify; PostgreSQL keeps the notification until the commit.
Notify(s) ==
    /\ pc[s] = "inserted"
    /\ notes' = [notes EXCEPT ![s] = {Channel(op[s].arg)}]
    /\ Goto(s, "commit")
    /\ UNCHANGED <<rowVars, op, scanVars, target, reply>>

\* readOnce: one SELECT, then the first candidate that matches.
Read(s) ==
    /\ pc[s] = "called" /\ op[s].kind = "rd"
    /\ LET p == op[s].arg
           found == MatchingRows(p, Window(CandidateRows(p)))
       IN IF found # {} THEN Return(s, "found", {First(found)})
                        ELSE Return(s, "not_found", {})
    /\ Goto(s, "idle")
    /\ UNCHANGED <<rowVars, op, scanVars, target, notes>>

\* consumeOnce: SELECT ... ORDER BY id FOR UPDATE SKIP LOCKED LIMIT n starts.
SelectForUpdate(s) ==
    /\ pc[s] = "called" /\ op[s].kind = "in"
    /\ snap' = [snap EXCEPT ![s] = CandidateRows(op[s].arg)]
    /\ visit' = [visit EXCEPT ![s] = CandidateRows(op[s].arg)]
    /\ Goto(s, "locking")
    /\ UNCHANGED <<rowVars, op, held, skipped, target, notes, reply>>

MoreRows_Mutant(s) ==
    pc[s] = "locking" /\ visit[s] # {} /\ Cardinality(held[s]) < CandidateLimit - 1
MoreRows(s) ==
    pc[s] = "locking" /\ visit[s] # {} /\ Cardinality(held[s]) < CandidateLimit

LockRow(s) ==
    LET i == First(visit[s]) IN
    /\ MoreRows(s)
    /\ Lockable(i)
    /\ Lock(s, i)
    /\ held' = [held EXCEPT ![s] = @ \cup {i}]
    /\ visit' = [visit EXCEPT ![s] = @ \ {i}]
    /\ UNCHANGED <<status, tuple, nextId, pc, op, snap, skipped, target, notes, reply>>

Skippable_Mutant(i) == status[i] # "live"
Skippable(i) == lock[i] # NoOne \/ status[i] # "live"

\* The row is locked by another transaction, or was deleted since the
\* statement started.
SkipRow(s) ==
    LET i == First(visit[s]) IN
    /\ MoreRows(s)
    /\ Skippable(i)
    /\ skipped' = [skipped EXCEPT ![s] = IF lock[i] # NoOne THEN @ \cup {i} ELSE @]
    /\ visit' = [visit EXCEPT ![s] = @ \ {i}]
    /\ UNCHANGED <<rowVars, pc, op, snap, held, target, notes, reply>>

EndSelect(s) ==
    /\ pc[s] = "locking" /\ ~MoreRows(s)
    /\ Goto(s, "matching")
    /\ UNCHANGED <<rowVars, op, scanVars, target, notes, reply>>

\* The first candidate that matches is deleted.  The row is locked by s: the
\* DELETE does not wait.
Take(s) ==
    LET found == MatchingRows(op[s].arg, held[s]) IN
    /\ pc[s] = "matching" /\ found # {}
    /\ target' = [target EXCEPT ![s] = {First(found)}]
    /\ ForgetScan(s)
    /\ Goto(s, "commit")
    /\ UNCHANGED <<rowVars, op, notes, reply>>

\* No candidate matches: the deferred Rollback, then "not found".  A Rollback
\* under a context that is done fails, and closes the connection.
NoMatch(s) ==
    /\ pc[s] = "matching" /\ MatchingRows(op[s].arg, held[s]) = {}
    /\ \/ Unlock(s) /\ Goto(s, "idle")
       \/ UNCHANGED lock /\ Goto(s, "broken")
    /\ Return(s, "not_found", {})
    /\ UNCHANGED <<status, tuple, nextId, op, scanVars, target, notes>>

\* DeleteTuple and Purge: DELETE FROM tuples WHERE ... starts.
Delete(s) ==
    /\ pc[s] = "called" /\ op[s].kind = "delete"
    /\ snap' = [snap EXCEPT ![s] = Visible \cap op[s].arg]
    /\ visit' = [visit EXCEPT ![s] = Visible \cap op[s].arg]
    /\ Goto(s, "deleting")
    /\ UNCHANGED <<rowVars, op, held, skipped, target, notes, reply>>

\* One row of it, in the order of whatever plan PostgreSQL chose.  A row
\* another transaction locks is waited for, one it deleted is left out.
DeleteRow(s, i) ==
    /\ pc[s] = "deleting" /\ i \in visit[s]
    /\ lock[i] = NoOne
    /\ visit' = [visit EXCEPT ![s] = @ \ {i}]
    /\ IF status[i] = "live"
       THEN /\ Lock(s, i)
            /\ target' = [target EXCEPT ![s] = @ \cup {i}]
       ELSE UNCHANGED <<lock, target>>
    /\ UNCHANGED <<status, tuple, nextId, pc, op, snap, held, skipped, notes, reply>>

EndDelete(s) ==
    /\ pc[s] = "deleting" /\ visit[s] = {}
    /\ ForgetScan(s)
    /\ Goto(s, "commit")
    /\ UNCHANGED <<rowVars, op, target, notes, reply>>

\* What the commit makes of the rows the transaction inserted or deleted.
Apply(s) ==
    /\ status' = [i \in Ids |-> IF i \notin target[s] THEN status[i]
                                ELSE IF status[i] = "inserted" THEN "live" ELSE "gone"]
    /\ Unlock(s)
    /\ notes' = [notes EXCEPT ![s] = {}]

Commit(s) ==
    /\ pc[s] = "commit"
    /\ Apply(s)
    /\ Goto(s, "committed")
    /\ UNCHANGED <<tuple, nextId, op, scanVars, target, reply>>

Answer(s) ==
    /\ pc[s] = "committed"
    /\ Return(s, IF op[s].kind = "in" THEN "found" ELSE "ok", target[s])
    /\ Goto(s, "idle")
    /\ UNCHANGED <<rowVars, op, scanVars, target, notes>>

\* The request's context ends (the caller is gone, the wait is over) or a
\* statement fails: the service answers with the error and its Rollback, under
\* the same context, closes the connection.  The server learns of it later.
GiveUp(s) ==
    /\ pc[s] \notin {"idle", "broken", "broken_commit"}
    /\ Goto(s, CASE pc[s] = "commit" -> "broken_commit"
                 [] pc[s] = "committed" -> "idle"
                 [] OTHER -> "broken")
    /\ Return(s, "error", {})
    /\ ForgetScan(s)
    /\ UNCHANGED <<rowVars, op, target, notes>>

\* The server drops the transaction of a closed connection.
Reap(s) ==
    /\ pc[s] \in {"broken", "broken_commit"}
    /\ status' = [i \in Ids |-> IF i \in target[s] /\ status[i] = "inserted"
                                THEN "aborted" ELSE status[i]]
    /\ Unlock(s)
    /\ target' = [target EXCEPT ![s] = {}]
    /\ notes' = [notes EXCEPT ![s] = {}]
    /\ Goto(s, "idle")
    /\ UNCHANGED <<tuple, nextId, op, scanVars, reply>>

\* Or it had already received the COMMIT.
LateCommit(s) ==
    /\ pc[s] = "broken_commit"
    /\ Apply(s)
    /\ Goto(s, "idle")
    /\ UNCHANGED <<tuple, nextId, op, scanVars, target, reply>>

\* Transactions in D wait for each other only; PostgreSQL fails one of them.
Deadlocked(D) ==
    \A s \in D : /\ pc[s] = "deleting" /\ visit[s] # {}
                 /\ \A i \in visit[s] : lock[i] \in D \ {s}

Victim(s) ==
    /\ \E D \in SUBSET Sessions : s \in D /\ Deadlocked(D)
    /\ GiveUp(s)

Requests ==
    [kind : {"out"}, arg : Tuples]
        \cup [kind : {"rd", "in"}, arg : Templates]
        \cup [kind : {"delete"}, arg : Filters]

\* The steps the service and the server take by themselves.
Step(s) ==
    \/ Insert(s) \/ Notify(s)
    \/ Read(s)
    \/ SelectForUpdate(s) \/ LockRow(s) \/ SkipRow(s) \/ EndSelect(s)
    \/ Take(s) \/ NoMatch(s)
    \/ Delete(s) \/ (\E i \in Ids : DeleteRow(s, i)) \/ EndDelete(s) \/ Victim(s)
    \/ Commit(s) \/ Answer(s)
    \/ Reap(s) \/ LateCommit(s)

Next ==
    \E s \in Sessions :
        \/ \E request \in Requests : Call(s, request)
        \/ Step(s)
        \/ GiveUp(s)

(***************************************************************************)
(* Goroutines are scheduled, PostgreSQL executes what it is sent and       *)
(* notices closed connections, and a DELETE that waits for a row comes     *)
(* before later lockers of that row (PostgreSQL queues it), so that it     *)
(* cannot be overtaken for ever.                                           *)
(***************************************************************************)
Fairness ==
    \A s \in Sessions :
        /\ WF_vars(Step(s))
        /\ SF_vars(\E i \in Ids : DeleteRow(s, i))

Spec == Init /\ [][Next]_vars /\ Fairness

-------------------------------------------------------------------------------
(* Safety *)

\* A row a transaction has locked to take, or deletes, stays live and locked
\* by it until it commits: nobody else removes a tuple that consumeOnce is
\* about to return (FOR UPDATE in candidate_query.go:72).
HeldRowsStay ==
    \A s \in Sessions :
        pc[s] \in {"locking", "matching", "deleting", "commit"} =>
            \A i \in held[s] \cup target[s] :
                lock[i] = s /\ status[i] = (IF op[s].kind = "out" THEN "inserted" ELSE "live")

Removed(s) == IF op[s].kind \in {"in", "delete"} /\ pc[s] \in {"committed", "idle"}
              THEN target[s] ELSE {}

\* A tuple is handed to one caller: no two requests remove the same tuple, and
\* what a request was told it removed is gone (README.md:21, consumeOnce).
TakenOnce ==
    \A s \in Sessions :
        /\ \A i \in Removed(s) : status[i] = "gone"
        /\ \A q \in Sessions \ {s} : Removed(s) \cap Removed(q) = {}

\* No lock outlives the transaction: every path of consumeOnce and of the
\* admin operations ends it, failures included (the deferred Rollback).
NoLockLeak ==
    \A i \in Ids : lock[i] # NoOne => pc[lock[i]] \notin {"idle", "called", "committed"}

\* No dirty read, no phantom take: a caller is only ever told of tuples that
\* were committed and that match what it asked for.
FoundIsReal ==
    \A s \in Sessions :
        reply[s].res = "found" =>
            \A i \in reply[s].ids :
                status[i] \in {"live", "gone"} /\ tuple[i] \in Matches[op[s].arg]

\* When In answers not_found, every matching tuple that was there when its
\* SELECT started is gone, or was locked by another request when the scan came
\* to it, or lies behind CandidateLimit other candidates.
NotFoundExplained ==
    \A s \in Sessions :
        op[s].kind = "in" /\ reply[s].res = "not_found" =>
            \A i \in MatchingRows(op[s].arg, snap[s]) :
                \/ status[i] = "gone"
                \/ i \in skipped[s]
                \/ i \in visit[s] /\ Cardinality(held[s]) = CandidateLimit

\* A tuple becomes visible only by the commit of a transaction that has called
\* pg_notify for its space: no waiter can miss it (Out, service.go:96-102).
AnnouncedWhenVisible ==
    [][\A i \in Ids : status[i] # "live" /\ status'[i] = "live" =>
          lock[i] # NoOne /\ SpaceOf[tuple[i]] \in notes[lock[i]]]_vars

\* A tuple leaves the space only by the commit of the transaction that locks it.
RemovedByLocker ==
    [][\A i \in Ids : status[i] = "live" /\ status'[i] # "live" =>
          lock[i] # NoOne /\ i \in target[lock[i]] /\ status'[i] = "gone"]_vars

\* Every request is answered, and its transaction ends, deadlocked purges and
\* closed connections included.
RequestsEnd == \A s \in Sessions : pc[s] # "idle" ~> pc[s] = "idle"

\* README.md:148 explains not_found by "No tuple matches the template": when In
\* answers it, a matching tuple that was there when its SELECT started is gone
\* or at least being removed.
InNotFoundMeansNoMatch ==
    \A s \in Sessions :
        op[s].kind = "in" /\ reply[s].res = "not_found" =>
            \A i \in MatchingRows(op[s].arg, snap[s]) : status[i] = "gone" \/ lock[i] # NoOne

\* The same of Rd, which locks nothing and is one SELECT.
RdNotFoundMeansNoMatch ==
    [][\A s \in Sessions :
          op[s].kind = "rd" /\ reply[s] = NoReply /\ reply'[s].res = "not_found" =>
              MatchingRows(op[s].arg, Visible) = {}]_vars

-------------------------------------------------------------------------------
(* The store implements the tuple space: a tuple is put when its row's       *)
(* insertion is committed, removed when its deletion is, and a request has   *)
(* changed the space from the commit on.                                     *)
SpaceView ==
    [i \in Ids |-> IF status[i] = "live" THEN "present"
                   ELSE IF status[i] = "gone" THEN "removed" ELSE "new"]
ValueView == [i \in Ids |-> IF status[i] \in {"live", "gone"} THEN tuple[i] ELSE NoOne]
ChangedView ==
    [s \in Sessions |-> IF pc[s] \in {"committed", "idle"} THEN target[s] ELSE {}]

Abstract == INSTANCE TupleSpace WITH
    space <- SpaceView, value <- ValueView, asked <- op, changed <- ChangedView, answer <- reply

AbstractSpec == Abstract!Spec
=============================================================================
