-------------------------------- MODULE Server --------------------------------
(***************************************************************************)
(* The processes of tuplespaced (cmd/tuplespaced/main.go) over one         *)
(* database: start-up with the migrations (internal/migrations), the       *)
(* requests a process serves as far as they use its connection pool and    *)
(* its notifier, and its end, by a signal, by an error, or by being killed.*)
(*                                                                         *)
(* A server is one run of the process; a restart is another server.  Of    *)
(* the database it keeps the schema; what the requests do to tuples is in  *)
(* TupleStore and Service.                                                 *)
(***************************************************************************)
EXTENDS Integers, FiniteSets, Sequences

CONSTANTS
    Servers,
    Objects,    \* names of tables and indexes
    Entries,    \* the entries of the directory migrations/, with what each creates, in order
    Requests,   \* requests that may be under way at a time
    May,        \* May[r]: the kinds of operation request r asks for
    MaxConns,   \* the size of a process's connection pool
    NoOne       \* no server, no file

VARIABLES
    catalog,    \* the tables and indexes of the database
    creator,    \* creator[o]: the server whose open transaction has created o
    phase,      \* how far each process is in runServer
    signalled,  \* its context is done: SIGINT or SIGTERM was received
    drain,      \* the goroutine that waits for the signal and then calls Shutdown
    file,       \* the migration it applied last
    exec,       \* what has become of its Exec
    at,         \* its statement
    absent,     \* the statement has found that its object does not exist
    home,       \* home[r]: the process that serves request r
    kind,       \* its operation
    place,      \* where its goroutine is
    again,      \* the operation has another query to make
    seen        \* the tables and indexes that schema has found

migrationVars == <<catalog, creator, file, exec, at, absent>>
processVars == <<phase, signalled, drain>>
requestVars == <<home, kind, place, again, seen>>
vars == <<migrationVars, processVars, requestVars>>

Kinds == {"out",     \* any operation of one transaction or one query
          "wait",    \* rd and in with a wait
          "stats", "schema"}

\* The migrations, applied in the order of their names.
listEntries_Mutant == {e \in Entries : ~e.isDir}
listEntries == {e \in Entries : ~e.isDir /\ e.isSQL}

Created(e) == {e.creates[k] : k \in DOMAIN e.creates}

requiredSchemaTables == {"tuples", "tuple_fields"}
requiredSchemaIndexes == {"tuples_space_arity_id_idx", "tuple_fields_text_idx",
                          "tuple_fields_int_idx", "tuple_fields_bool_idx"}

\* migrations/001_init_tuplespace.sql
init_tuplespace == <<"tuples", "tuple_fields", "tuples_space_arity_id_idx",
                     "tuple_fields_text_idx", "tuple_fields_int_idx", "tuple_fields_bool_idx">>

ASSUME EntriesAssumption ==
    /\ Entries \subseteq [name : Nat \ {0}, isDir : BOOLEAN, isSQL : BOOLEAN,
                          creates : Seq(Objects)]
    /\ \A e, f \in Entries : e.name = f.name => e = f
    /\ \A e, f \in listEntries : Created(e) \cap Created(f) # {} => e = f
    /\ \E e \in listEntries : e.creates = init_tuplespace
ASSUME RequestsAssumption == May \in [Requests -> SUBSET Kinds]
ASSUME PoolAssumption == MaxConns \in Nat \ {0}
ASSUME NoOneAssumption == NoOne \notin Servers \cup Entries

Phases == {"off",
           "migrating",    \* in ApplyFS
           "starting",     \* the goroutine is started, ListenAndServe is not yet called
           "listening",    \* in ListenAndServe
           "unwinding",    \* about to run notifier.Close
           "closing",      \* in db.Close
           "exited"}

Places == {"none",
           "subscribing", "unsubscribing", "counting",   \* in a call of the notifier
           "acquiring",                                  \* waiting for a connection
           "querying",                                   \* using it
           "selecting",                                  \* in the select of read
           "answering"}

TypeOK ==
    /\ catalog \subseteq Objects
    /\ creator \in [Objects -> Servers \cup {NoOne}]
    /\ phase \in [Servers -> Phases]
    /\ signalled \in [Servers -> BOOLEAN]
    /\ drain \in [Servers -> {"none", "waiting", "draining", "over"}]
    /\ file \in [Servers -> {e \in Entries : e.isSQL} \cup {NoOne}]
    /\ exec \in [Servers -> {"none", "running", "ok", "error", "duplicate"}]
    /\ at \in [Servers -> Nat \ {0}]
    /\ absent \in [Servers -> BOOLEAN]
    /\ home \in [Requests -> Servers \cup {NoOne}]
    /\ kind \in [Requests -> Kinds \cup {"none"}]
    /\ place \in [Requests -> Places]
    /\ again \in [Requests -> BOOLEAN]
    /\ seen \in [Requests -> SUBSET Objects]

Init ==
    /\ \E n \in {0} \cup {e.name : e \in listEntries} :
          catalog = UNION {Created(e) : e \in {f \in listEntries : f.name <= n}}
    /\ creator = [o \in Objects |-> NoOne]
    /\ phase = [p \in Servers |-> "off"]
    /\ signalled = [p \in Servers |-> FALSE]
    /\ drain = [p \in Servers |-> "none"]
    /\ file = [p \in Servers |-> NoOne]
    /\ exec = [p \in Servers |-> "none"]
    /\ at = [p \in Servers |-> 1]
    /\ absent = [p \in Servers |-> FALSE]
    /\ home = [r \in Requests |-> NoOne]
    /\ kind = [r \in Requests |-> "none"]
    /\ place = [r \in Requests |-> "none"]
    /\ again = [r \in Requests |-> FALSE]
    /\ seen = [r \in Requests |-> {}]

-------------------------------------------------------------------------------
(* The end of a process *)

GoTo(p, next) == phase' = [phase EXCEPT ![p] = next]

ForgetExec(p) ==
    /\ file' = [file EXCEPT ![p] = NoOne]
    /\ exec' = [exec EXCEPT ![p] = "none"]

\* Nobody waits for its Exec any more; PostgreSQL may still be executing it.
LeaveExec(p) ==
    /\ IF exec[p] = "running" THEN UNCHANGED <<file, exec>> ELSE ForgetExec(p)
    /\ UNCHANGED <<catalog, creator, at, absent>>

\* Its memory is gone, and the goroutines of its requests with it.
Exit(p) ==
    LET lost == {r \in Requests : home[r] = p} IN
    /\ GoTo(p, "exited")
    /\ signalled' = [signalled EXCEPT ![p] = FALSE]
    /\ drain' = [drain EXCEPT ![p] = "none"]
    /\ home' = [r \in Requests |-> IF r \in lost THEN NoOne ELSE home[r]]
    /\ kind' = [r \in Requests |-> IF r \in lost THEN "none" ELSE kind[r]]
    /\ place' = [r \in Requests |-> IF r \in lost THEN "none" ELSE place[r]]
    /\ again' = [r \in Requests |-> r \notin lost /\ again[r]]
    /\ seen' = [r \in Requests |-> IF r \in lost THEN {} ELSE seen[r]]
    /\ LeaveExec(p)

\* SIGINT or SIGTERM.  A second one changes nothing: NotifyContext still has it.
Signal(p) ==
    /\ phase[p] \notin {"off", "exited"} /\ ~signalled[p]
    /\ signalled' = [signalled EXCEPT ![p] = TRUE]
    /\ UNCHANGED <<migrationVars, phase, drain, requestVars>>

\* SIGKILL, a panic, the end of the machine.
Kill(p) == phase[p] \notin {"off", "exited"} /\ Exit(p)

CloseNotifier(p) ==
    /\ phase[p] = "unwinding"
    /\ GoTo(p, "closing")
    /\ UNCHANGED <<migrationVars, signalled, drain, requestVars>>

Holds_Mutant(r) == place[r] \in {"querying", "selecting", "unsubscribing"}
Holds(r) == place[r] = "querying"
Conns(p) == {r \in Requests : home[r] = p /\ Holds(r)}

\* The pool's Close waits until every connection has been returned.
ClosePool(p) == phase[p] = "closing" /\ Conns(p) = {} /\ Exit(p)

-------------------------------------------------------------------------------
(* Start-up *)

\* Run and NewPool, which does not connect; either may fail.
Start(p) ==
    /\ phase[p] = "off"
    /\ \E next \in {"migrating", "exited"} : GoTo(p, next)
    /\ UNCHANGED <<migrationVars, signalled, drain, requestVars>>

Left(p) == {e \in listEntries : file[p] = NoOne \/ e.name > file[p].name}
IsNext_Mutant(p, e) == e \in Left(p)
IsNext(p, e) == e \in Left(p) /\ \A f \in Left(p) : e.name <= f.name

\* ApplyFS: db.Exec of the next file.
Apply(p, e) ==
    /\ phase[p] = "migrating" /\ exec[p] \in {"none", "ok"}
    /\ IsNext(p, e)
    /\ file' = [file EXCEPT ![p] = e]
    /\ exec' = [exec EXCEPT ![p] = "running"]
    /\ UNCHANGED <<catalog, creator, at, absent, processVars, requestVars>>

\* The Exec has failed, or its context is done.
MigrationFails(p) ==
    /\ phase[p] = "migrating"
    /\ exec[p] \in {"error", "duplicate"} \/ signalled[p]
    /\ GoTo(p, "closing")
    /\ LeaveExec(p)
    /\ UNCHANGED <<signalled, drain, requestVars>>

AllApplied_Mutant(p) == exec[p] # "running" /\ Left(p) = {}
AllApplied(p) == exec[p] \in {"none", "ok"} /\ Left(p) = {}

\* notify.New, which fails when the context is done, and the start of the goroutine.
NewNotifier(p) ==
    /\ phase[p] = "migrating" /\ AllApplied(p)
    /\ \/ /\ ~signalled[p] /\ GoTo(p, "starting")
          /\ drain' = [drain EXCEPT ![p] = "waiting"]
       \/ GoTo(p, "closing") /\ UNCHANGED drain
    /\ ForgetExec(p)
    /\ UNCHANGED <<catalog, creator, at, absent, signalled, requestVars>>

\* ListenAndServe fails, also after Shutdown has begun.
Listen(p) ==
    /\ phase[p] = "starting"
    /\ \/ drain[p] = "waiting" /\ GoTo(p, "listening")
       \/ GoTo(p, "unwinding")
    /\ UNCHANGED <<migrationVars, signalled, drain, requestVars>>

\* The goroutine calls Shutdown, which waits until no request is being served
\* or ShutdownGrace has passed.
Shutdown(p) ==
    /\ signalled[p] /\ drain[p] = "waiting"
    /\ drain' = [drain EXCEPT ![p] = "draining"]
    /\ UNCHANGED <<migrationVars, phase, signalled, requestVars>>

ShutdownReturns(p) ==
    /\ drain[p] = "draining"
    /\ drain' = [drain EXCEPT ![p] = "over"]
    /\ UNCHANGED <<migrationVars, phase, signalled, requestVars>>

\* ListenAndServe returns as soon as Shutdown has begun.
ServerClosed(p) ==
    /\ phase[p] = "listening" /\ drain[p] # "waiting"
    /\ GoTo(p, "unwinding")
    /\ UNCHANGED <<migrationVars, signalled, drain, requestVars>>

-------------------------------------------------------------------------------
(* PostgreSQL executes a file: one implicit transaction, whose statements   *)
(* are CREATE ... IF NOT EXISTS.  It goes on when the process is gone.      *)

Statement(p) == file[p].creates[at[p]]
Running(p) == exec[p] = "running"
MoreStatements(p) == Running(p) /\ at[p] <= Len(file[p].creates)

\* What the transaction has created so far.
Own(p) == {o \in Objects : creator[o] = p}

NextStatement(p) ==
    /\ at' = [at EXCEPT ![p] = @ + 1]
    /\ absent' = [absent EXCEPT ![p] = FALSE]

\* IF NOT EXISTS: the statement looks, before it creates anything.
Look(p) ==
    /\ MoreStatements(p) /\ ~absent[p]
    /\ IF Statement(p) \in catalog \cup Own(p)
       THEN NextStatement(p)
       ELSE absent' = [absent EXCEPT ![p] = TRUE] /\ UNCHANGED at
    /\ UNCHANGED <<catalog, creator, file, exec, processVars, requestVars>>

\* CREATE: it waits for another transaction that creates the same.
Create(p) ==
    /\ MoreStatements(p) /\ absent[p]
    /\ creator[Statement(p)] = NoOne /\ Statement(p) \notin catalog
    /\ creator' = [creator EXCEPT ![Statement(p)] = p]
    /\ NextStatement(p)
    /\ UNCHANGED <<catalog, file, exec, processVars, requestVars>>

Forget(p) == creator' = [o \in Objects |-> IF creator[o] = p THEN NoOne ELSE creator[o]]

End(p, result) ==
    /\ IF phase[p] = "migrating"
       THEN exec' = [exec EXCEPT ![p] = result] /\ UNCHANGED file
       ELSE ForgetExec(p)
    /\ Forget(p)
    /\ at' = [at EXCEPT ![p] = 1]
    /\ absent' = [absent EXCEPT ![p] = FALSE]
    /\ UNCHANGED <<processVars, requestVars>>

\* The other transaction has committed: a unique violation in the catalog.
Duplicate(p) ==
    /\ MoreStatements(p) /\ absent[p]
    /\ Statement(p) \in catalog
    /\ End(p, "duplicate")
    /\ UNCHANGED catalog

\* Any other error, or the connection of a process that is gone.
Abort(p) ==
    /\ Running(p)
    /\ End(p, "error")
    /\ UNCHANGED catalog

\* The end of the file, and of the implicit transaction.
AtEnd_Mutant(p) == Running(p) /\ ~absent[p]
AtEnd(p) == Running(p) /\ ~MoreStatements(p)

CommitFile(p) ==
    /\ AtEnd(p)
    /\ catalog' = catalog \cup Own(p)
    /\ End(p, "ok")

-------------------------------------------------------------------------------
(* The requests of a process *)

NotifierRuns(p) == phase[p] \in {"starting", "listening", "unwinding"}

MoveTo(r, next) == place' = [place EXCEPT ![r] = next]

\* Shutdown closes the listeners and the idle connections first of all.
Arrive(r, p) ==
    /\ place[r] = "none"
    /\ phase[p] = "listening" /\ drain[p] = "waiting"
    /\ home' = [home EXCEPT ![r] = p]
    /\ \E k \in May[r] :
          /\ kind' = [kind EXCEPT ![r] = k]
          /\ MoveTo(r, IF k = "wait" THEN "subscribing" ELSE "acquiring")
          /\ again' = [again EXCEPT ![r] = k \in {"stats", "schema"}]
    /\ seen' = [seen EXCEPT ![r] = {}]
    /\ UNCHANGED <<migrationVars, processVars>>

\* A call of the notifier returns; none does once the notifier's loop has ended.
NotifierReturns(r) ==
    /\ place[r] \in {"subscribing", "unsubscribing", "counting"}
    /\ NotifierRuns(home[r])
    /\ MoveTo(r, IF place[r] = "subscribing" THEN "acquiring" ELSE "answering")
    /\ UNCHANGED <<migrationVars, processVars, home, kind, again, seen>>

\* Begin, Query or QueryRow takes a connection from the pool.
Acquire(r) ==
    /\ place[r] = "acquiring"
    /\ phase[home[r]] # "closing"
    /\ Cardinality(Conns(home[r])) < MaxConns
    /\ MoveTo(r, "querying")
    /\ UNCHANGED <<migrationVars, processVars, home, kind, again, seen>>

\* The answer is written.
Leave(r) ==
    /\ MoveTo(r, "none")
    /\ home' = [home EXCEPT ![r] = NoOne]
    /\ kind' = [kind EXCEPT ![r] = "none"]
    /\ again' = [again EXCEPT ![r] = FALSE]
    /\ seen' = [seen EXCEPT ![r] = {}]
    /\ UNCHANGED <<migrationVars, processVars>>

Answer(r) == place[r] = "answering" /\ Leave(r)

\* The second query of Schema is for the indexes, the first for the tables.
Looked(r) ==
    IF kind[r] # "schema" THEN {}
    ELSE catalog \cap (IF again[r] THEN requiredSchemaTables ELSE requiredSchemaIndexes)

\* Where the operation goes on when it has returned its connection.
AfterQuery(r) ==
    CASE again[r] -> {"acquiring"}
      [] kind[r] = "wait" -> {"selecting", "unsubscribing"}
      [] kind[r] = "stats" -> {"counting"}
      [] OTHER -> {"answering"}

Release(r) ==
    /\ place[r] = "querying"
    /\ \E next \in AfterQuery(r) : MoveTo(r, next)
    /\ again' = [again EXCEPT ![r] = FALSE]
    /\ seen' = [seen EXCEPT ![r] = @ \cup Looked(r)]
    /\ UNCHANGED <<migrationVars, processVars, home, kind>>

\* No connection, or a query that fails: the context is done, the pool is closed,
\* the connection broke.  The answer is an error.
Fail(r) ==
    /\ place[r] \in {"acquiring", "querying"}
    /\ \/ kind[r] # "wait" /\ Leave(r)
       \/ /\ kind[r] = "wait" /\ MoveTo(r, "unsubscribing")
          /\ UNCHANGED <<migrationVars, processVars, home, kind, again, seen>>

\* A notification, if the notifier still delivers any.
Wake(r) ==
    /\ place[r] = "selecting" /\ NotifierRuns(home[r])
    /\ MoveTo(r, "acquiring")
    /\ UNCHANGED <<migrationVars, processVars, home, kind, again, seen>>

\* The wait is over, or the caller is gone.
WaitOver(r) ==
    /\ place[r] = "selecting"
    /\ MoveTo(r, "unsubscribing")
    /\ UNCHANGED <<migrationVars, processVars, home, kind, again, seen>>

-------------------------------------------------------------------------------

ExecStep(p) == Look(p) \/ Create(p) \/ Duplicate(p) \/ CommitFile(p) \/ Abort(p)

\* What a process does by itself.
ProcessStep(p) ==
    \/ (\E e \in listEntries : Apply(p, e)) \/ MigrationFails(p)
    \/ NewNotifier(p) \/ Listen(p)
    \/ Shutdown(p) \/ ServerClosed(p)
    \/ CloseNotifier(p) \/ ClosePool(p)

RequestStep(r) == NotifierReturns(r) \/ Acquire(r) \/ Release(r) \/ Answer(r)

Next ==
    \/ \E p \in Servers :
          \/ Start(p) \/ Signal(p) \/ Kill(p)
          \/ ProcessStep(p) \/ ShutdownReturns(p)
          \/ ExecStep(p)
    \/ \E r \in Requests :
          \/ \E p \in Servers : Arrive(r, p)
          \/ RequestStep(r)
          \/ Fail(r) \/ Wake(r) \/ WaitOver(r)

(***************************************************************************)
(* Goroutines are scheduled, and queries return.  The pool serves those    *)
(* that wait for a connection in their order, so that none is overtaken    *)
(* for ever: the steps of a request are strongly fair.                     *)
(***************************************************************************)
Fairness ==
    /\ \A p \in Servers : WF_vars(ProcessStep(p))
    /\ \A r \in Requests : SF_vars(RequestStep(r))

Spec == Init /\ [][Next]_vars /\ Fairness

-------------------------------------------------------------------------------
(* Properties *)

\* Whatever servers start, fail, or are killed at the same time, the schema is what
\* the first so many migrations make, none of them in part (ApplyFS); and a server
\* that failed because another was faster leaves that migration applied, so that
\* starting it again helps.
MigrationsAreAtomic ==
    /\ \A e \in listEntries :
          Created(e) \cap catalog # {} =>
              \A f \in listEntries : f.name <= e.name => Created(f) \subseteq catalog
    /\ \A p \in Servers : exec[p] = "duplicate" => Created(file[p]) \subseteq catalog

Schema == UNION {Created(e) : e \in listEntries}

\* cmd/tuplespaced/doc/tuplespaced-overview.md:31: a server that serves requests has
\* the whole schema.  So has its admin schema command, whose two queries another
\* server's migration may come between: it reports nothing missing.
NeverDegraded ==
    /\ \A p \in Servers : phase[p] \in {"starting", "listening"} => Schema \subseteq catalog
    /\ \A r \in Requests :
          place[r] = "answering" /\ kind[r] = "schema" =>
              requiredSchemaTables \cup requiredSchemaIndexes \subseteq seen[r]

\* A request gets its connection and comes to its answer, or to wait for a tuple,
\* however many requests wait for tuples: those hold no connection.
RequestsProceed ==
    \A r \in Requests :
        place[r] # "none" ~> place[r] \in {"none", "selecting"} \/ phase[home[r]] # "listening"

\* A process that was told to stop ends, at any point of its start-up or of its
\* requests: nobody who holds a connection waits for the notifier, which has ended.
ShutdownEnds == \A p \in Servers : signalled[p] ~> phase[p] = "exited"

\* cmd/tuplespaced/main.go:92: ``Grace period for HTTP shutdown''.  As long as
\* Shutdown waits, within that period, for requests that are being served, they keep
\* the notifier and the pool that they need for their answers.
GraceIsGiven ==
    \A p \in Servers :
        drain[p] = "draining" /\ (\E r \in Requests : home[r] = p) => phase[p] # "closing"
===============================================================================
