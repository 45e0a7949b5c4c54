----------------------------- MODULE ServerProofs -----------------------------
(***************************************************************************)
(* Proofs about Server for any number of processes, migrations and requests*)
(***************************************************************************)
EXTENDS Server, TLAPS

\* What an open transaction has created is its own: in its file, not yet in the catalog.
CreatorInv ==
    \A o \in Objects : creator[o] # NoOne =>
        /\ o \notin catalog
        /\ exec[creator[o]] = "running"
        /\ o \in Created(file[creator[o]])

\* A process applies the migrations in their order: it has come to a file when all
\* the earlier ones are in the catalog.
ExecInv ==
    \A p \in Servers :
        /\ exec[p] = "none" <=> file[p] = NoOne
        /\ file[p] # NoOne => file[p] \in listEntries
        /\ exec[p] # "running" => at[p] = 1 /\ ~absent[p]
        /\ exec[p] = "ok" => Created(file[p]) \subseteq catalog
        /\ file[p] # NoOne =>
              \A f \in listEntries : f.name < file[p].name => Created(f) \subseteq catalog

\* The statements a transaction has been through have their objects; the one that
\* has found its object absent is there.
StatementInv ==
    \A p \in Servers :
        exec[p] = "running" =>
            /\ absent[p] => at[p] \in DOMAIN file[p].creates
            /\ \A k \in DOMAIN file[p].creates :
                  k < at[p] => file[p].creates[k] \in catalog \cup Own(p)

MigrationInv == CreatorInv /\ ExecInv /\ StatementInv /\ MigrationsAreAtomic

\* A request that asks for the schema was let in by a process that has all of it; the
\* first query has found the tables.
SchemaInv ==
    \A r \in Requests : kind[r] = "schema" =>
        /\ Schema \subseteq catalog
        /\ place[r] \in {"acquiring", "querying", "answering"}
        /\ ~again[r] => requiredSchemaTables \subseteq seen[r]
        /\ place[r] = "answering" => requiredSchemaIndexes \subseteq seen[r] /\ ~again[r]

ServingInv ==
    \A p \in Servers : phase[p] \in {"starting", "listening"} => Schema \subseteq catalog

IInv == TypeOK /\ MigrationInv /\ ServingInv /\ SchemaInv

-------------------------------------------------------------------------------
(* The files *)

\* What is known of the migrations (listEntries).
LEMMA EntryFacts ==
    /\ \A e \in listEntries : /\ e \in Entries /\ e.isSQL /\ e # NoOne
                              /\ e.name \in Nat \ {0} /\ e.creates \in Seq(Objects)
                              /\ Created(e) \subseteq Objects
    /\ \A e, f \in listEntries : e.name = f.name => e = f
    /\ \A e, f \in listEntries : Created(e) \cap Created(f) # {} => e = f
    /\ NoOne \notin Servers
<1>1. ASSUME NEW e \in listEntries
      PROVE  /\ e \in Entries /\ e.isSQL /\ e # NoOne
             /\ e.name \in Nat \ {0} /\ e.creates \in Seq(Objects)
  BY EntriesAssumption, NoOneAssumption DEF listEntries
<1>2. ASSUME NEW e \in listEntries PROVE Created(e) \subseteq Objects
  BY <1>1 DEF Created
<1> QED  BY <1>1, <1>2, EntriesAssumption, NoOneAssumption DEF listEntries

\* The first migration makes every required object (migrations/001_init_tuplespace.sql).
LEMMA RequiredInSchema == requiredSchemaTables \cup requiredSchemaIndexes \subseteq Schema
<1>1. PICK e \in listEntries : e.creates = init_tuplespace
  BY EntriesAssumption
<1>2. DOMAIN init_tuplespace = 1..6
  BY DEF init_tuplespace
<1>3. /\ init_tuplespace[1] = "tuples" /\ init_tuplespace[2] = "tuple_fields"
      /\ init_tuplespace[3] = "tuples_space_arity_id_idx"
      /\ init_tuplespace[4] = "tuple_fields_text_idx"
      /\ init_tuplespace[5] = "tuple_fields_int_idx"
      /\ init_tuplespace[6] = "tuple_fields_bool_idx"
  BY DEF init_tuplespace
<1>4. \A k \in 1..6 : init_tuplespace[k] \in Created(e)
  BY <1>1, <1>2 DEF Created
<1>5. 1 \in 1..6 /\ 2 \in 1..6 /\ 3 \in 1..6 /\ 4 \in 1..6 /\ 5 \in 1..6 /\ 6 \in 1..6
  OBVIOUS
<1>6. requiredSchemaTables \cup requiredSchemaIndexes \subseteq Created(e)
  BY <1>3, <1>4, <1>5 DEF requiredSchemaTables, requiredSchemaIndexes
<1> QED  BY <1>6 DEF Schema

\* Every object of a running file has its place in it (Statement).
LEMMA StatementFacts ==
    ASSUME TypeOK, ExecInv, NEW p \in Servers, MoreStatements(p)
    PROVE  /\ file[p] \in listEntries /\ at[p] \in DOMAIN file[p].creates
           /\ Statement(p) \in Objects /\ Statement(p) \in Created(file[p])
<1>1. file[p] \in listEntries
  BY DEF MoreStatements, Running, ExecInv
<1>2. at[p] \in DOMAIN file[p].creates
  <2>1. file[p].creates \in Seq(Objects)  BY <1>1, EntryFacts
  <2>2. at[p] \in Nat \ {0}  BY DEF TypeOK
  <2> QED  BY <2>1, <2>2 DEF MoreStatements
<1> QED  BY <1>1, <1>2, EntryFacts DEF Statement, Created
-------------------------------------------------------------------------------
(* Types *)

\* What the end of a process leaves has its types (Exit).
LEMMA ExitTypes ==
    ASSUME TypeOK, ExecInv, NEW p \in Servers, Exit(p)
    PROVE  TypeOK'
<1>1. catalog' \subseteq Objects /\ creator' \in [Objects -> Servers \cup {NoOne}]
  BY DEF Exit, LeaveExec, TypeOK
<1>2. /\ file' \in [Servers -> {e \in Entries : e.isSQL} \cup {NoOne}]
      /\ exec' \in [Servers -> {"none", "running", "ok", "error", "duplicate"}]
      /\ at' \in [Servers -> Nat \ {0}] /\ absent' \in [Servers -> BOOLEAN]
  BY DEF Exit, LeaveExec, ForgetExec, TypeOK
<1>3. /\ phase' \in [Servers -> Phases] /\ signalled' \in [Servers -> BOOLEAN]
      /\ drain' \in [Servers -> {"none", "waiting", "draining", "over"}]
  BY DEF Exit, GoTo, Phases, TypeOK
<1>4. /\ home' \in [Requests -> Servers \cup {NoOne}]
      /\ kind' \in [Requests -> Kinds \cup {"none"}]
      /\ place' \in [Requests -> Places]
  BY DEF Exit, TypeOK, Places
<1>5. again' \in [Requests -> BOOLEAN] /\ seen' \in [Requests -> SUBSET Objects]
  BY DEF Exit, TypeOK
<1> QED  BY <1>1, <1>2, <1>3, <1>4, <1>5 DEF TypeOK

\* So has what the end of an Exec leaves (End).
LEMMA EndTypes ==
    ASSUME TypeOK, NEW p \in Servers,
           NEW result \in {"ok", "error", "duplicate"}, End(p, result),
           catalog' \subseteq Objects
    PROVE  TypeOK'
<1>1. creator' \in [Objects -> Servers \cup {NoOne}]
  BY DEF End, Forget, TypeOK
<1>2. /\ file' \in [Servers -> {e \in Entries : e.isSQL} \cup {NoOne}]
      /\ exec' \in [Servers -> {"none", "running", "ok", "error", "duplicate"}]
      /\ at' \in [Servers -> Nat \ {0}] /\ absent' \in [Servers -> BOOLEAN]
  BY DEF End, ForgetExec, TypeOK
<1> QED  BY <1>1, <1>2 DEF End, TypeOK, processVars, requestVars

LEMMA NextTypes ==
    ASSUME TypeOK, NEW p \in Servers, NextStatement(p)
    PROVE  at' \in [Servers -> Nat \ {0}] /\ absent' \in [Servers -> BOOLEAN]
<1>1. at[p] + 1 \in Nat \ {0}
  BY DEF TypeOK
<1> QED  BY <1>1 DEF NextStatement, TypeOK

LEMMA TypeStep == TypeOK /\ ExecInv /\ [Next]_vars => TypeOK'
<1> SUFFICES ASSUME TypeOK, ExecInv, [Next]_vars PROVE TypeOK'
  OBVIOUS
<1> USE DEF migrationVars, processVars, requestVars
<1>1. ASSUME NEW p \in Servers,
             Start(p) \/ Signal(p) \/ ShutdownReturns(p) \/ ProcessStep(p)
      PROVE  TypeOK'
  <2>1. CASE Start(p)
    BY <2>1 DEF Start, GoTo, Phases, TypeOK
  <2>2. CASE Signal(p)
    BY <2>2 DEF Signal, TypeOK
  <2>3. CASE ShutdownReturns(p)
    BY <2>3 DEF ShutdownReturns, TypeOK
  <2>4. ASSUME NEW e \in listEntries, Apply(p, e)
        PROVE  TypeOK'
    BY <2>4, EntryFacts DEF Apply, TypeOK
  <2>5. CASE MigrationFails(p)
    BY <2>5 DEF MigrationFails, LeaveExec, ForgetExec, GoTo, Phases, TypeOK
  <2>6. CASE NewNotifier(p)
    BY <2>6 DEF NewNotifier, ForgetExec, GoTo, Phases, TypeOK
  <2>7. CASE Listen(p)
    BY <2>7 DEF Listen, GoTo, Phases, TypeOK
  <2>8. CASE Shutdown(p)
    BY <2>8 DEF Shutdown, TypeOK
  <2>9. CASE ServerClosed(p)
    BY <2>9 DEF ServerClosed, GoTo, Phases, TypeOK
  <2>10. CASE CloseNotifier(p)
    BY <2>10 DEF CloseNotifier, GoTo, Phases, TypeOK
  <2>11. CASE ClosePool(p)
    BY <2>11, ExitTypes DEF ClosePool
  <2> QED  BY <1>1, <2>1, <2>2, <2>3, <2>4, <2>5, <2>6, <2>7, <2>8, <2>9, <2>10, <2>11
           DEF ProcessStep
<1>2. ASSUME NEW p \in Servers, Kill(p) PROVE TypeOK'
  BY <1>2, ExitTypes DEF Kill
<1>3. ASSUME NEW p \in Servers, ExecStep(p) PROVE TypeOK'
  <2>1. CASE Look(p)
    <3>1. at' \in [Servers -> Nat \ {0}] /\ absent' \in [Servers -> BOOLEAN]
      BY <2>1, NextTypes DEF Look, TypeOK
    <3> QED  BY <2>1, <3>1 DEF Look, TypeOK
  <2>2. CASE Create(p)
    <3>1. at' \in [Servers -> Nat \ {0}] /\ absent' \in [Servers -> BOOLEAN]
      BY <2>2, NextTypes DEF Create
    <3>2. creator' \in [Objects -> Servers \cup {NoOne}]
      BY <2>2 DEF Create, TypeOK
    <3> QED  BY <2>2, <3>1, <3>2 DEF Create, TypeOK
  <2>3. CASE Duplicate(p)
    BY <2>3, EndTypes DEF Duplicate, TypeOK
  <2>4. CASE Abort(p)
    BY <2>4, EndTypes DEF Abort, TypeOK
  <2>5. CASE CommitFile(p)
    <3>1. catalog' \subseteq Objects  BY <2>5 DEF CommitFile, Own, TypeOK
    <3> QED  BY <2>5, <3>1, EndTypes DEF CommitFile
  <2> QED  BY <1>3, <2>1, <2>2, <2>3, <2>4, <2>5 DEF ExecStep
<1>4. ASSUME NEW r \in Requests, NEW p \in Servers, Arrive(r, p) PROVE TypeOK'
  <2>1. home' \in [Requests -> Servers \cup {NoOne}] /\ seen' \in [Requests -> SUBSET Objects]
    BY <1>4 DEF Arrive, TypeOK
  <2>2. PICK k \in May[r] :
          /\ kind' = [kind EXCEPT ![r] = k]
          /\ MoveTo(r, IF k = "wait" THEN "subscribing" ELSE "acquiring")
          /\ again' = [again EXCEPT ![r] = k \in {"stats", "schema"}]
    BY <1>4 DEF Arrive
  <2>3. k \in Kinds
    BY <2>2, RequestsAssumption
  <2>4. kind' \in [Requests -> Kinds \cup {"none"}]
    BY <2>2, <2>3 DEF TypeOK
  <2>5. place' \in [Requests -> Places]
    BY <2>2 DEF MoveTo, Places, TypeOK
  <2>6. again' \in [Requests -> BOOLEAN]
    BY <2>2 DEF TypeOK
  <2> QED  BY <1>4, <2>1, <2>4, <2>5, <2>6 DEF Arrive, TypeOK
<1>5. ASSUME NEW r \in Requests,
             RequestStep(r) \/ Fail(r) \/ Wake(r) \/ WaitOver(r)
      PROVE  TypeOK'
  <2>1. ASSUME NEW next \in Places PROVE MoveTo(r, next) => place' \in [Requests -> Places]
    BY DEF MoveTo, TypeOK
  <2>2. CASE NotifierReturns(r)
    BY <2>1, <2>2 DEF NotifierReturns, Places, TypeOK
  <2>3. CASE Acquire(r)
    BY <2>1, <2>3 DEF Acquire, Places, TypeOK
  <2>4. CASE Release(r)
    <3>1. AfterQuery(r) \subseteq Places
      BY DEF AfterQuery, Places
    <3>2. place' \in [Requests -> Places]
      BY <2>1, <2>4, <3>1 DEF Release
    <3>3. Looked(r) \subseteq Objects
      BY DEF Looked, TypeOK
    <3> QED  BY <2>4, <3>2, <3>3 DEF Release, TypeOK
  <2>5. ASSUME Leave(r) PROVE TypeOK'
    BY <2>1, <2>5 DEF Leave, Places, TypeOK
  <2>6. CASE Answer(r)
    BY <2>5, <2>6 DEF Answer
  <2>7. CASE Fail(r)
    <3>1. CASE Leave(r)  BY <2>5, <3>1
    <3>2. CASE /\ MoveTo(r, "unsubscribing")
               /\ UNCHANGED <<migrationVars, processVars, home, kind, again, seen>>
      BY <2>1, <3>2 DEF Places, TypeOK
    <3> QED  BY <2>7, <3>1, <3>2 DEF Fail
  <2>8. CASE Wake(r)
    BY <2>1, <2>8 DEF Wake, Places, TypeOK
  <2>9. CASE WaitOver(r)
    BY <2>1, <2>9 DEF WaitOver, Places, TypeOK
  <2> QED  BY <1>5, <2>2, <2>3, <2>4, <2>6, <2>7, <2>8, <2>9 DEF RequestStep
<1>6. CASE UNCHANGED vars
  BY <1>6 DEF vars, TypeOK
<1> QED  BY <1>1, <1>2, <1>3, <1>4, <1>5, <1>6 DEF Next

-------------------------------------------------------------------------------
(* The migrations *)

\* Nothing else depends on an Exec that is over and that nobody waits for (ForgetExec).
LEMMA LeaveInv ==
    ASSUME TypeOK, MigrationInv, NEW p \in Servers, LeaveExec(p)
    PROVE  MigrationInv'
<1>1. CASE exec[p] = "running"
  <2>1. UNCHANGED migrationVars  BY <1>1 DEF LeaveExec, migrationVars
  <2> QED  BY <2>1 DEF migrationVars, MigrationInv, CreatorInv, ExecInv, StatementInv, Own,
                       MigrationsAreAtomic
<1>2. CASE exec[p] # "running"
  <2>1. /\ file' = [file EXCEPT ![p] = NoOne] /\ exec' = [exec EXCEPT ![p] = "none"]
        /\ UNCHANGED <<catalog, creator, at, absent>>
    BY <1>2 DEF LeaveExec, ForgetExec
  <2>2. /\ exec'[p] = "none" /\ file'[p] = NoOne
        /\ \A q \in Servers : q # p => exec'[q] = exec[q] /\ file'[q] = file[q]
    BY <2>1 DEF TypeOK
  <2>3. CreatorInv'
    <3>1. \A o \in Objects : creator[o] # NoOne => creator[o] \in Servers /\ creator[o] # p
      BY <1>2 DEF MigrationInv, CreatorInv, TypeOK
    <3> QED  BY <2>1, <2>2, <3>1 DEF MigrationInv, CreatorInv
  <2>4. ExecInv'
    BY <1>2, <2>1, <2>2 DEF MigrationInv, ExecInv
  <2>5. StatementInv'
    BY <2>1, <2>2 DEF MigrationInv, StatementInv, Own
  <2>6. MigrationsAreAtomic'
    BY <2>1, <2>2 DEF MigrationInv, MigrationsAreAtomic
  <2> QED  BY <2>3, <2>4, <2>5, <2>6 DEF MigrationInv
<1> QED  BY <1>1, <1>2

\* All the files before the next one are in the catalog (IsNext).
LEMMA EarlierApplied ==
    ASSUME TypeOK, ExecInv, NEW p \in Servers, exec[p] \in {"none", "ok"},
           NEW f \in listEntries, f \notin Left(p)
    PROVE  Created(f) \subseteq catalog
<1>1. file[p] # NoOne /\ ~(f.name > file[p].name)
  BY DEF Left
<1>2. file[p] \in listEntries /\ exec[p] = "ok"
  BY <1>1 DEF ExecInv
<1>3. CASE f.name = file[p].name
  <2>1. f = file[p]  BY <1>2, <1>3, EntryFacts
  <2> QED  BY <1>2, <2>1 DEF ExecInv
<1>4. CASE f.name < file[p].name
  BY <1>1, <1>4 DEF ExecInv
<1>5. f.name \in Nat /\ file[p].name \in Nat
  BY <1>2, EntryFacts
<1> QED  BY <1>1, <1>3, <1>4, <1>5

LEMMA ApplyInv ==
    ASSUME TypeOK, MigrationInv, NEW p \in Servers, NEW e \in listEntries, Apply(p, e)
    PROVE  MigrationInv'
<1>1. /\ exec'[p] = "running" /\ file'[p] = e
      /\ \A q \in Servers : q # p => exec'[q] = exec[q] /\ file'[q] = file[q]
      /\ UNCHANGED <<catalog, creator, at, absent>>
      /\ exec[p] \in {"none", "ok"} /\ exec[p] # "running"
  BY DEF Apply, TypeOK
<1>2. ASSUME NEW f \in listEntries, f.name < e.name PROVE Created(f) \subseteq catalog
  <2>1. f \notin Left(p)
    <3>1. f.name \in Nat /\ e.name \in Nat  BY EntryFacts
    <3> QED  BY <1>2, <3>1 DEF Apply, IsNext
  <2> QED  BY <1>1, <2>1, EarlierApplied DEF MigrationInv
<1>3. CreatorInv'
  <2>1. \A o \in Objects : creator[o] # NoOne => creator[o] \in Servers /\ creator[o] # p
    BY <1>1 DEF MigrationInv, CreatorInv, TypeOK
  <2> QED  BY <1>1, <2>1 DEF MigrationInv, CreatorInv
<1>4. ExecInv'
  <2>1. e # NoOne  BY EntryFacts
  <2> QED  BY <1>1, <1>2, <2>1 DEF MigrationInv, ExecInv
<1>5. StatementInv'
  <2>1. ~absent[p] /\ at[p] = 1  BY <1>1 DEF MigrationInv, ExecInv
  <2>2. \A k \in DOMAIN e.creates : ~(k < 1)
    <3>1. e.creates \in Seq(Objects)  BY EntryFacts
    <3> QED  BY <3>1
  <2> QED  BY <1>1, <2>1, <2>2 DEF MigrationInv, StatementInv, Own
<1>6. MigrationsAreAtomic'
  BY <1>1 DEF MigrationInv, MigrationsAreAtomic
<1> QED  BY <1>3, <1>4, <1>5, <1>6 DEF MigrationInv

\* A statement whose object is there, or is now its own, is behind (NextStatement).
LEMMA StatementDone ==
    ASSUME TypeOK, MigrationInv, NEW p \in Servers, MoreStatements(p), NextStatement(p),
           UNCHANGED <<catalog, exec, file>>,
           \A q \in Servers : Own(q) \subseteq Own(q)',
           Statement(p) \in catalog \cup Own(p)'
    PROVE  StatementInv'
<1>1. at[p] \in DOMAIN file[p].creates /\ file[p] \in listEntries
  BY StatementFacts DEF MigrationInv
<1>2. /\ at'[p] = at[p] + 1 /\ ~absent'[p]
      /\ \A q \in Servers : q # p => at'[q] = at[q] /\ absent'[q] = absent[q]
  BY DEF NextStatement, TypeOK
<1>3. ASSUME NEW k \in DOMAIN file[p].creates, k < at[p] + 1
      PROVE  file[p].creates[k] \in catalog \cup Own(p)'
  <2>1. k \in Nat /\ at[p] \in Nat
    BY <1>1, EntryFacts DEF TypeOK
  <2>2. k < at[p] \/ k = at[p]  BY <1>3, <2>1
  <2> QED  BY <2>2 DEF MigrationInv, StatementInv, Statement, MoreStatements, Running
<1> QED  BY <1>2, <1>3 DEF MigrationInv, StatementInv

LEMMA LookInv ==
    ASSUME TypeOK, MigrationInv, NEW p \in Servers, Look(p)
    PROVE  MigrationInv'
<1>1. /\ UNCHANGED <<catalog, creator, exec, file>> /\ MoreStatements(p) /\ exec[p] = "running"
  BY DEF Look, MoreStatements, Running
<1>2. \A q \in Servers : q # p => at'[q] = at[q] /\ absent'[q] = absent[q]
  BY DEF Look, NextStatement, TypeOK
<1>3. StatementInv'
  <2>1. CASE Statement(p) \in catalog \cup Own(p)
    <3>1. Own(p)' = Own(p) /\ \A q \in Servers : Own(q) \subseteq Own(q)'  BY <1>1 DEF Own
    <3> QED  BY <1>1, <2>1, <3>1, StatementDone DEF Look
  <2>2. CASE Statement(p) \notin catalog \cup Own(p)
    <3>1. absent' = [absent EXCEPT ![p] = TRUE] /\ UNCHANGED at
      BY <2>2 DEF Look
    <3>2. at[p] \in DOMAIN file[p].creates
      BY <1>1, StatementFacts DEF MigrationInv
    <3> QED  BY <1>1, <1>2, <3>1, <3>2 DEF MigrationInv, StatementInv, Own
  <2> QED  BY <2>1, <2>2
<1>4. CreatorInv' /\ ExecInv' /\ MigrationsAreAtomic'
  BY <1>1, <1>2 DEF MigrationInv, CreatorInv, ExecInv, MigrationsAreAtomic
<1> QED  BY <1>3, <1>4 DEF MigrationInv

LEMMA CreateInv ==
    ASSUME TypeOK, MigrationInv, NEW p \in Servers, Create(p)
    PROVE  MigrationInv'
<1>1. /\ UNCHANGED <<catalog, exec, file>> /\ MoreStatements(p) /\ exec[p] = "running"
      /\ Statement(p) \in Objects /\ Statement(p) \in Created(file[p])
      /\ Statement(p) \notin catalog /\ creator[Statement(p)] = NoOne
  BY StatementFacts DEF Create, MoreStatements, Running, MigrationInv
<1>2. creator' = [creator EXCEPT ![Statement(p)] = p]
  BY DEF Create
<1>3. creator'[Statement(p)] = p /\ \A o \in Objects : o # Statement(p) => creator'[o] = creator[o]
  BY <1>1, <1>2 DEF TypeOK
<1>4. CreatorInv'
  BY <1>1, <1>3 DEF MigrationInv, CreatorInv
<1>5. StatementInv'
  <2>1. \A q \in Servers : Own(q) \subseteq Own(q)'
    BY <1>1, <1>3, NoOneAssumption DEF Own
  <2>2. Statement(p) \in Own(p)'
    BY <1>1, <1>3 DEF Own
  <2> QED  BY <1>1, <2>1, <2>2, StatementDone DEF Create
<1>6. ExecInv'
  <2>1. \A q \in Servers : q # p => at'[q] = at[q] /\ absent'[q] = absent[q]
    BY DEF Create, NextStatement, TypeOK
  <2> QED  BY <1>1, <2>1 DEF MigrationInv, ExecInv
<1>7. MigrationsAreAtomic'
  BY <1>1 DEF MigrationInv, MigrationsAreAtomic
<1> QED  BY <1>4, <1>5, <1>6, <1>7 DEF MigrationInv

\* A transaction ends with all of its file or with nothing (End).
LEMMA EndInv ==
    ASSUME TypeOK, MigrationInv, NEW p \in Servers, exec[p] = "running",
           NEW result \in {"ok", "error", "duplicate"}, End(p, result),
           \/ catalog' = catalog
           \/ catalog' = catalog \cup Own(p) /\ Created(file[p]) \subseteq catalog',
           result # "error" => Created(file[p]) \subseteq catalog'
    PROVE  MigrationInv'
<1>1. \A q \in Servers : q # p =>
        /\ exec'[q] = exec[q] /\ file'[q] = file[q]
        /\ at'[q] = at[q] /\ absent'[q] = absent[q]
  BY DEF End, ForgetExec, TypeOK
<1>2. /\ at'[p] = 1 /\ ~absent'[p]
      /\ \/ exec'[p] = result /\ file'[p] = file[p]
         \/ exec'[p] = "none" /\ file'[p] = NoOne
  BY DEF End, ForgetExec, TypeOK
<1>3. \A o \in Objects : creator'[o] = IF creator[o] = p THEN NoOne ELSE creator[o]
  BY DEF End, Forget
<1>4. catalog \subseteq catalog'
  OBVIOUS
<1>5. file[p] \in listEntries /\ file[p] # NoOne
  BY DEF MigrationInv, ExecInv
<1>6. CreatorInv'
  <2> SUFFICES ASSUME NEW o \in Objects, creator'[o] # NoOne
               PROVE  /\ o \notin catalog'
                      /\ exec'[creator'[o]] = "running"
                      /\ o \in Created(file'[creator'[o]])
    BY DEF CreatorInv, Created
  <2>1. creator'[o] = creator[o] /\ creator[o] # p /\ creator[o] \in Servers
    BY <1>3 DEF TypeOK
  <2>2. o \notin catalog /\ exec[creator[o]] = "running" /\ o \in Created(file[creator[o]])
    BY <2>1 DEF MigrationInv, CreatorInv
  <2>3. o \notin Own(p)
    BY <2>1 DEF Own
  <2> QED  BY <1>1, <2>1, <2>2, <2>3
<1>7. ExecInv'
  <2> SUFFICES ASSUME NEW q \in Servers
               PROVE  /\ exec'[q] = "none" <=> file'[q] = NoOne
                      /\ file'[q] # NoOne => file'[q] \in listEntries
                      /\ exec'[q] # "running" => at'[q] = 1 /\ ~absent'[q]
                      /\ exec'[q] = "ok" => Created(file'[q]) \subseteq catalog'
                      /\ file'[q] # NoOne =>
                            \A f \in listEntries :
                                f.name < file'[q].name => Created(f) \subseteq catalog'
    BY DEF ExecInv, Created
  <2>1. CASE q # p
    BY <1>1, <1>4, <2>1 DEF MigrationInv, ExecInv
  <2>2. CASE q = p
    BY <1>2, <1>4, <1>5, <2>2 DEF MigrationInv, ExecInv
  <2> QED  BY <2>1, <2>2
<1>8. StatementInv'
  <2> SUFFICES ASSUME NEW q \in Servers, exec'[q] = "running"
               PROVE  /\ absent'[q] => at'[q] \in DOMAIN file'[q].creates
                      /\ \A k \in DOMAIN file'[q].creates :
                            k < at'[q] => file'[q].creates[k] \in catalog' \cup Own(q)'
    BY DEF StatementInv
  <2>1. q # p  BY <1>2
  <2>2. Own(q)' = Own(q)
    BY <1>3, <2>1, NoOneAssumption DEF Own
  <2> QED  BY <1>1, <1>4, <2>1, <2>2 DEF MigrationInv, StatementInv
<1>9. MigrationsAreAtomic'
  <2>1. ASSUME NEW e \in listEntries, Created(e) \cap catalog' # {},
               NEW f \in listEntries, f.name <= e.name
        PROVE  Created(f) \subseteq catalog'
    <3>1. CASE Created(e) \cap catalog # {}
      BY <1>4, <2>1, <3>1 DEF MigrationInv, MigrationsAreAtomic
    <3>2. CASE Created(e) \cap catalog = {}
      <4>1. Created(e) \cap Own(p) # {} /\ Created(file[p]) \subseteq catalog'
        BY <2>1, <3>2
      <4>2. Own(p) \subseteq Created(file[p])
        BY NoOneAssumption DEF Own, MigrationInv, CreatorInv
      <4>3. e = file[p]
        BY <1>5, <4>1, <4>2, EntryFacts
      <4>4. f.name \in Nat /\ e.name \in Nat
        BY EntryFacts
      <4>5. CASE f.name = e.name
        <5>1. f = e  BY <4>5, EntryFacts
        <5> QED  BY <4>1, <4>3, <5>1
      <4>6. CASE f.name < e.name
        BY <1>4, <1>5, <4>3, <4>6 DEF MigrationInv, ExecInv
      <4> QED  BY <2>1, <4>4, <4>5, <4>6
    <3> QED  BY <3>1, <3>2
  <2>2. ASSUME NEW q \in Servers, exec'[q] = "duplicate"
        PROVE  Created(file'[q]) \subseteq catalog'
    <3>1. CASE q = p
      BY <1>2, <2>2, <3>1
    <3>2. CASE q # p
      BY <1>1, <1>4, <2>2, <3>2 DEF MigrationInv, MigrationsAreAtomic
    <3> QED  BY <3>1, <3>2
  <2> QED  BY <2>1, <2>2 DEF MigrationsAreAtomic, Created
<1> QED  BY <1>6, <1>7, <1>8, <1>9 DEF MigrationInv

LEMMA ExecStepInv ==
    ASSUME TypeOK, MigrationInv, NEW p \in Servers, ExecStep(p)
    PROVE  MigrationInv'
<1>1. CASE Look(p)  BY <1>1, LookInv
<1>2. CASE Create(p)  BY <1>2, CreateInv
<1>3. CASE Duplicate(p)
  <2>1. exec[p] = "running" /\ catalog' = catalog /\ End(p, "duplicate")
    BY <1>3 DEF Duplicate, MoreStatements, Running
  <2>2. Statement(p) \in catalog \cap Created(file[p]) /\ file[p] \in listEntries
    BY <1>3, StatementFacts DEF Duplicate, MigrationInv
  <2>3. Created(file[p]) \subseteq catalog
    <3>1. file[p].name <= file[p].name  BY <2>2, EntryFacts
    <3> QED  BY <2>2, <3>1 DEF MigrationInv, MigrationsAreAtomic
  <2> QED  BY <2>1, <2>3, EndInv
<1>4. CASE Abort(p)
  BY <1>4, EndInv DEF Abort, Running
<1>5. CASE CommitFile(p)
  <2>1. /\ exec[p] = "running" /\ ~(at[p] <= Len(file[p].creates))
        /\ catalog' = catalog \cup Own(p) /\ End(p, "ok")
    BY <1>5 DEF CommitFile, AtEnd, MoreStatements, Running
  <2>2. file[p].creates \in Seq(Objects) /\ at[p] \in Nat
    BY <2>1, EntryFacts DEF MigrationInv, ExecInv, TypeOK
  <2>3. \A k \in DOMAIN file[p].creates : k < at[p]
    BY <2>1, <2>2
  <2>4. Created(file[p]) \subseteq catalog \cup Own(p)
    BY <2>1, <2>3 DEF Created, MigrationInv, StatementInv
  <2> QED  BY <2>1, <2>4, EndInv
<1> QED  BY <1>1, <1>2, <1>3, <1>4, <1>5 DEF ExecStep

LEMMA MigrationStep == TypeOK /\ MigrationInv /\ [Next]_vars => MigrationInv' /\ catalog \subseteq catalog'
<1> SUFFICES ASSUME TypeOK, MigrationInv, [Next]_vars
             PROVE  MigrationInv' /\ catalog \subseteq catalog'
  OBVIOUS
<1>1. ASSUME NEW p \in Servers, LeaveExec(p)
      PROVE  MigrationInv' /\ catalog \subseteq catalog'
  BY <1>1, LeaveInv DEF LeaveExec
<1>2. ASSUME UNCHANGED migrationVars
      PROVE  MigrationInv' /\ catalog \subseteq catalog'
  BY <1>2 DEF migrationVars, MigrationInv, CreatorInv, ExecInv, StatementInv, Own,
              MigrationsAreAtomic
<1>3. ASSUME NEW p \in Servers,
             \/ Start(p) \/ Signal(p) \/ ShutdownReturns(p) \/ Listen(p) \/ Shutdown(p)
             \/ ServerClosed(p) \/ CloseNotifier(p)
      PROVE  MigrationInv' /\ catalog \subseteq catalog'
  BY <1>2, <1>3 DEF Start, Signal, ShutdownReturns, Listen, Shutdown, ServerClosed, CloseNotifier
<1>4. ASSUME NEW p \in Servers, Kill(p) \/ ClosePool(p) \/ MigrationFails(p)
      PROVE  MigrationInv' /\ catalog \subseteq catalog'
  BY <1>1, <1>4 DEF Kill, ClosePool, MigrationFails, Exit
<1>5. ASSUME NEW p \in Servers, NEW e \in listEntries, Apply(p, e)
      PROVE  MigrationInv' /\ catalog \subseteq catalog'
  BY <1>5, ApplyInv DEF Apply
<1>6. ASSUME NEW p \in Servers, NewNotifier(p)
      PROVE  MigrationInv' /\ catalog \subseteq catalog'
  <2>1. exec[p] # "running"  BY <1>6 DEF NewNotifier, AllApplied
  <2>2. LeaveExec(p)  BY <1>6, <2>1 DEF NewNotifier, LeaveExec
  <2> QED  BY <1>1, <2>2
<1>7. ASSUME NEW p \in Servers, ExecStep(p)
      PROVE  MigrationInv' /\ catalog \subseteq catalog'
  <2>1. catalog \subseteq catalog'
    BY <1>7 DEF ExecStep, Look, Create, Duplicate, Abort, CommitFile
  <2> QED  BY <1>7, <2>1, ExecStepInv
<1>8. ASSUME NEW r \in Requests,
             (\E p \in Servers : Arrive(r, p)) \/ RequestStep(r) \/ Fail(r) \/ Wake(r) \/ WaitOver(r)
      PROVE  MigrationInv' /\ catalog \subseteq catalog'
  <2>1. UNCHANGED migrationVars
    BY <1>8 DEF Arrive, RequestStep, NotifierReturns, Acquire, Release, Answer, Leave, Fail,
                Wake, WaitOver
  <2> QED  BY <1>2, <2>1
<1>9. CASE UNCHANGED vars
  BY <1>2, <1>9 DEF vars
<1> QED  BY <1>3, <1>4, <1>5, <1>6, <1>7, <1>8, <1>9 DEF Next, ProcessStep
-------------------------------------------------------------------------------
(* The processes and the requests *)

\* A process that has applied its last file has the whole schema (AllApplied).
LEMMA AllAppliedSchema ==
    ASSUME TypeOK, ExecInv, NEW p \in Servers, AllApplied(p)
    PROVE  Schema \subseteq catalog
<1>1. \A f \in listEntries : Created(f) \subseteq catalog
  BY EarlierApplied DEF AllApplied
<1> QED  BY <1>1 DEF Schema

\* The end of a process lets no other process listen (Exit).
LEMMA ServingStep ==
    TypeOK /\ ExecInv /\ ServingInv /\ [Next]_vars /\ catalog \subseteq catalog' => ServingInv'
<1> SUFFICES ASSUME TypeOK, ExecInv, ServingInv, [Next]_vars, catalog \subseteq catalog',
                    NEW p \in Servers, phase'[p] \in {"starting", "listening"}
             PROVE  Schema \subseteq catalog'
  BY DEF ServingInv, Schema, listEntries, Created
<1>1. CASE phase[p] \in {"starting", "listening"}
  BY <1>1 DEF ServingInv
<1>2. CASE phase[p] \notin {"starting", "listening"}
  <2>1. ASSUME NEW q \in Servers, NEW next, GoTo(q, next), next \notin {"starting", "listening"}
        PROVE  FALSE
    BY <1>2, <2>1 DEF GoTo, TypeOK
  <2>2. ASSUME UNCHANGED phase PROVE FALSE
    BY <1>2, <2>2
  <2>3. ASSUME NEW q \in Servers, NewNotifier(q) PROVE Schema \subseteq catalog'
    <3>1. AllApplied(q)  BY <2>3 DEF NewNotifier
    <3> QED  BY <3>1, AllAppliedSchema
  <2>4. ASSUME NEW q \in Servers, Listen(q) PROVE FALSE
    BY <1>2, <2>4 DEF Listen, GoTo, TypeOK
  <2>5. ASSUME NEW q \in Servers, ProcessStep(q) PROVE Schema \subseteq catalog'
    BY <2>1, <2>2, <2>3, <2>4, <2>5
       DEF ProcessStep, Apply, MigrationFails, Shutdown, ServerClosed, CloseNotifier, ClosePool,
           Exit, processVars
  <2>6. ASSUME NEW q \in Servers,
               Start(q) \/ Signal(q) \/ Kill(q) \/ ShutdownReturns(q) \/ ExecStep(q)
        PROVE  FALSE
    BY <2>1, <2>2, <2>6
       DEF Start, Signal, Kill, ShutdownReturns, Exit, ExecStep, Look, Create, Duplicate, Abort,
           CommitFile, End, processVars
  <2>7. ASSUME NEW r \in Requests,
               (\E q \in Servers : Arrive(r, q)) \/ RequestStep(r) \/ Fail(r) \/ Wake(r) \/ WaitOver(r)
        PROVE  FALSE
    BY <2>2, <2>7
       DEF Arrive, RequestStep, NotifierReturns, Acquire, Release, Answer, Leave, Fail,
           Wake, WaitOver, processVars
  <2>8. CASE UNCHANGED vars
    BY <2>2, <2>8 DEF vars, processVars
  <2> QED  BY <2>5, <2>6, <2>7, <2>8 DEF Next
<1> QED  BY <1>1, <1>2

\* What a request that asks for the schema knows (Schema, listSchemaObjects).
Knows(r) ==
    /\ Schema \subseteq catalog
    /\ place[r] \in {"acquiring", "querying", "answering"}
    /\ ~again[r] => requiredSchemaTables \subseteq seen[r]
    /\ place[r] = "answering" => requiredSchemaIndexes \subseteq seen[r] /\ ~again[r]

LEMMA RequestKnows ==
    ASSUME TypeOK, ServingInv, catalog \subseteq catalog', NEW r \in Requests,
           kind[r] = "schema" => Knows(r),
           \/ \E p \in Servers : Arrive(r, p)
           \/ RequestStep(r) \/ Fail(r) \/ Wake(r) \/ WaitOver(r),
           kind'[r] = "schema"
    PROVE  Knows(r)'
<1>1. ASSUME Leave(r) PROVE FALSE
  BY <1>1 DEF Leave, TypeOK
<1>2. ASSUME NEW p \in Servers, Arrive(r, p) PROVE Knows(r)'
  <2>1. phase[p] = "listening" /\ catalog' = catalog
    BY <1>2 DEF Arrive, migrationVars
  <2>2. place'[r] = "acquiring" /\ again'[r]
    <3>1. PICK k \in May[r] :
            /\ kind' = [kind EXCEPT ![r] = k]
            /\ place' = [place EXCEPT ![r] = IF k = "wait" THEN "subscribing" ELSE "acquiring"]
            /\ again' = [again EXCEPT ![r] = k \in {"stats", "schema"}]
      BY <1>2 DEF Arrive, MoveTo
    <3>2. k = "schema"
      BY <3>1 DEF TypeOK
    <3> QED  BY <3>1, <3>2 DEF TypeOK
  <2> QED  BY <2>1, <2>2 DEF ServingInv, Knows, Schema
<1>3. CASE NotifierReturns(r)
  BY <1>3 DEF NotifierReturns, Knows
<1>4. CASE Acquire(r)
  BY <1>4 DEF Acquire, MoveTo, Knows, Schema, TypeOK, migrationVars
<1>5. CASE Release(r)
  <2>1. /\ kind[r] = "schema" /\ catalog' = catalog /\ ~again'[r]
        /\ seen'[r] = seen[r] \cup Looked(r)
    BY <1>5 DEF Release, migrationVars, TypeOK
  <2>2. Schema \subseteq catalog /\ requiredSchemaTables \cup requiredSchemaIndexes \subseteq Schema
    BY <2>1, RequiredInSchema DEF Knows
  <2>3. place'[r] = IF again[r] THEN "acquiring" ELSE "answering"
    <3>1. PICK next \in AfterQuery(r) : MoveTo(r, next)  BY <1>5 DEF Release
    <3>2. next = IF again[r] THEN "acquiring" ELSE "answering"
      BY <2>1 DEF AfterQuery
    <3> QED  BY <3>1, <3>2 DEF MoveTo, TypeOK
  <2>4. CASE again[r]
    <3>1. requiredSchemaTables \subseteq Looked(r)
      BY <2>1, <2>2, <2>4 DEF Looked
    <3> QED  BY <2>1, <2>2, <2>3, <2>4, <3>1 DEF Knows, Schema
  <2>5. CASE ~again[r]
    <3>1. requiredSchemaIndexes \subseteq Looked(r)
      BY <2>1, <2>2, <2>5 DEF Looked
    <3> QED  BY <2>1, <2>2, <2>3, <2>5, <3>1 DEF Knows, Schema
  <2> QED  BY <2>4, <2>5
<1>6. CASE Answer(r)  BY <1>1, <1>6 DEF Answer
<1>7. CASE Fail(r)
  <2>1. Leave(r) \/ (kind[r] = "wait" /\ UNCHANGED kind)
    BY <1>7 DEF Fail
  <2> QED  BY <1>1, <2>1
<1>8. CASE Wake(r) \/ WaitOver(r)
  BY <1>8 DEF Wake, WaitOver, Knows
<1> QED  BY <1>2, <1>3, <1>4, <1>5, <1>6, <1>7, <1>8 DEF RequestStep

LEMMA SchemaStep ==
    TypeOK /\ ServingInv /\ SchemaInv /\ [Next]_vars /\ catalog \subseteq catalog' => SchemaInv'
<1> SUFFICES ASSUME TypeOK, ServingInv, SchemaInv, [Next]_vars, catalog \subseteq catalog',
                    NEW s \in Requests, kind'[s] = "schema"
             PROVE  Knows(s)'
  BY DEF SchemaInv, Knows, Schema, listEntries, Created
<1>1. kind[s] = "schema" => Knows(s)
  BY DEF SchemaInv, Knows
<1>2. ASSUME kind'[s] = kind[s], place'[s] = place[s], again'[s] = again[s], seen'[s] = seen[s]
      PROVE  Knows(s)'
  BY <1>1, <1>2 DEF Knows, Schema
<1>3. ASSUME UNCHANGED requestVars PROVE Knows(s)'
  BY <1>2, <1>3 DEF requestVars
<1>4. ASSUME NEW p \in Servers, Exit(p) PROVE Knows(s)'
  <2>1. home[s] # p
    BY <1>4 DEF Exit
  <2>2. /\ kind'[s] = kind[s] /\ place'[s] = place[s] /\ seen'[s] = seen[s]
        /\ again'[s] = again[s]
    BY <1>4, <2>1 DEF Exit, TypeOK
  <2> QED  BY <1>2, <2>2
<1>5. ASSUME NEW p \in Servers, ProcessStep(p) PROVE Knows(s)'
  BY <1>3, <1>4, <1>5
     DEF ProcessStep, Apply, MigrationFails, NewNotifier, Listen, Shutdown, ServerClosed,
         CloseNotifier, ClosePool
<1>6. ASSUME NEW p \in Servers,
             Start(p) \/ Signal(p) \/ Kill(p) \/ ShutdownReturns(p) \/ ExecStep(p)
      PROVE  Knows(s)'
  BY <1>3, <1>4, <1>6
     DEF Start, Signal, Kill, ShutdownReturns, ExecStep, Look, Create, Duplicate, Abort,
         CommitFile, End
<1>7. ASSUME NEW r \in Requests,
             (\E p \in Servers : Arrive(r, p)) \/ RequestStep(r) \/ Fail(r) \/ Wake(r) \/ WaitOver(r)
      PROVE  Knows(s)'
  <2>1. CASE r = s
    BY <1>1, <1>7, <2>1, RequestKnows
  <2>2. CASE r # s
    <3>1. ASSUME NEW next, MoveTo(r, next) PROVE place'[s] = place[s]
      BY <2>2, <3>1 DEF MoveTo, TypeOK
    <3>2. ASSUME Leave(r) PROVE Knows(s)'
      BY <1>2, <2>2, <3>1, <3>2 DEF Leave, TypeOK
    <3>3. ASSUME NEW p \in Servers, Arrive(r, p) PROVE Knows(s)'
      <4>1. /\ kind'[s] = kind[s] /\ again'[s] = again[s] /\ seen'[s] = seen[s]
            /\ place'[s] = place[s]
        BY <2>2, <3>1, <3>3 DEF Arrive, TypeOK
      <4> QED  BY <1>2, <4>1
    <3>4. CASE NotifierReturns(r) \/ Acquire(r) \/ Wake(r) \/ WaitOver(r)
      BY <1>2, <3>1, <3>4 DEF NotifierReturns, Acquire, Wake, WaitOver
    <3>5. CASE Release(r)
      <4>1. kind'[s] = kind[s] /\ again'[s] = again[s] /\ seen'[s] = seen[s]
        BY <2>2, <3>5 DEF Release, TypeOK
      <4>2. place'[s] = place[s]
        BY <3>1, <3>5 DEF Release
      <4> QED  BY <1>2, <4>1, <4>2
    <3>6. CASE Answer(r)
      BY <3>2, <3>6 DEF Answer
    <3>7. CASE Fail(r)
      <4>1. CASE Leave(r)  BY <3>2, <4>1
      <4>2. CASE /\ MoveTo(r, "unsubscribing")
                 /\ UNCHANGED <<migrationVars, processVars, home, kind, again, seen>>
        BY <1>2, <3>1, <4>2
      <4> QED  BY <3>7, <4>1, <4>2 DEF Fail
    <3> QED  BY <1>7, <3>3, <3>4, <3>5, <3>6, <3>7 DEF RequestStep
  <2> QED  BY <2>1, <2>2
<1>8. CASE UNCHANGED vars
  BY <1>3, <1>8 DEF vars
<1> QED  BY <1>5, <1>6, <1>7, <1>8 DEF Next

-------------------------------------------------------------------------------
(* The theorems *)

LEMMA InitIInv == Init => IInv
<1> SUFFICES ASSUME Init PROVE IInv
  OBVIOUS
<1>1. PICK n \in {0} \cup {e.name : e \in listEntries} :
        catalog = UNION {Created(e) : e \in {f \in listEntries : f.name <= n}}
  BY DEF Init
<1>2. n \in Nat /\ \A e \in listEntries : e.name \in Nat
  BY EntryFacts
<1>3. TypeOK
  <2>1. catalog \subseteq Objects
    BY <1>1, EntryFacts
  <2>2. 1 \in Nat \ {0}
    OBVIOUS
  <2> QED  BY <2>1, <2>2 DEF Init, TypeOK, Phases, Places
<1>4. MigrationsAreAtomic
  <2>1. ASSUME NEW e \in listEntries, Created(e) \cap catalog # {},
               NEW f \in listEntries, f.name <= e.name
        PROVE  Created(f) \subseteq catalog
    <3>1. PICK g \in listEntries : g.name <= n /\ Created(e) \cap Created(g) # {}
      BY <1>1, <2>1
    <3>2. e = g  BY <3>1, EntryFacts
    <3>3. f.name <= n  BY <1>2, <2>1, <3>1, <3>2
    <3> QED  BY <1>1, <3>3
  <2> QED  BY <2>1 DEF Init, MigrationsAreAtomic
<1>5. CreatorInv /\ ExecInv /\ StatementInv
  BY DEF Init, CreatorInv, ExecInv, StatementInv
<1>6. ServingInv /\ SchemaInv
  BY DEF Init, ServingInv, SchemaInv
<1> QED  BY <1>3, <1>4, <1>5, <1>6 DEF IInv, MigrationInv

LEMMA NextIInv == IInv /\ [Next]_vars => IInv'
<1> SUFFICES ASSUME IInv, [Next]_vars PROVE IInv'
  OBVIOUS
<1>1. TypeOK' /\ MigrationInv' /\ catalog \subseteq catalog'
  BY TypeStep, MigrationStep DEF IInv, MigrationInv
<1>2. ServingInv' /\ SchemaInv'
  BY <1>1, ServingStep, SchemaStep DEF IInv, MigrationInv
<1> QED  BY <1>1, <1>2 DEF IInv

LEMMA Invariance == Spec => []IInv
BY InitIInv, NextIInv, PTL DEF Spec

\* The variables of the processes, of PostgreSQL's executions and of the requests
\* keep their types.
THEOREM TypeCorrect == Spec => []TypeOK
<1>1. IInv => TypeOK  BY DEF IInv
<1> QED  BY <1>1, Invariance, PTL

\* However many servers start at the same time and whatever fails or is killed, the
\* schema is that of the first so many migrations (ApplyFS).
THEOREM MigrationsStayAtomic == Spec => []MigrationsAreAtomic
<1>1. IInv => MigrationsAreAtomic  BY DEF IInv, MigrationInv
<1> QED  BY <1>1, Invariance, PTL

\* A server that serves has the whole schema, and says so (runServer, Schema).
THEOREM NeverServesDegraded == Spec => []NeverDegraded
<1>1. IInv => NeverDegraded
  <2>1. ServingInv /\ SchemaInv => NeverDegraded
    BY DEF ServingInv, SchemaInv, NeverDegraded
  <2> QED  BY <2>1 DEF IInv
<1> QED  BY <1>1, Invariance, PTL

===============================================================================
