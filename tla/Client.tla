-------------------------------- MODULE Client --------------------------------
(***************************************************************************)
(* A command "tuple out", "tuple rd" or "tuple in" from its arguments to   *)
(* its exit (cmd/tuplespacectl), the client (internal/client) and the      *)
(* handler on the server (internal/api/httpapi) that answers its requests. *)
(* Of the service it keeps what a command can see: when it may answer what *)
(* and that a request takes effect when its transaction commits.           *)
(*                                                                         *)
(* Time passes in ticks.  A time.Duration is an integer from -HalfRange to *)
(* HalfRange - 1, as int64 is with HalfRange = 2^63.                       *)
(***************************************************************************)
EXTENDS CompactSpec

CONSTANTS
    Commands,               \* what is typed
    HalfRange,
    Millisecond,            \* ticks
    defaultHTTPTimeout,     \* ticks
    blockingRequestBuffer   \* ticks

MaxDuration == HalfRange - 1
Durations == -HalfRange..MaxDuration

ASSUME TicksAssumption ==
    /\ HalfRange \in Nat \ {0}
    /\ Millisecond \in Nat \ {0}
    /\ defaultHTTPTimeout \in 1..MaxDuration
    /\ blockingRequestBuffer \in 1..defaultHTTPTimeout

Texts == Seq(Seq(Runes))
Field == [kind : {"actual", "formal"}, type : {"string", "int", "bool"},
          name : Seq(Runes), value : Seq(Runes)]

ASSUME CommandsAssumption ==
    \A c \in Commands :
        /\ c.op \in {"out", "rd", "in"} /\ c.spaceOK \in BOOLEAN /\ c.waitMS \in Int
        /\ c.file \in Seq(Seq(Field)) /\ c.spec \in Texts /\ c.args \in Texts
        /\ Len(c.file) \leq 1 /\ Len(c.spec) \leq 1

VARIABLES
    cmd,      \* the command: op, spaceOK, waitMS, and its sources file, spec, args;
              \* means is what its author meant, <<>> if it is malformed
    pc,       \* "start", "ready", "asked", "done", "failed"
    why,      \* why it failed
    inputs,   \* the tuples or templates
    rows,     \* how many rows of output: the answers to that many inputs
    timeout,  \* the client's timeout for a request, 0 for none
    timer,    \* what is left of it
    req,      \* the request: "none", "sent", "serving", "answered"
    answer,   \* "ok" or an error code
    wait,     \* the server's wait
    left,     \* what is left of it
    pending,  \* a COMMIT was sent and its result was not awaited
    applied,  \* the inputs that had their effect, in order
    spent,    \* how long the request takes
    slow      \* how much of that the server did not spend waiting for a tuple

commandVars == <<cmd, inputs, timeout>>
vars == <<cmd, pc, why, inputs, rows, timeout, timer, req, answer, wait, left, pending,
          applied, spent, slow>>

-------------------------------------------------------------------------------
(* The arguments (cmds/common.go) *)

ParseArgument(op, text) == IF op = "out" THEN ParseTupleSpec(text) ELSE ParseTemplateSpec(text)

ParseArguments(op, texts) ==
    LET parsed == [i \in DOMAIN texts |-> ParseArgument(op, texts[i])]
    IN IF Contains(parsed, NoFields) THEN <<>> ELSE parsed

\* LoadTupleInputs, LoadTemplateInputs: <<>> for an error.  A file holds one tuple or
\* template, which is decoded already; NoFields stands for one that is malformed.
LoadInputs ==
    [c \in Commands |->
        LET given == {s \in {"file", "spec", "args"} : c[s] # <<>>}
        IN CASE given = {"file"} -> IF Contains(c.file, NoFields) THEN <<>> ELSE c.file
             [] given = {"spec"} -> ParseArguments(c.op, c.spec)
             [] given = {"args"} -> ParseArguments(c.op, c.args)
             [] OTHER -> <<>>]

-------------------------------------------------------------------------------
(* Time *)

\* Arithmetic of int64.
Duration_Mutant(n) == n
Duration(n) == ((n + HalfRange) % (2 * HalfRange)) - HalfRange

TimeoutForWaitMS_Mutant(waitMS) ==
    IF waitMS <= 0 THEN defaultHTTPTimeout ELSE Max({defaultHTTPTimeout, Duration(waitMS * Millisecond)})
TimeoutForWaitMS(waitMS) ==
    IF waitMS <= 0 THEN defaultHTTPTimeout
    ELSE Max({defaultHTTPTimeout,
              Duration(Duration(waitMS * Millisecond) + blockingRequestBuffer)})

NewWithTimeout_Mutant(t) == 0
NewWithTimeout(t) == IF t <= 0 THEN defaultHTTPTimeout ELSE t

RequestTimeout ==
    NewWithTimeout(IF cmd.op = "out" THEN defaultHTTPTimeout ELSE TimeoutForWaitMS(cmd.waitMS))

\* The handler's wait (handleRead).
RequestedWait == IF cmd.op = "out" THEN 0 ELSE Duration(cmd.waitMS * Millisecond)

Gone == pc # "asked"
ContextDone == wait > 0 /\ left = 0

-------------------------------------------------------------------------------
(* The command *)

Init ==
    /\ cmd \in Commands
    /\ pc = "start" /\ why = "none" /\ inputs = <<>> /\ rows = 0
    /\ timeout = 0 /\ timer = 0
    /\ req = "none" /\ answer = "none" /\ wait = 0 /\ left = 0
    /\ pending = FALSE /\ applied = <<>>
    /\ spent = 0 /\ slow = 0

Load ==
    /\ pc = "start"
    /\ inputs' = LoadInputs[cmd]
    /\ timeout' = RequestTimeout
    /\ pc' = IF inputs' = <<>> THEN "failed" ELSE "ready"
    /\ why' = IF inputs' = <<>> THEN "usage" ELSE "none"
    /\ UNCHANGED <<cmd, rows, timer, req, answer, wait, left, pending, applied, spent, slow>>

Send ==
    /\ pc = "ready"
    /\ pc' = "asked"
    /\ req' = "sent"
    /\ timer' = timeout
    /\ spent' = 0 /\ slow' = 0
    /\ UNCHANGED <<commandVars, why, rows, answer, wait, left, pending, applied>>

\* The answer is ok, and its row is added.
ReceiveRow ==
    /\ pc = "asked" /\ req = "answered" /\ answer = "ok"
    /\ rows' = rows + 1
    /\ pc' = IF rows' = Len(inputs) THEN "done" ELSE "ready"
    /\ req' = "none" /\ answer' = "none"
    /\ UNCHANGED <<commandVars, why, timer, wait, left, pending, applied, spent, slow>>

Leave(reason) ==
    /\ pc' = "failed"
    /\ why' = reason
    /\ req' = IF req = "answered" THEN "none" ELSE req
    /\ answer' = "none"
    /\ UNCHANGED <<commandVars, rows, timer, wait, left, pending, applied, spent, slow>>

ReceiveError_Mutant ==
    /\ pc = "asked" /\ req = "answered" /\ answer # "ok"
    /\ rows' = rows + 1
    /\ pc' = IF rows' = Len(inputs) THEN "done" ELSE "ready"
    /\ req' = "none" /\ answer' = "none"
    /\ UNCHANGED <<commandVars, why, timer, wait, left, pending, applied, spent, slow>>
ReceiveError ==
    /\ pc = "asked" /\ req = "answered" /\ answer # "ok"
    /\ Leave(answer)

\* The answer cannot be decoded, or its row not be written.
OutputFails ==
    /\ pc = "asked" /\ req = "answered" /\ answer = "ok"
    /\ Leave("output")

\* http.Client.Timeout.
TimeOut ==
    /\ pc = "asked" /\ timeout > 0 /\ timer = 0
    /\ Leave("deadline")

\* The connection cannot be made or breaks, or the command is interrupted.
Disconnect ==
    /\ pc = "asked"
    /\ Leave("network")

-------------------------------------------------------------------------------
(* The server *)

Reply(a) ==
    /\ req' = IF Gone THEN "none" ELSE "answered"
    /\ answer' = IF Gone THEN "none" ELSE a

mapError_Mutant(err) ==
    IF err = "validation" THEN "invalid"
    ELSE IF err = "ErrNotFound" THEN "not_found"
    ELSE "timeout"
mapError(err) ==
    IF err = "validation" THEN "invalid"
    ELSE IF err = "ErrNotFound" THEN "not_found"
    ELSE IF err \in {"ErrTimeout", "DeadlineExceeded", "Canceled"} THEN "timeout"
    ELSE "internal"

\* The handler decodes the request; Out and read validate it.
Arrive ==
    /\ req = "sent"
    /\ wait' = RequestedWait
    /\ left' = Max({wait', 0})
    /\ IF cmd.spaceOK /\ wait' >= 0 THEN req' = "serving" /\ answer' = "none"
       ELSE Reply(mapError(IF cmd.spaceOK THEN "other" ELSE "validation"))
    /\ UNCHANGED <<commandVars, pc, why, rows, timer, pending, applied, spent, slow>>

\* The client has left before the request came.
NeverArrives ==
    /\ req = "sent" /\ Gone
    /\ req' = "none"
    /\ UNCHANGED <<commandVars, pc, why, rows, timer, answer, wait, left, pending, applied,
                   spent, slow>>

Apply == applied' = IF cmd.op = "rd" THEN applied ELSE Append(applied, rows + 1)

Succeed ==
    /\ req = "serving" /\ ~ContextDone
    /\ Apply
    /\ Reply("ok")
    /\ UNCHANGED <<commandVars, pc, why, rows, timer, wait, left, pending, spent, slow>>

\* The errors of Service.Out and Service.read.  A deadline that ends is that of the
\* operation; the database connection is assumed to have none of its own that is shorter.
CanFail(err) ==
    \/ err = "ErrNotFound" /\ cmd.op # "out" /\ wait = 0
    \/ err \in {"ErrTimeout", "DeadlineExceeded"} /\ ContextDone
    \/ err = "Canceled" /\ Gone
    \/ err = "other"

\* A COMMIT may be on its way when the service answers, except where it returns without one.
Fail(err) ==
    /\ req = "serving" /\ CanFail(err)
    /\ pending' \in (IF cmd.op = "rd" \/ err \in {"ErrNotFound", "ErrTimeout"}
                     THEN {FALSE} ELSE BOOLEAN)
    /\ Reply(mapError(err))
    /\ UNCHANGED <<commandVars, pc, why, rows, timer, wait, left, applied, spent, slow>>

CommitArrives ==
    /\ pending
    /\ pending' = FALSE
    /\ Apply
    /\ UNCHANGED <<commandVars, pc, why, rows, timer, req, answer, wait, left, spent, slow>>

-------------------------------------------------------------------------------

Earlier(n) == Max({n - 1, 0})
Later(n) == Min({n + 1, MaxDuration})

Tick ==
    /\ pc = "asked" \/ req = "serving"
    /\ ~(pc = "asked" /\ timeout > 0 /\ timer = 0)
    /\ timer' = Earlier(timer)
    /\ left' = IF req = "serving" THEN Earlier(left) ELSE left
    /\ spent' = IF pc = "asked" THEN Later(spent) ELSE spent
    /\ slow' = IF pc = "asked" /\ ~(req = "serving" /\ left > 0) THEN Later(slow) ELSE slow
    /\ UNCHANGED <<commandVars, pc, why, rows, req, answer, wait, pending, applied>>

Errors == {"ErrNotFound", "ErrTimeout", "DeadlineExceeded", "Canceled", "other"}

Next ==
    \/ Load \/ Send \/ ReceiveRow \/ ReceiveError \/ OutputFails \/ TimeOut \/ Disconnect
    \/ Arrive \/ NeverArrives \/ Succeed \/ CommitArrives
    \/ \E err \in Errors : Fail(err)
    \/ Tick

\* Time passes and the command goes on; the server need not answer.
Spec ==
    /\ Init /\ [][Next]_vars
    /\ WF_vars(Load) /\ WF_vars(Send) /\ WF_vars(ReceiveRow \/ ReceiveError) /\ WF_vars(TimeOut)
    /\ WF_vars(Tick)

-------------------------------------------------------------------------------
(* Properties *)

\* Every variable has its type; above all, durations stay within their width.
TypeOK ==
    /\ cmd \in Commands
    /\ pc \in {"start", "ready", "asked", "done", "failed"}
    /\ why \in {"none", "usage", "output", "deadline", "network"}
                   \cup {"invalid", "not_found", "timeout", "internal"}
    /\ rows \in 0..Len(inputs)
    /\ timeout \in 0..MaxDuration /\ timer \in 0..timeout
    /\ req \in {"none", "sent", "serving", "answered"}
    /\ answer \in {"none", "ok", "invalid", "not_found", "timeout", "internal"}
    /\ wait \in Durations /\ left \in 0..Max({wait, 0})
    /\ pending \in BOOLEAN
    /\ {spent, slow} \subseteq 0..MaxDuration

\* A command's arguments are read as they were meant, all of them before anything is
\* sent; a malformed one anywhere makes the command fail having sent nothing.
CommandsAreUnderstood ==
    /\ pc \notin {"start", "failed"} => cmd.means # <<>> /\ inputs = cmd.means
    /\ why = "usage" => cmd.means = <<>>

\* A row is shown only of an input that took effect, once and in its turn, and of the
\* inputs that took effect at most the last one has no row: whatever fails between the
\* command and the database, and however late a COMMIT arrives.
EffectsMatchRows ==
    \/ cmd.op = "rd" /\ applied = <<>>
    \/ /\ cmd.op # "rd"
       /\ Len(applied) \in rows..rows + 1
       /\ \A i \in DOMAIN applied : applied[i] = i
       /\ pc = "done" => Len(applied) = Len(inputs) /\ ~pending

\* The wait and the client's timeout are computed without overflow.
InRange(waitMS) ==
    {waitMS * Millisecond, waitMS * Millisecond + blockingRequestBuffer} \subseteq Durations

\* The client gives up on a request only if network and server were slow by the whole
\* buffer (TimeoutForWaitMS): never because the server is waiting as it was asked to.
DeadlineMeansSlow ==
    why = "deadline" /\ InRange(cmd.waitMS) => slow >= blockingRequestBuffer

\* A command that is told "timeout" has waited as long as it asked to (mapError).
TimeoutMeansWaited ==
    why = "timeout" /\ InRange(cmd.waitMS) => spent >= cmd.waitMS * Millisecond /\ cmd.waitMS > 0

\* Both ends of a wait are told apart: no command blames the network for a wait it asked
\* for, nor a wait that it did not wait (TimeoutForWaitMS against withOptionalTimeout).
TimeoutsAreHonest == DeadlineMeansSlow /\ TimeoutMeansWaited

\* Every command ends, also if the server never answers (http.Client.Timeout).
CommandEnds == <>(pc \in {"done", "failed"})
===============================================================================
