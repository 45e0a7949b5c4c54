----------------------------- MODULE ClientProofs -----------------------------
(***************************************************************************)
(* Proof about Client for any commands, however many their inputs, and any *)
(* durations.                                                              *)
(***************************************************************************)
EXTENDS Client, CompactSpecProofs

UpTo(n) == [i \in 1..n |-> i]

\* The effects so far are those of the inputs that have a row, and of the next one if
\* its answer, or its COMMIT after an error, has come through.
Settled == applied = UpTo(rows) /\ ~pending
Effect == \/ applied = UpTo(rows)
          \/ applied = UpTo(rows + 1) /\ ~pending

IInv ==
    /\ rows \in Nat
    /\ pc \in {"start", "ready", "asked", "done", "failed"}
    /\ req \in {"none", "sent", "serving", "answered"}
    /\ pending \in BOOLEAN
    /\ pc \in {"start", "ready", "done"} => req = "none"
    /\ pc = "asked" => req # "none"
    /\ req = "answered" => pc = "asked"
    /\ pc = "done" => rows = Len(inputs)
    /\ cmd.op = "rd" => applied = <<>> /\ ~pending
    /\ cmd.op # "rd" =>
           /\ Effect
           /\ pc \in {"start", "ready", "done"} \/ req \in {"sent", "serving"} => Settled
           /\ req = "answered" /\ answer = "ok" => applied = UpTo(rows + 1)

-------------------------------------------------------------------------------

LEMMA UpToNothing == UpTo(0) = <<>>
  BY DEF UpTo

LEMMA AppendNext == ASSUME NEW n \in Nat PROVE Append(UpTo(n), n + 1) = UpTo(n + 1)
  BY DEF UpTo

LEMMA InitIInv == Init => IInv
<1> SUFFICES ASSUME Init  PROVE IInv
  OBVIOUS
<1>1. applied = UpTo(rows) /\ ~pending
  BY UpToNothing DEF Init
<1> QED  BY <1>1 DEF Init, IInv, Effect, Settled

LEMMA CommandKeeps ==
    ASSUME IInv, Load \/ Send \/ ReceiveRow \/ ReceiveError \/ OutputFails \/ TimeOut \/ Disconnect
    PROVE  IInv'
<1>1. CASE Load
  BY <1>1 DEF IInv, Load, Effect, Settled
<1>2. CASE Send
  BY <1>2 DEF IInv, Send, Effect, Settled, commandVars
<1>3. CASE ReceiveRow
  <2>1. rows' \in Nat /\ rows' = rows + 1 /\ inputs' = inputs /\ cmd' = cmd
    BY <1>3 DEF IInv, ReceiveRow, commandVars
  <2>2. cmd.op # "rd" => applied' = UpTo(rows') /\ ~pending'
    <3> SUFFICES ASSUME cmd.op # "rd"  PROVE applied' = UpTo(rows') /\ ~pending'
      OBVIOUS
    <3>1. applied = UpTo(rows + 1) /\ rows \in Nat
      BY <1>3 DEF IInv, ReceiveRow
    <3>2. UpTo(rows + 1) # UpTo(rows)
      BY <3>1 DEF UpTo
    <3> QED  BY <1>3, <3>1, <3>2 DEF IInv, Effect, ReceiveRow
  <2> QED  BY <1>3, <2>1, <2>2 DEF IInv, ReceiveRow, Effect, Settled
<1>4. CASE \E reason : Leave(reason) /\ pc = "asked"
  BY <1>4 DEF IInv, Leave, Effect, Settled, commandVars
<1> QED  BY <1>1, <1>2, <1>3, <1>4 DEF ReceiveError, OutputFails, TimeOut, Disconnect

LEMMA ServerKeeps ==
    ASSUME IInv, Arrive \/ NeverArrives \/ Succeed \/ CommitArrives \/ Tick
                     \/ \E err \in Errors : Fail(err)
    PROVE  IInv'
<1>1. CASE Arrive
  <2>1. cmd.op # "rd" => Settled'
    BY <1>1 DEF IInv, Arrive, Settled, commandVars
  <2> QED  BY <1>1, <2>1 DEF IInv, Arrive, Reply, Gone, mapError, Effect, Settled, commandVars
<1>2. CASE NeverArrives
  BY <1>2 DEF IInv, NeverArrives, Gone, Effect, Settled, commandVars
<1>3. CASE Succeed
  <2>1. cmd.op # "rd" => applied' = UpTo(rows' + 1) /\ ~pending'
    BY <1>3, AppendNext DEF IInv, Succeed, Apply, Settled
  <2> QED  BY <1>3, <2>1 DEF IInv, Succeed, Apply, Reply, Gone, Effect, Settled, commandVars
<1>4. CASE CommitArrives
  <2>1. cmd.op # "rd" /\ applied' = UpTo(rows' + 1) /\ ~pending'
    BY <1>4, AppendNext DEF IInv, CommitArrives, Apply, Effect
  <2> QED  BY <1>4, <2>1 DEF IInv, CommitArrives, Effect, Settled, commandVars
<1>5. CASE Tick
  BY <1>5 DEF IInv, Tick, Effect, Settled, commandVars
<1>6. ASSUME NEW err \in Errors, Fail(err)  PROVE IInv'
  <2>1. mapError(err) # "ok"
    BY DEF mapError
  <2> QED  BY <1>6, <2>1 DEF IInv, Fail, Reply, Gone, Effect, Settled, commandVars
<1> QED  BY <1>1, <1>2, <1>3, <1>4, <1>5, <1>6

LEMMA Invariance == Spec => []IInv
<1>1. IInv /\ [Next]_vars => IInv'
  <2>1. IInv /\ UNCHANGED vars => IInv'
    BY DEF IInv, Effect, Settled, vars
  <2> QED  BY <2>1, CommandKeeps, ServerKeeps DEF Next
<1> QED  BY <1>1, InitIInv, PTL DEF Spec

-------------------------------------------------------------------------------

\* The rows that a command shows are its effects on the tuple space, in order, except
\* perhaps for the last (cmds/tuple/out.go, in.go): for any number of inputs.
THEOREM RowsAreEffects == Spec => []EffectsMatchRows
<1>1. IInv => EffectsMatchRows
  <2> SUFFICES ASSUME IInv, cmd.op # "rd"  PROVE EffectsMatchRows
    BY DEF IInv, EffectsMatchRows
  <2>1. \A n \in Nat : Len(UpTo(n)) = n /\ DOMAIN UpTo(n) = 1..n /\ \A i \in 1..n : UpTo(n)[i] = i
    BY DEF UpTo
  <2>2. rows \in Nat /\ rows + 1 \in Nat
    BY DEF IInv
  <2>3. CASE applied = UpTo(rows)
    BY <2>1, <2>2, <2>3 DEF IInv, EffectsMatchRows, Settled
  <2>4. CASE applied = UpTo(rows + 1)
    <3>1. pc # "done"
      <4>1. UpTo(rows) # UpTo(rows + 1)
        BY <2>1, <2>2
      <4> QED  BY <2>4, <4>1 DEF IInv, Settled
    <3> QED  BY <2>1, <2>2, <2>4, <3>1 DEF EffectsMatchRows
  <2> QED  BY <2>3, <2>4 DEF IInv, Effect
<1> QED  BY <1>1, Invariance, PTL

-------------------------------------------------------------------------------
(* Time *)

Positive(n) == IF n > 0 THEN n ELSE 0

\* The time of a request is the time that is left of the client's timeout, and the
\* server's waiting is all of it that was not slow.
TimeInv ==
    /\ cmd \in Commands
    /\ {timer, left, spent, slow} \subseteq Nat
    /\ pc # "start" => timeout = RequestTimeout
    /\ pc = "asked" => spent + timer = timeout
    /\ pc = "asked" /\ req = "sent" => slow = spent
    /\ pc = "asked" /\ req \in {"serving", "answered"} =>
           wait = RequestedWait /\ left <= Positive(wait) /\ slow + Positive(wait) = spent + left
    /\ answer = "timeout" => ContextDone
    /\ answer # "deadline"
    /\ pc # "failed" => why = "none"
    /\ DeadlineMeansSlow
    /\ TimeoutMeansWaited

LEMMA MaxOfTwo == ASSUME NEW a \in Int, NEW b \in Int PROVE Max({a, b}) = IF a >= b THEN a ELSE b
<1>1. \E x \in {a, b} : \A y \in {a, b} : x >= y
  OBVIOUS
<1>2. Max({a, b}) \in {a, b} /\ \A y \in {a, b} : Max({a, b}) >= y
  BY <1>1 DEF Max
<1> QED  BY <1>2

LEMMA MinOfTwo == ASSUME NEW a \in Int, NEW b \in Int PROVE Min({a, b}) = IF a <= b THEN a ELSE b
<1>1. \E x \in {a, b} : \A y \in {a, b} : x =< y
  OBVIOUS
<1>2. Min({a, b}) \in {a, b} /\ \A y \in {a, b} : Min({a, b}) =< y
  BY <1>1 DEF Min
<1> QED  BY <1>2

LEMMA EarlierAndLater ==
    /\ \A n \in Nat : Earlier(n) = IF n > 0 THEN n - 1 ELSE 0
    /\ \A n \in Nat : Later(n) = IF n < MaxDuration THEN n + 1 ELSE MaxDuration
<1>1. MaxDuration \in Nat
  BY TicksAssumption DEF MaxDuration
<1> QED  BY <1>1, MaxOfTwo, MinOfTwo DEF Earlier, Later

\* A duration that fits is what it is.
LEMMA DurationFits ==
    /\ \A n \in Int : Duration(n) \in Durations
    /\ \A n \in Durations : Duration(n) = n
<1>1. HalfRange \in Nat \ {0}
  BY TicksAssumption
<1>2. \A n \in Int : (n + HalfRange) % (2 * HalfRange) \in 0..(2 * HalfRange - 1)
  BY <1>1
<1>3. \A a \in Nat : a < 2 * HalfRange => a % (2 * HalfRange) = a
  BY <1>1
<1>4. ASSUME NEW n \in Durations  PROVE Duration(n) = n
  <2>1. n \in Int /\ n + HalfRange \in Nat /\ n + HalfRange < 2 * HalfRange
    BY <1>1 DEF Durations, MaxDuration
  <2>2. (n + HalfRange) % (2 * HalfRange) = n + HalfRange
    BY <1>3, <2>1
  <2> QED  BY <1>1, <2>1, <2>2 DEF Duration
<1>5. ASSUME NEW n \in Int  PROVE Duration(n) \in Durations
  <2> DEFINE m == (n + HalfRange) % (2 * HalfRange)
  <2>1. m \in 0..(2 * HalfRange - 1)
    BY <1>2
  <2> HIDE DEF m
  <2>2. m - HalfRange \in Durations
    BY <1>1, <2>1 DEF Durations, MaxDuration
  <2> QED  BY <2>2 DEF Duration, m
<1> QED  BY <1>4, <1>5

\* The timeout covers the wait and the buffer, of a command whose wait is in range.
LEMMA TimeoutCoversWait ==
    ASSUME cmd \in Commands
    PROVE  /\ RequestTimeout \in 1..MaxDuration
           /\ RequestedWait \in Int
           /\ InRange(cmd.waitMS) =>
                  /\ RequestTimeout >= Positive(RequestedWait) + blockingRequestBuffer
                  /\ RequestedWait > 0 => cmd.waitMS > 0 /\ RequestedWait = cmd.waitMS * Millisecond
<1> DEFINE w == cmd.waitMS * Millisecond
<1>1. /\ cmd.waitMS \in Int /\ Millisecond \in Int /\ w \in Int
      /\ HalfRange \in Nat \ {0}
      /\ defaultHTTPTimeout \in 1..MaxDuration
      /\ blockingRequestBuffer \in 1..defaultHTTPTimeout
      /\ MaxDuration \in Int
  BY CommandsAssumption, TicksAssumption DEF MaxDuration
<1>2. w > 0 <=> cmd.waitMS > 0
  BY <1>1, TicksAssumption
<1>3. InRange(cmd.waitMS) => w \in Durations /\ w + blockingRequestBuffer \in Durations
  BY DEF InRange
<1> HIDE DEF w
<1> DEFINE sum == Duration(Duration(w) + blockingRequestBuffer)
<1>4. Duration(w) \in Durations /\ sum \in Durations
  BY <1>1, DurationFits DEF Durations
<1>5. InRange(cmd.waitMS) => Duration(w) = w /\ sum = w + blockingRequestBuffer
  BY <1>3, DurationFits
<1>6. TimeoutForWaitMS(cmd.waitMS) =
          IF cmd.waitMS <= 0 \/ sum < defaultHTTPTimeout THEN defaultHTTPTimeout ELSE sum
  <2>1. Max({defaultHTTPTimeout, sum}) = IF defaultHTTPTimeout >= sum THEN defaultHTTPTimeout ELSE sum
    BY <1>1, <1>4, MaxOfTwo DEF Durations
  <2> QED  BY <1>1, <1>4, <2>1 DEF TimeoutForWaitMS, w, Durations
<1>7. RequestedWait = IF cmd.op = "out" THEN 0 ELSE Duration(w)
  BY DEF RequestedWait, w
<1> HIDE DEF sum
<1>8. RequestTimeout = IF cmd.op = "out" THEN defaultHTTPTimeout ELSE TimeoutForWaitMS(cmd.waitMS)
  BY <1>1, <1>4, <1>6 DEF RequestTimeout, NewWithTimeout, Durations
<1>9. RequestTimeout \in 1..MaxDuration /\ RequestedWait \in Int
  BY <1>1, <1>4, <1>6, <1>7, <1>8 DEF Durations
<1>10. ASSUME InRange(cmd.waitMS)
       PROVE  /\ RequestTimeout >= Positive(RequestedWait) + blockingRequestBuffer
              /\ RequestedWait > 0 => cmd.waitMS > 0 /\ RequestedWait = w
  BY <1>1, <1>2, <1>4, <1>5, <1>6, <1>7, <1>8, <1>10 DEF Durations, Positive
<1> QED  BY <1>9, <1>10 DEF w

LEMMA InitTimeInv == Init => TimeInv
  BY DEF Init, TimeInv, ContextDone, DeadlineMeansSlow, TimeoutMeansWaited

LEMMA CommandKeepsTime ==
    ASSUME IInv, TimeInv,
           Load \/ Send \/ ReceiveRow \/ ReceiveError \/ OutputFails \/ TimeOut \/ Disconnect
    PROVE  TimeInv'
<1>0. /\ RequestTimeout \in 1..MaxDuration /\ MaxDuration \in Int /\ RequestedWait \in Int
      /\ blockingRequestBuffer \in Int
      /\ InRange(cmd.waitMS) =>
             /\ RequestTimeout >= Positive(RequestedWait) + blockingRequestBuffer
             /\ RequestedWait > 0 => cmd.waitMS > 0 /\ RequestedWait = cmd.waitMS * Millisecond
  BY TimeoutCoversWait, TicksAssumption DEF TimeInv, MaxDuration
<1>1. CASE Load
  BY <1>1, <1>0 DEF TimeInv, Load, ContextDone, DeadlineMeansSlow, TimeoutMeansWaited, RequestTimeout
<1>2. CASE Send
  BY <1>2, <1>0 DEF TimeInv, Send, ContextDone, DeadlineMeansSlow, TimeoutMeansWaited,
                    RequestTimeout, commandVars
<1>3. CASE ReceiveRow
  BY <1>3 DEF TimeInv, ReceiveRow, ContextDone, DeadlineMeansSlow, TimeoutMeansWaited,
              RequestTimeout, commandVars
<1>4. ASSUME NEW reason, Leave(reason), pc = "asked",
             reason = "deadline" /\ InRange(cmd.waitMS) => slow >= blockingRequestBuffer,
             reason = "timeout" /\ InRange(cmd.waitMS) =>
                 spent >= cmd.waitMS * Millisecond /\ cmd.waitMS > 0
      PROVE  TimeInv'
  BY <1>4 DEF TimeInv, Leave, ContextDone, DeadlineMeansSlow, TimeoutMeansWaited,
              RequestTimeout, commandVars
<1>5. CASE ReceiveError
  <2>1. pc = "asked" /\ Leave(answer) /\ req = "answered"
    BY <1>5 DEF ReceiveError
  <2>2. answer = "timeout" /\ InRange(cmd.waitMS) =>
            spent >= cmd.waitMS * Millisecond /\ cmd.waitMS > 0
    BY <1>0, <2>1 DEF TimeInv, ContextDone, Positive
  <2>3. answer # "deadline"
    BY <2>1 DEF TimeInv, IInv
  <2> QED  BY <1>4, <2>1, <2>2, <2>3
<1>6. CASE OutputFails
  BY <1>4, <1>6 DEF OutputFails
<1>7. CASE TimeOut
  <2>1. pc = "asked" /\ Leave("deadline") /\ spent = RequestTimeout
    BY <1>7 DEF TimeOut, TimeInv
  <2>2. InRange(cmd.waitMS) => slow >= blockingRequestBuffer
    BY <1>0, <2>1 DEF TimeInv, IInv, Positive
  <2> QED  BY <1>4, <2>1, <2>2
<1>8. CASE Disconnect
  BY <1>4, <1>8 DEF Disconnect
<1> QED  BY <1>1, <1>2, <1>3, <1>5, <1>6, <1>7, <1>8

LEMMA ServerKeepsTime ==
    ASSUME IInv, TimeInv,
           Arrive \/ NeverArrives \/ Succeed \/ CommitArrives \/ Tick \/ \E err \in Errors : Fail(err)
    PROVE  TimeInv'
<1>0. /\ RequestTimeout \in 1..MaxDuration /\ MaxDuration \in Nat /\ RequestedWait \in Int
      /\ blockingRequestBuffer \in Int
  BY TimeoutCoversWait, TicksAssumption DEF TimeInv, MaxDuration
<1>1. CASE Arrive
  <2>1. wait' = RequestedWait /\ left' = Positive(RequestedWait)
    <3>1. wait' = RequestedWait /\ left' = Max({RequestedWait, 0})
      BY <1>1 DEF Arrive
    <3> QED  BY <1>0, <3>1, MaxOfTwo DEF Positive
  <2>2. left' \in Nat
    BY <1>0, <2>1 DEF Positive
  <2>3. answer' # "timeout" /\ answer' # "deadline" /\ req' \in {"none", "serving", "answered"}
    BY <1>1 DEF Arrive, Reply, mapError
  <2> HIDE DEF Positive
  <2> QED  BY <1>1, <2>1, <2>2, <2>3 DEF Arrive, TimeInv, ContextDone, DeadlineMeansSlow,
               TimeoutMeansWaited, RequestTimeout, RequestedWait, commandVars
<1>2. CASE NeverArrives
  BY <1>2 DEF NeverArrives, TimeInv, ContextDone, DeadlineMeansSlow, TimeoutMeansWaited,
              RequestTimeout, RequestedWait, commandVars
<1>3. CASE Succeed
  BY <1>3 DEF Succeed, Reply, TimeInv, ContextDone, DeadlineMeansSlow, TimeoutMeansWaited,
              RequestTimeout, RequestedWait, commandVars
<1>4. CASE CommitArrives
  BY <1>4 DEF CommitArrives, TimeInv, ContextDone, DeadlineMeansSlow, TimeoutMeansWaited,
              RequestTimeout, RequestedWait, commandVars
<1>5. CASE Tick
  <2>1. \A n \in Nat : Earlier(n) = IF n > 0 THEN n - 1 ELSE 0
    BY EarlierAndLater
  <2>2. \A n \in Nat : Later(n) = IF n < MaxDuration THEN n + 1 ELSE MaxDuration
    BY EarlierAndLater
  <2>3. {timer, left, spent, slow}' \subseteq Nat
    BY <1>0, <1>5, <2>1, <2>2 DEF Tick, TimeInv
  <2>4. ContextDone => ContextDone'
    BY <1>5, <2>1 DEF Tick, ContextDone
  <2>5. CASE pc # "asked"
    BY <1>5, <2>3, <2>4, <2>5 DEF Tick, TimeInv, DeadlineMeansSlow, TimeoutMeansWaited,
        RequestTimeout, RequestedWait, commandVars
  <2>6. CASE pc = "asked"
    <3>1. timer > 0 /\ spent < MaxDuration /\ timer' = timer - 1 /\ spent' = spent + 1
      BY <1>0, <1>5, <2>1, <2>2, <2>6 DEF Tick, TimeInv
    <3>2. slow <= spent
      BY <2>6, <1>0 DEF TimeInv, IInv, Positive
    <3>3. slow' = IF req = "serving" /\ left > 0 THEN slow ELSE slow + 1
      BY <1>0, <1>5, <2>2, <2>6, <3>1, <3>2 DEF Tick, TimeInv
    <3>4. left' = IF req = "serving" /\ left > 0 THEN left - 1 ELSE left
      BY <1>5, <2>1 DEF Tick, TimeInv
    <3>5. /\ (pc' = "asked" /\ req' = "sent" => slow' = spent')
          /\ (req' \in {"serving", "answered"} =>
                  left' <= Positive(wait') /\ slow' + Positive(wait') = spent' + left')
      <4>1. Positive(wait') = Positive(wait)
        BY <1>5 DEF Tick
      <4>2. req \in {"serving", "answered"} => Positive(wait) \in Nat
        BY <2>6, <1>0 DEF TimeInv, Positive
      <4> QED  BY <1>5, <2>6, <3>1, <3>3, <3>4, <4>1, <4>2 DEF Tick, TimeInv
    <3>6. why' = "none"
      BY <1>5, <2>6 DEF Tick, TimeInv
    <3>7. RequestTimeout' = RequestTimeout /\ RequestedWait' = RequestedWait
      BY <1>5 DEF Tick, commandVars, RequestTimeout, RequestedWait
    <3> QED  BY <1>5, <2>3, <2>4, <2>6, <3>1, <3>5, <3>6, <3>7
             DEF Tick, TimeInv, DeadlineMeansSlow, TimeoutMeansWaited, commandVars
  <2> QED  BY <2>5, <2>6
<1>6. ASSUME NEW err \in Errors, Fail(err)  PROVE TimeInv'
  <2>1. mapError(err) # "deadline" /\ (mapError(err) = "timeout" => ContextDone \/ Gone)
    BY <1>6 DEF mapError, Fail, CanFail, Errors
  <2> QED  BY <1>6, <2>1 DEF Fail, Reply, TimeInv, ContextDone, DeadlineMeansSlow,
               TimeoutMeansWaited, RequestTimeout, RequestedWait, commandVars
<1> QED  BY <1>1, <1>2, <1>3, <1>4, <1>5, <1>6

LEMMA TimeInvariance == Spec => []TimeInv
<1>1. TimeInv /\ IInv /\ [Next]_vars => TimeInv'
  <2>1. TimeInv /\ UNCHANGED vars => TimeInv'
    BY DEF TimeInv, ContextDone, DeadlineMeansSlow, TimeoutMeansWaited, RequestTimeout,
           RequestedWait, vars
  <2> QED  BY <2>1, CommandKeepsTime, ServerKeepsTime DEF Next
<1> QED  BY <1>1, InitTimeInv, Invariance, PTL DEF Spec

\* The client gives up only on what is slow, as its timeout (TimeoutForWaitMS) outlasts the
\* server's wait (handleRead) by the buffer, and a command is told "timeout" only after the
\* time that it was ready to wait (mapError, withOptionalTimeout): for any width of a
\* duration and any wait that fits in it.
THEOREM TimeoutsStayHonest == Spec => []TimeoutsAreHonest
<1>1. TimeInv => TimeoutsAreHonest
  BY DEF TimeInv, TimeoutsAreHonest
<1> QED  BY <1>1, TimeInvariance, PTL

-------------------------------------------------------------------------------
(* Types *)

\* A row has an input: of the inputs that are left, the command asks for the next.
TypeInv ==
    /\ TypeOK
    /\ Len(inputs) \in Nat
    /\ pc = "start" => inputs = <<>> /\ timer = 0
    /\ pc \in {"ready", "asked"} => rows < Len(inputs)
    /\ req = "answered" => answer # "none"

LEMMA InputsAreASequence == ASSUME NEW c \in Commands 
      PROVE LoadInputs[c] = <<>> \/ Len(LoadInputs[c]) \in Nat \ {0}
<1> DEFINE given == {s \in {"file", "spec", "args"} : c[s] # <<>>}
<1>1. ASSUME NEW op, NEW texts \in Texts
      PROVE  ParseArguments(op, texts) = <<>> \/ Len(ParseArguments(op, texts)) \in Nat \ {0}
  <2> DEFINE parsed == [i \in DOMAIN texts |-> ParseArgument(op, texts[i])]
             S == {parsed[i] : i \in DOMAIN texts}
  <2>1. DOMAIN texts = 1..Len(texts) /\ Len(texts) \in Nat
    BY DEF Texts
  <2>2. parsed \in [1..Len(texts) -> S]
    BY <2>1
  <2> HIDE DEF parsed, S
  <2>3. parsed \in Seq(S)
    BY <2>1, <2>2
  <2>4. parsed = <<>> \/ Len(parsed) \in Nat \ {0}
    BY <2>3
  <2>5. ParseArguments(op, texts) = IF Contains(parsed, NoFields) THEN <<>> ELSE parsed
    BY DEF ParseArguments, parsed
  <2> QED  BY <2>4, <2>5
<1>2. c.file \in Seq(Seq(Field)) /\ c.spec \in Texts /\ c.args \in Texts
  BY CommandsAssumption
<1>3. LoadInputs[c] \in {c.file, ParseArguments(c.op, c.spec), ParseArguments(c.op, c.args), <<>>}
  <2>1. LoadInputs[c] =
            CASE given = {"file"} -> IF Contains(c.file, NoFields) THEN <<>> ELSE c.file
              [] given = {"spec"} -> ParseArguments(c.op, c.spec)
              [] given = {"args"} -> ParseArguments(c.op, c.args)
              [] OTHER -> <<>>
    BY DEF LoadInputs
  <2> HIDE DEF given
  <2> QED  BY <2>1
<1>4. c.file = <<>> \/ Len(c.file) \in Nat \ {0}
  BY <1>2
<1> QED  BY <1>1, <1>2, <1>3, <1>4

LEMMA TypeInvariant == Spec => []TypeInv
<1>0. /\ MaxDuration \in Nat /\ 0 \in Durations
      /\ \A w \in Durations : Max({w, 0}) = Positive(w) /\ Positive(w) \in Nat
      /\ cmd \in Commands => RequestTimeout \in 1..MaxDuration /\ RequestedWait \in Durations
  <2>1. MaxDuration \in Nat /\ 0 \in Durations /\ Durations \subseteq Int
    BY TicksAssumption DEF MaxDuration, Durations
  <2>2. \A w \in Durations : Max({w, 0}) = Positive(w) /\ Positive(w) \in Nat
    BY <2>1, MaxOfTwo DEF Positive
  <2>3. ASSUME cmd \in Commands  PROVE RequestedWait \in Durations
    <3>1. cmd.waitMS * Millisecond \in Int
      BY <2>3, CommandsAssumption, TicksAssumption
    <3> QED  BY <2>1, <3>1, DurationFits DEF RequestedWait
  <2> QED  BY <2>1, <2>2, <2>3, TimeoutCoversWait
<1>1. ASSUME Init  PROVE TypeInv
  <2>1. left \in 0..Max({wait, 0}) /\ wait \in Durations
    BY <1>0, <1>1 DEF Init, Positive
  <2>2. Len(inputs) = 0
    BY <1>1 DEF Init
  <2>3. timer \in 0..timeout /\ {timeout, spent, slow} \subseteq 0..MaxDuration
    BY <1>0, <1>1 DEF Init
  <2> QED  BY <1>1, <2>1, <2>2, <2>3 DEF Init, TypeInv, TypeOK
<1>2. ASSUME TypeInv, [Next]_vars  PROVE TypeInv'
  <2>0. /\ RequestTimeout \in 1..MaxDuration /\ RequestedWait \in Durations
        /\ wait \in Durations /\ Positive(wait) \in Nat /\ left \in 0..Positive(wait)
        /\ {rows, timeout, timer, left, spent, slow} \subseteq Nat
    BY <1>0, <1>2 DEF TypeInv, TypeOK
  <2>1. ASSUME wait' \in Durations, left' \in 0..Positive(wait')  PROVE left' \in 0..Max({wait', 0})
    BY <1>0, <2>1
  <2> HIDE DEF Positive
  <2>2. CASE Load
    <3>1. inputs' = <<>> \/ Len(inputs') \in Nat \ {0}
      BY <1>2, <2>2, InputsAreASequence DEF Load, TypeInv, TypeOK
    <3>2. rows = 0 /\ timer = 0 /\ Len(<<>>) = 0
      BY <1>2, <2>2 DEF Load, TypeInv, TypeOK
    <3> QED  BY <1>0, <1>2, <2>0, <2>2, <3>1, <3>2 DEF Load, TypeInv, TypeOK
  <2>3. CASE Send
    BY <1>2, <1>0, <2>0, <2>3 DEF Send, TypeInv, TypeOK, commandVars
  <2>4. CASE ReceiveRow
    BY <1>2, <2>0, <2>4 DEF ReceiveRow, TypeInv, TypeOK, commandVars
  <2>5. ASSUME NEW reason \in {"output", "deadline", "network", "invalid", "not_found", "timeout", "internal"},
               pc = "asked", Leave(reason)
        PROVE  TypeInv'
    BY <1>2, <2>0, <2>5 DEF Leave, TypeInv, TypeOK, commandVars
  <2>6. CASE ReceiveError \/ OutputFails \/ TimeOut \/ Disconnect
    <3>1. CASE ReceiveError
      <4>1. answer \in {"invalid", "not_found", "timeout", "internal"}
        BY <1>2, <3>1 DEF ReceiveError, TypeInv, TypeOK, Leave
      <4> QED  BY <2>5, <3>1, <4>1 DEF ReceiveError
    <3>2. CASE OutputFails
      BY <2>5, <3>2 DEF OutputFails
    <3>3. CASE TimeOut
      BY <2>5, <3>3 DEF TimeOut
    <3>4. CASE Disconnect
      BY <2>5, <3>4 DEF Disconnect
    <3> QED  BY <2>6, <3>1, <3>2, <3>3, <3>4
  <2>7. ASSUME NEW a, Reply(a)
        PROVE  (req' = "none" /\ answer' = "none") \/ (req' = "answered" /\ answer' = a)
    BY <2>7 DEF Reply
  <2>8. \A err : mapError(err) \in {"invalid", "not_found", "timeout", "internal"}
    BY DEF mapError
  <2>9. CASE Arrive
    <3>1. wait' = RequestedWait /\ left' \in 0..Max({wait', 0})
      BY <1>0, <2>0, <2>9 DEF Arrive
    <3> QED  BY <1>2, <2>0, <2>7, <2>8, <2>9, <3>1 DEF Arrive, TypeInv, TypeOK, commandVars
  <2>10. CASE NeverArrives
    BY <1>2, <2>0, <2>10 DEF NeverArrives, TypeInv, TypeOK, commandVars
  <2>11. CASE Succeed
    BY <1>2, <2>0, <2>7, <2>11 DEF Succeed, TypeInv, TypeOK, commandVars
  <2>12. CASE CommitArrives
    BY <1>2, <2>0, <2>12 DEF CommitArrives, TypeInv, TypeOK, commandVars
  <2>13. ASSUME NEW err \in Errors, Fail(err)  PROVE TypeInv'
    <3>1. pending' \in BOOLEAN
      BY <2>13 DEF Fail
    <3> QED  BY <1>2, <2>0, <2>7, <2>8, <2>13, <3>1 DEF Fail, TypeInv, TypeOK, commandVars
  <2>14. CASE Tick
    <3>1. /\ timer' \in 0..timeout'
          /\ left' \in 0..Max({wait', 0})
          /\ {spent', slow'} \subseteq 0..MaxDuration
          /\ pc = "start" => timer' = 0
      <4>1. timer' \in 0..timeout' /\ (pc = "start" => timer' = 0)
        BY <1>2, <2>0, <2>14, EarlierAndLater DEF Tick, TypeInv, TypeOK, commandVars
      <4>2. left' \in 0..Positive(wait') /\ wait' \in Durations
        <5>1. wait' = wait /\ left' \in 0..left
          BY <2>0, <2>14, EarlierAndLater DEF Tick
        <5>2. Positive(wait') = Positive(wait)
          BY <5>1
        <5> QED  BY <2>0, <5>1, <5>2
      <4>3. {spent', slow'} \subseteq 0..MaxDuration
        <5>1. {spent, slow} \subseteq 0..MaxDuration
          BY <1>2 DEF TypeInv, TypeOK
        <5>2. \A n \in 0..MaxDuration : Later(n) \in 0..MaxDuration
          BY <1>0, EarlierAndLater
        <5> QED  BY <2>14, <5>1, <5>2 DEF Tick
      <4> QED  BY <2>1, <4>1, <4>2, <4>3
    <3> QED  BY <1>2, <2>0, <2>14, <3>1 DEF Tick, TypeInv, TypeOK, commandVars
  <2>15. CASE UNCHANGED vars
    BY <1>2, <2>15 DEF TypeInv, TypeOK, vars
  <2> QED  BY <1>2, <2>2, <2>3, <2>4, <2>6, <2>9, <2>10, <2>11, <2>12, <2>13, <2>14, <2>15 DEF Next
<1> QED  BY <1>1, <1>2, PTL DEF Spec

\* Every duration that the code computes is one that an int64 holds (TimeoutForWaitMS,
\* handleRead), and a row is shown only of an input.
THEOREM TypeCorrect == Spec => []TypeOK
<1>1. TypeInv => TypeOK
  BY DEF TypeInv
<1> QED  BY <1>1, TypeInvariant, PTL

-------------------------------------------------------------------------------
(* Arguments *)

Given(c) == {s \in {"file", "spec", "args"} : c[s] # <<>>}
SpecOf(c) == IF c.op = "out" THEN "tuple" ELSE "template"

\* A command that means something writes it, in one of its sources; one that means nothing
\* has no source or several, or something malformed in the one it has.
AsIntended(c) ==
    /\ c.means \in Seq(Seq(Field))
    /\ c.means # <<>> =>
           \/ Given(c) = {"file"} /\ c.file = c.means /\ ~Contains(c.file, NoFields)
           \/ \E s \in {"spec", "args"} :
                  /\ Given(c) = {s} /\ Len(c[s]) = Len(c.means)
                  /\ \A i \in DOMAIN c.means : Writes(SpecOf(c), c[s][i], c.means[i])
    /\ c.means = <<>> =>
           \/ \A s \in {"file", "spec", "args"} : Given(c) # {s}
           \/ Given(c) = {"file"} /\ Contains(c.file, NoFields)
           \/ \E s \in {"spec", "args"} :
                  Given(c) = {s} /\ \E i \in DOMAIN c[s] : Malformed(SpecOf(c), c[s][i])

LEMMA ArgumentIsParsed ==
    ASSUME NEW c, NEW text PROVE ParseArgument(c.op, text) = Parsed(SpecOf(c), text)
  BY DEF ParseArgument, Parsed, SpecOf

LEMMA IntendedIsLoaded ==
    ASSUME NEW c \in Commands, AsIntended(c)  PROVE LoadInputs[c] = c.means
<1>1. c.file \in Seq(Seq(Field)) /\ c.spec \in Texts /\ c.args \in Texts /\ c.means \in Seq(Seq(Field))
  BY CommandsAssumption DEF AsIntended
<1>2. SpecOf(c) \in {"tuple", "template"}
  BY DEF SpecOf
<1>3. LoadInputs[c] =
          CASE Given(c) = {"file"} -> IF Contains(c.file, NoFields) THEN <<>> ELSE c.file
            [] Given(c) = {"spec"} -> ParseArguments(c.op, c.spec)
            [] Given(c) = {"args"} -> ParseArguments(c.op, c.args)
            [] OTHER -> <<>>
  BY Zenon DEF LoadInputs, Given
<1>4. /\ Given(c) = {"file"} => LoadInputs[c] = IF Contains(c.file, NoFields) THEN <<>> ELSE c.file
      /\ \A s \in {"spec", "args"} : Given(c) = {s} => LoadInputs[c] = ParseArguments(c.op, c[s])
      /\ (\A s \in {"file", "spec", "args"} : Given(c) # {s}) => LoadInputs[c] = <<>>
  <2> HIDE DEF Given
  <2> QED  BY <1>3
<1>5. \A s \in {"spec", "args"} : c[s] \in Texts
  BY <1>1
<1>6. ASSUME NEW texts \in Texts
      PROVE  ParseArguments(c.op, texts) =
                 LET parsed == [i \in 1..Len(texts) |-> Parsed(SpecOf(c), texts[i])]
                 IN IF Contains(parsed, NoFields) THEN <<>> ELSE parsed
  <2>1. DOMAIN texts = 1..Len(texts)
    BY DEF Texts
  <2>2. [i \in DOMAIN texts |-> ParseArgument(c.op, texts[i])]
            = [i \in 1..Len(texts) |-> Parsed(SpecOf(c), texts[i])]
    BY <2>1, ArgumentIsParsed
  <2> QED  BY <2>2, Zenon DEF ParseArguments
<1>7. ASSUME NEW s \in {"spec", "args"}, Len(c[s]) = Len(c.means),
             \A i \in DOMAIN c.means : Writes(SpecOf(c), c[s][i], c.means[i])
      PROVE  ParseArguments(c.op, c[s]) = c.means
  <2> DEFINE n == Len(c.means)
             parsed == [i \in 1..n |-> Parsed(SpecOf(c), c[s][i])]
  <2>1. n \in Nat /\ DOMAIN c.means = 1..n /\ \A i \in 1..n : c.means[i] \in Seq(Field)
    BY <1>1
  <2>2. ASSUME NEW i \in 1..n  PROVE Parsed(SpecOf(c), c[s][i]) = c.means[i] /\ c.means[i] # NoFields
    <3>1. Writes(SpecOf(c), c[s][i], c.means[i]) /\ c.means[i] \in Seq(Field)
      BY <1>7, <2>1
    <3>2. c.means[i] # NoFields
      <4>1. PICK pieces \in Seq(Seq(Runes)) : Len(pieces) = Len(c.means[i]) /\ pieces # <<>>
        BY <3>1, Zenon DEF Writes
      <4>2. Len(pieces) # 0
        BY <4>1
      <4> QED  BY <4>1, <4>2 DEF NoFields
    <3> QED  BY <1>2, <3>1, <3>2, WrittenIsRead
  <2>3. parsed = c.means
    <3>1. parsed = [i \in 1..n |-> c.means[i]]
      BY <2>2
    <3>2. c.means \in [1..n -> Seq(Field)]
      BY <1>1, LenProperties
    <3>3. c.means = [i \in 1..n |-> c.means[i]]
      BY <3>2
    <3> QED  BY <3>1, <3>3
  <2>4. ~Contains(c.means, NoFields)
    BY <2>2 DEF Contains
  <2>5. ParseArguments(c.op, c[s]) = IF Contains(parsed, NoFields) THEN <<>> ELSE parsed
    BY <1>5, <1>6, <1>7
  <2> QED  BY <2>3, <2>4, <2>5
<1>8. ASSUME NEW s \in {"spec", "args"}, NEW i \in DOMAIN c[s], Malformed(SpecOf(c), c[s][i])
      PROVE  ParseArguments(c.op, c[s]) = <<>>
  <2> DEFINE parsed == [j \in 1..Len(c[s]) |-> Parsed(SpecOf(c), c[s][j])]
  <2>1. i \in 1..Len(c[s]) /\ Len(c[s]) \in Nat
    BY <1>5 DEF Texts
  <2>2. parsed[i] = NoFields /\ Len(parsed) = Len(c[s])
    BY <1>2, <1>8, <2>1, MalformedIsRefused
  <2>3. Contains(parsed, NoFields)
    BY <2>1, <2>2 DEF Contains
  <2> QED  BY <1>5, <1>6, <2>3
<1>9. CASE c.means # <<>>
  BY <1>4, <1>7, <1>9 DEF AsIntended
<1>10. CASE c.means = <<>>
  BY <1>4, <1>8, <1>10 DEF AsIntended
<1> QED  BY <1>9, <1>10

UnderstoodInv ==
    /\ cmd \in Commands
    /\ pc # "start" => inputs = LoadInputs[cmd]
    /\ pc \notin {"start", "failed"} => inputs # <<>>
    /\ why = "usage" => pc # "start" /\ inputs = <<>>

LEMMA UnderstoodInvariant == Spec => []UnderstoodInv
<1>1. Init => UnderstoodInv
  BY DEF Init, UnderstoodInv
<1>2. ASSUME TypeOK, UnderstoodInv, [Next]_vars  PROVE UnderstoodInv'
  <2>1. CASE Load
    BY <1>2, <2>1 DEF Load, UnderstoodInv
  <2>2. CASE Send
    BY <1>2, <2>2 DEF Send, UnderstoodInv, commandVars
  <2>3. CASE ReceiveRow
    BY <1>2, <2>3 DEF ReceiveRow, UnderstoodInv, commandVars
  <2>4. ASSUME NEW reason, reason # "usage", pc = "asked", Leave(reason)  PROVE UnderstoodInv'
    BY <1>2, <2>4 DEF Leave, UnderstoodInv, commandVars
  <2>5. CASE ReceiveError
    BY <1>2, <2>4, <2>5 DEF ReceiveError, TypeOK
  <2>6. CASE OutputFails
    BY <2>4, <2>6 DEF OutputFails
  <2>7. CASE TimeOut
    BY <2>4, <2>7 DEF TimeOut
  <2>8. CASE Disconnect
    BY <2>4, <2>8 DEF Disconnect
  <2>9. CASE \/ Arrive \/ NeverArrives \/ Succeed \/ CommitArrives \/ (\E err \in Errors : Fail(err))
             \/ Tick \/ UNCHANGED vars
    <3>1. UNCHANGED <<commandVars, pc, why>>
      BY <2>9 DEF Arrive, NeverArrives, Succeed, CommitArrives, Fail, Tick, vars, commandVars
    <3> QED  BY <1>2, <3>1 DEF UnderstoodInv, commandVars
  <2> QED  BY <1>2, <2>1, <2>2, <2>3, <2>5, <2>6, <2>7, <2>8, <2>9 DEF Next
<1> QED  BY <1>1, <1>2, TypeCorrect, PTL DEF Spec

\* When what is typed is what TupleDSL says of its meaning, the command sends that and nothing
\* else, all of it read before anything is sent, and what has no meaning is refused with
\* nothing sent (LoadTupleInputs, LoadTemplateInputs, splitSpecFields and the tokens): for
\* commands of any number of texts of any length.
THEOREM CommandsStayUnderstood ==
    ASSUME \A c \in Commands : AsIntended(c)
    PROVE  Spec => []CommandsAreUnderstood
<1>1. UnderstoodInv => CommandsAreUnderstood
  <2> SUFFICES ASSUME UnderstoodInv  PROVE CommandsAreUnderstood
    OBVIOUS
  <2>1. LoadInputs[cmd] = cmd.means
    BY IntendedIsLoaded DEF UnderstoodInv
  <2> QED  BY <2>1 DEF UnderstoodInv, CommandsAreUnderstood
<1> QED  BY <1>1, UnderstoodInvariant, PTL
===============================================================================
