------------------------------- MODULE Notifier -------------------------------
(***************************************************************************)
(* The notifier (internal/notify/notifier.go): one goroutine, `loop', that *)
(* owns one PostgreSQL connection and the subscriptions of all requests.   *)
(* It serves the calls it is sent on the unbuffered controlCh one at a     *)
(* time, and between calls waits for notifications on the connection.      *)
(*                                                                         *)
(* A client is a goroutine that calls Subscribe, Subscription.Close,       *)
(* Snapshot, Notify or Notifier.Close; it has one subscription at a time,  *)
(* and one call, in which it is blocked until the loop has applied it.     *)
(*                                                                         *)
(* The connection is pgx's: a notification that PostgreSQL has sent stays  *)
(* in `inbox' (the socket, or pgx's own queue) until WaitForNotification   *)
(* returns it; a cancelled wait takes none, unless one was there already.  *)
(***************************************************************************)
EXTENDS Integers, FiniteSets, Sequences

CONSTANTS
    Clients,    \* goroutines that use the notifier
    Closers,    \* those of them that may call Notifier.Close
    Channels,   \* PostgreSQL channels: the values of ChannelName
    MaxInbox    \* bound: notifications on their way at a time

ASSUME ClientsAssumption == IsFiniteSet(Clients) /\ Closers \subseteq Clients
ASSUME InboxAssumption == MaxInbox \in Nat

VARIABLES
    loop,         \* "run", "closed" (state.closed is set), "exited" (doneCh is closed)
    call,         \* the call each client is blocked in
    on,           \* the channel that call, or the client's subscription, is about
    refCounts,    \* 0 for a channel that has no entry
    subscribers,  \* {} for a channel that has none, or an empty one
    keys,         \* the channels that have an entry in subscribers
    token,        \* what is in each subscription's channel, of capacity 1
    connUp,       \* the connection is alive
    listening,    \* channels its session listens on, in PostgreSQL
    inbox,        \* notifications sent to it
    owed          \* history: subscribers notified since they were last woken

vars == <<loop, call, on, refCounts, subscribers, keys, token, connUp, listening, inbox, owed>>

Calls == {"none", "subscribe", "unsubscribe", "snapshot", "notify", "close", "closing"}

TypeOK ==
    /\ loop \in {"run", "closed", "exited"}
    /\ call \in [Clients -> Calls]
    /\ on \in [Clients -> Channels]
    /\ refCounts \in [Channels -> Nat]
    /\ subscribers \in [Channels -> SUBSET Clients]
    /\ keys \subseteq Channels
    /\ token \in [Clients -> 0..1]
    /\ connUp \in BOOLEAN
    /\ listening \subseteq Channels
    /\ inbox \in Seq(Channels)
    /\ owed \subseteq Clients

Init ==
    /\ loop = "run"
    /\ call = [c \in Clients |-> "none"]
    /\ on \in [Clients -> Channels]
    /\ refCounts = [ch \in Channels |-> 0]
    /\ subscribers = [ch \in Channels |-> {}]
    /\ keys = {}
    /\ token = [c \in Clients |-> 0]
    /\ connUp = TRUE
    /\ listening = {}
    /\ inbox = <<>>
    /\ owed = {}

Subscribed(c) == c \in subscribers[on[c]]
Waiting == \E ch \in Channels : refCounts[ch] > 0

\* PostgreSQL sends a notification to a session that listens to its channel.
Sent(ch, box) == IF connUp /\ ch \in listening THEN Append(box, ch) ELSE box

\* Bound: the notifications on their way, those of calls to Notify included.
Room == Len(inbox) + Cardinality({c \in Clients : call[c] = "notify"}) < MaxInbox

-------------------------------------------------------------------------------
(* Clients *)

\* execute: the client sends its call and is blocked.
Execute(c, kind, ch) ==
    /\ call[c] = "none"
    /\ call' = [call EXCEPT ![c] = kind]
    /\ on' = [on EXCEPT ![c] = ch]
    /\ UNCHANGED <<loop, refCounts, subscribers, keys, token, connUp, listening, inbox, owed>>

Subscribe(c, ch) == ~Subscribed(c) /\ Execute(c, "subscribe", ch)
Unsubscribe(c) == Subscribed(c) /\ Execute(c, "unsubscribe", on[c])
Snapshot(c) == ~Subscribed(c) /\ Execute(c, "snapshot", on[c])
Notify(c, ch) == Room /\ ~Subscribed(c) /\ Execute(c, "notify", ch)
Close(c) == c \in Closers /\ ~Subscribed(c) /\ Execute(c, "close", on[c])

\* The subscriber receives from its channel.
Wake(c) ==
    /\ call[c] = "none" /\ Subscribed(c) /\ token[c] = 1
    /\ token' = [token EXCEPT ![c] = 0]
    /\ owed' = owed \ {c}
    /\ UNCHANGED <<loop, call, on, refCounts, subscribers, keys, connUp, listening, inbox>>

\* Close returns when doneCh is closed.
Closed(c) ==
    /\ call[c] = "closing" /\ loop = "exited"
    /\ call' = [call EXCEPT ![c] = "none"]
    /\ UNCHANGED <<loop, on, refCounts, subscribers, keys, token, connUp, listening, inbox, owed>>

-------------------------------------------------------------------------------
(* The loop *)

\* deliverNotification: a send that does not block to every subscriber.
Delivered_CountMutant(ch) == [c \in Clients |-> IF c \in subscribers[ch] THEN token[c] + 1 ELSE token[c]]
Delivered_OneMutant(ch) ==
    [c \in Clients |->
        IF subscribers[ch] # {} /\ c = (CHOOSE d \in subscribers[ch] : TRUE) THEN 1 ELSE token[c]]
Delivered(ch) == [c \in Clients |-> IF c \in subscribers[ch] THEN 1 ELSE token[c]]

\* WaitForNotification returns the first notification.
Notification ==
    /\ loop = "run" /\ Waiting /\ inbox # <<>>
    /\ token' = Delivered(Head(inbox))
    /\ inbox' = Tail(inbox)
    /\ UNCHANGED <<loop, call, on, refCounts, subscribers, keys, connUp, listening, owed>>

\* A call interrupts the wait, which may still return a notification: token
\* and inbox when the call is applied.
Interrupted_Mutant ==
    {<<token, inbox>>}
        \cup (IF Waiting /\ inbox # <<>> THEN {<<token, Tail(inbox)>>} ELSE {})
Interrupted ==
    {<<token, inbox>>}
        \cup (IF Waiting /\ inbox # <<>> THEN {<<Delivered(Head(inbox)), Tail(inbox)>>} ELSE {})

\* LISTEN, sent for the first subscriber of the channel.
ApplySubscribe_Mutant(c, tokens) ==
    LET ch == on[c] IN
    /\ call[c] = "subscribe"
    /\ listening' = IF refCounts[ch] = 1 THEN listening \cup {ch} ELSE listening
    /\ refCounts' = [refCounts EXCEPT ![ch] = @ + 1]
    /\ subscribers' = [subscribers EXCEPT ![ch] = @ \cup {c}]
    /\ keys' = keys \cup {ch}
    /\ token' = [tokens EXCEPT ![c] = 0]
    /\ UNCHANGED <<loop, owed>>
ApplySubscribe(c, tokens) ==
    LET ch == on[c] IN
    /\ call[c] = "subscribe"
    /\ refCounts[ch] = 0 => connUp
    /\ listening' = IF refCounts[ch] = 0 THEN listening \cup {ch} ELSE listening
    /\ refCounts' = [refCounts EXCEPT ![ch] = @ + 1]
    /\ subscribers' = [subscribers EXCEPT ![ch] = @ \cup {c}]
    /\ keys' = keys \cup {ch}
    /\ token' = [tokens EXCEPT ![c] = 0]
    /\ UNCHANGED <<loop, owed>>

\* LISTEN fails: Subscribe returns the error, and its entry stays.
ApplySubscribeFails(c, tokens) ==
    /\ call[c] = "subscribe"
    /\ refCounts[on[c]] = 0
    /\ keys' = keys \cup {on[c]}
    /\ token' = tokens
    /\ UNCHANGED <<loop, listening, refCounts, subscribers, owed>>

Decrement_Mutant(n) == n
Decrement(n) == IF n > 0 THEN n - 1 ELSE n

\* UNLISTEN is sent for the last subscriber of the channel, and may fail.
ApplyUnsubscribe(c, tokens) ==
    LET ch == on[c] IN
    /\ call[c] = "unsubscribe"
    /\ subscribers' = [subscribers EXCEPT ![ch] = @ \ {c}]
    /\ keys' = IF subscribers'[ch] = {} THEN keys \ {ch} ELSE keys
    /\ refCounts' = [refCounts EXCEPT ![ch] = Decrement(@)]
    /\ \/ UNCHANGED listening
       \/ Decrement(refCounts[ch]) = 0 /\ connUp /\ listening' = listening \ {ch}
    /\ token' = [tokens EXCEPT ![c] = 0]
    /\ owed' = owed \ {c}
    /\ UNCHANGED loop

ApplySnapshot(c, tokens) ==
    /\ call[c] = "snapshot"
    /\ token' = tokens
    /\ UNCHANGED <<loop, listening, refCounts, subscribers, keys, owed>>

\* pg_notify on the notifier's own connection, if it succeeds.
ApplyNotify(c, tokens, box) ==
    /\ call[c] = "notify"
    /\ token' = tokens
    /\ \/ connUp /\ inbox' = Sent(on[c], box) /\ owed' = owed \cup subscribers[on[c]]
       \/ inbox' = box /\ UNCHANGED owed
    /\ UNCHANGED <<loop, listening, refCounts, subscribers, keys>>

ApplyClose(c, tokens) ==
    /\ call[c] = "close"
    /\ loop' = "closed"
    /\ token' = tokens
    /\ UNCHANGED <<listening, refCounts, subscribers, keys, owed>>

Serving_Mutant == loop = "run" /\ (Waiting => inbox # <<>>)
Serving == loop = "run"

\* The loop takes the call of c, applies it and answers.
Receive(c) ==
    /\ Serving /\ call[c] \notin {"none", "closing"}
    /\ \E i \in Interrupted :
          \/ /\ \/ ApplySubscribe(c, i[1]) \/ ApplySubscribeFails(c, i[1])
                \/ ApplyUnsubscribe(c, i[1])
                \/ ApplySnapshot(c, i[1])
                \/ ApplyClose(c, i[1])
             /\ inbox' = i[2]
          \/ ApplyNotify(c, i[1], i[2])
    /\ call' = [call EXCEPT ![c] = IF @ = "close" THEN "closing" ELSE "none"]
    /\ UNCHANGED <<on, connUp>>

\* The deferred conn.Close and close(doneCh).
Exit ==
    /\ loop = "closed"
    /\ loop' = "exited"
    /\ connUp' = FALSE
    /\ listening' = {}
    /\ inbox' = <<>>
    /\ UNCHANGED <<call, on, refCounts, subscribers, keys, token, owed>>

-------------------------------------------------------------------------------
(* PostgreSQL *)

\* A transaction that called pg_notify for the channel commits.
Publish(ch) ==
    /\ Room
    /\ inbox' = Sent(ch, inbox)
    /\ owed' = owed \cup subscribers[ch]
    /\ UNCHANGED <<loop, call, on, refCounts, subscribers, keys, token, connUp, listening>>

\* The connection breaks; some of what was on its way is lost.  The loop logs
\* it ten times a second, and never opens another.
ConnectionDies ==
    /\ connUp
    /\ connUp' = FALSE
    /\ listening' = {}
    /\ \E n \in 0..Len(inbox) : inbox' = SubSeq(inbox, 1, n)
    /\ UNCHANGED <<loop, call, on, refCounts, subscribers, keys, token, owed>>

Next ==
    \/ \E c \in Clients :
          \/ \E ch \in Channels : Subscribe(c, ch) \/ Notify(c, ch)
          \/ Unsubscribe(c) \/ Snapshot(c) \/ Close(c) \/ Closed(c)
          \/ Wake(c)
          \/ Receive(c)
    \/ Notification \/ Exit
    \/ \E ch \in Channels : Publish(ch)
    \/ ConnectionDies

(***************************************************************************)
(* The loop runs, a sender on controlCh is received from in its turn       *)
(* (channels queue senders), and select, which picks at random, does not   *)
(* pass over a notification for ever.                                      *)
(***************************************************************************)
Fairness ==
    /\ \A c \in Clients : WF_vars(Receive(c)) /\ WF_vars(Wake(c)) /\ WF_vars(Closed(c))
    /\ WF_vars(Notification) /\ WF_vars(Exit)

Spec == Init /\ [][Next]_vars /\ Fairness

-------------------------------------------------------------------------------
(* Properties *)

\* The reference count is the number of subscriptions, so that UNLISTEN comes
\* with the last of them and LISTEN with the first (Subscribe, unsubscribe).
RefCountsAgree ==
    \A ch \in Channels :
        /\ refCounts[ch] = Cardinality(subscribers[ch])
        /\ refCounts[ch] > 0 => ch \in keys

\* While the connection lives, the session listens to every channel somebody is
\* subscribed to: an UNLISTEN never undoes another request's LISTEN.
SubscribersAreHeard ==
    connUp => \A ch \in Channels : subscribers[ch] # {} => ch \in listening

\* A notification committed while a request is subscribed to its channel reaches
\* that request: until it is woken its token is set, or a notification of the
\* channel is still on its way.  Neither the capacity of 1, nor a call that
\* interrupts the wait, nor another subscriber's coming and going loses it.
NoWakeupLost ==
    connUp => \A c \in owed : token[c] = 1 \/ \E n \in DOMAIN inbox : inbox[n] = on[c]

\* A notified subscriber is woken, unless it leaves, or the connection or the
\* notifier is gone.
OwedAreWoken == \A c \in Clients : c \in owed ~> c \notin owed \/ ~connUp \/ loop # "run"

\* No caller is left blocked in execute while the loop runs, a broken
\* connection included.
CallsEnd == \A c \in Clients : call[c] # "none" ~> call[c] = "none" \/ loop # "run"
===============================================================================
