------------------------------- MODULE Service -------------------------------
(***************************************************************************)
(* The service (internal/service/service.go): the requests that clients    *)
(* make over HTTP, in terms of the operations of TupleStore and of the     *)
(* Notifier.  A read that may wait (Service.read) subscribes, scans the    *)
(* store, and as long as it finds nothing waits for a notification, or for *)
(* the end of its context, before it scans again.                          *)
(*                                                                         *)
(* A session is a request with its goroutine, its subscription and the     *)
(* database connection its operation on the store uses.                    *)
(***************************************************************************)
EXTENDS Integers, FiniteSets, Sequences

CONSTANTS
    Sessions, Tuples, Templates, Candidates, Matches, Spaces, SpaceOf,
    Filters, CandidateLimit, MaxId, NoOne,      \* see TupleStore
    Channels, MaxInbox,                         \* see Notifier
    SpaceAsked,     \* SpaceAsked[p]: the space of the request with template p
    ChannelName,    \* ChannelName[sp]: the channel of a space
    May,            \* May[s]: the requests session s makes
    Faults          \* bound: the kinds of fault considered

VARIABLES
    status, tuple, lock, nextId, pc, op, snap, visit, held, skipped, target, notes, reply,
    loop, call, on, refCounts, subscribers, keys, token, connUp, listening, inbox, owed,
    request,    \* the request of each session
    at,         \* where its goroutine is
    expired,    \* its context is done: the wait is over, or the caller is gone
    waiters     \* activeWaiters

Store == INSTANCE TupleStore
Notes == INSTANCE Notifier WITH Clients <- Sessions, Closers <- {}

storeVars == <<status, tuple, lock, nextId, pc, op, snap, visit, held, skipped, target, notes, reply>>
noteVars == <<loop, call, on, refCounts, subscribers, keys, token, connUp, listening, inbox, owed>>
ownVars == <<request, at, expired, waiters>>
vars == <<storeVars, noteVars, ownVars>>

Requests ==
    [kind : {"out"}, arg : Tuples, wait : {FALSE}]
        \cup [kind : {"rd", "in"}, arg : Templates, wait : BOOLEAN]
        \cup [kind : {"delete"}, arg : Filters, wait : {FALSE}]
        \cup [kind : {"notify"}, arg : Spaces, wait : {FALSE}]

NoRequest == [kind |-> "none", arg |-> NoOne, wait |-> FALSE]

\* What the store and the notifier assume.
ASSUME StoreAssumption ==
    /\ Candidates \in [Templates -> SUBSET Tuples] /\ Matches \in [Templates -> SUBSET Tuples]
    /\ \A p \in Templates : Matches[p] \subseteq Candidates[p]
    /\ SpaceOf \in [Tuples -> Spaces]
    /\ Filters \subseteq SUBSET (1..MaxId)
    /\ CandidateLimit \in Nat \ {0} /\ MaxId \in Nat
    /\ NoOne \notin Sessions \cup Tuples
ASSUME NotifierAssumption == IsFiniteSet(Sessions) /\ MaxInbox \in Nat
ASSUME MayAssumption == May \in [Sessions -> SUBSET Requests]
ASSUME FaultsAssumption == Faults \subseteq {"statement", "context", "connection"}
ASSUME ChannelAssumption ==
    /\ ChannelName \in [Spaces -> Channels]
    /\ SpaceAsked \in [Templates -> Spaces]
    /\ \A p \in Templates : \A t \in Candidates[p] : SpaceOf[t] = SpaceAsked[p]

Places == {"idle",
           "subscribing",     \* in notifier.Subscribe
           "scanning",        \* in an operation of the store
           "selecting",       \* in the select of read
           "returning",       \* about to run the deferred functions
           "closing",         \* in sub.Close
           "notifying",       \* in notifier.Notify
           "counting"}        \* in notifier.Snapshot

TypeOK ==
    /\ Store!TypeOK
    /\ Notes!TypeOK
    /\ request \in [Sessions -> Requests \cup {NoRequest}]
    /\ at \in [Sessions -> Places]
    /\ expired \in [Sessions -> BOOLEAN]
    /\ waiters \subseteq Sessions

Init ==
    /\ Store!Init
    /\ Notes!Init
    /\ request = [s \in Sessions |-> NoRequest]
    /\ at = [s \in Sessions |-> "idle"]
    /\ expired = [s \in Sessions |-> FALSE]
    /\ waiters = {}

-------------------------------------------------------------------------------
(* Requests *)

MoveTo(s, place) == at' = [at EXCEPT ![s] = place]

ChannelOf_Mutant(p) == SpaceAsked[p]
ChannelOf(p) == ChannelName[SpaceAsked[p]]

\* The operation on the store starts.
Operate(s, r) == Store!Call(s, [kind |-> r.kind, arg |-> r.arg])

Accept(s, r, place) ==
    /\ at[s] = "idle" /\ pc[s] = "idle"
    /\ r \in May[s]
    /\ request' = [request EXCEPT ![s] = r]
    /\ MoveTo(s, place)
    /\ expired' = [expired EXCEPT ![s] = FALSE]
    /\ UNCHANGED waiters

\* Out, DeleteTuple, Purge, Rdp, Inp, and read with no wait.
StartOperation(s, r) ==
    /\ r.kind # "notify" /\ ~r.wait
    /\ Accept(s, r, "scanning")
    /\ Operate(s, r)
    /\ UNCHANGED noteVars

\* NotifyTest.
StartNotify(s, r) ==
    /\ r.kind = "notify"
    /\ Accept(s, r, "notifying")
    /\ Notes!Notify(s, ChannelName[r.arg])
    /\ UNCHANGED storeVars

\* read with a wait subscribes before it scans.
StartWaiting(s, r) ==
    /\ r.wait
    /\ Accept(s, r, "subscribing")
    /\ Notes!Subscribe(s, ChannelOf(r.arg))
    /\ UNCHANGED storeVars

\* Subscribe has returned.
Scan(s) ==
    /\ at[s] = "subscribing" /\ call[s] = "none"
    /\ Notes!Subscribed(s)
    /\ Operate(s, request[s])
    /\ MoveTo(s, "scanning")
    /\ UNCHANGED <<noteVars, request, expired, waiters>>

SubscribeFailed(s) ==
    /\ at[s] = "subscribing" /\ call[s] = "none"
    /\ ~Notes!Subscribed(s)
    /\ MoveTo(s, "idle")
    /\ UNCHANGED <<storeVars, noteVars, request, expired, waiters>>

\* The operation on the store has returned.
Scanned(s) == at[s] = "scanning" /\ reply[s] # Store!NoReply

After_Mutant(s) == IF request[s].wait /\ reply[s].res # "error" THEN "returning" ELSE "idle"
After(s) == IF request[s].wait THEN "returning" ELSE "idle"

Finish(s) ==
    /\ Scanned(s)
    /\ request[s].wait => reply[s].res # "not_found"
    /\ MoveTo(s, After(s))
    /\ UNCHANGED <<storeVars, noteVars, request, expired, waiters>>

\* Nothing found: register as a waiter, and wait.
Wait(s) ==
    /\ Scanned(s)
    /\ request[s].wait /\ reply[s].res = "not_found"
    /\ waiters' = waiters \cup {s}
    /\ MoveTo(s, "selecting")
    /\ UNCHANGED <<storeVars, noteVars, request, expired>>

\* The select's two cases: a notification (a scan under a context that is done
\* fails at once), and the end of the context.
Woken_Mutant(s) ==
    /\ at[s] = "selecting"
    /\ Notes!Wake(s)
    /\ UNCHANGED <<storeVars, ownVars>>
Woken(s) ==
    /\ at[s] = "selecting"
    /\ Notes!Wake(s)
    /\ \/ ~expired[s] /\ Operate(s, request[s]) /\ MoveTo(s, "scanning")
       \/ expired[s] /\ MoveTo(s, "returning") /\ UNCHANGED storeVars
    /\ UNCHANGED <<request, expired, waiters>>

Over_Mutant(s) == expired[s] /\ token[s] = 1
Over(s) == expired[s]

WaitOver(s) ==
    /\ at[s] = "selecting" /\ Over(s)
    /\ MoveTo(s, "returning")
    /\ UNCHANGED <<storeVars, noteVars, request, expired, waiters>>

\* The deferred functions: unregisterWaiter, then sub.Close.
Unregister_Mutant(s) == UNCHANGED waiters
Unregister(s) == waiters' = waiters \ {s}

CloseSubscription(s) ==
    /\ at[s] = "returning"
    /\ Unregister(s)
    /\ Notes!Unsubscribe(s)
    /\ MoveTo(s, "closing")
    /\ UNCHANGED <<storeVars, request, expired>>

\* NotifyTest asks for a Snapshot after its Notify, unless that failed.
Count(s) ==
    /\ at[s] = "notifying" /\ call[s] = "none"
    /\ \/ Notes!Snapshot(s) /\ MoveTo(s, "counting")
       \/ UNCHANGED noteVars /\ MoveTo(s, "idle")
    /\ UNCHANGED <<storeVars, request, expired, waiters>>

Done(s) ==
    /\ at[s] \in {"closing", "counting"} /\ call[s] = "none"
    /\ MoveTo(s, "idle")
    /\ UNCHANGED <<storeVars, noteVars, request, expired, waiters>>

\* The deadline of withOptionalTimeout passes, or the caller is gone.
Expire(s) ==
    /\ "context" \in Faults
    /\ at[s] # "idle" /\ ~expired[s]
    /\ expired' = [expired EXCEPT ![s] = TRUE]
    /\ UNCHANGED <<storeVars, noteVars, request, at, waiters>>

-------------------------------------------------------------------------------
(* The store and the notifier *)

\* PostgreSQL sends the notifications of a transaction when it commits.
Announced_Mutant(s) == IF notes[s] = {} THEN notes'[s] ELSE {}
Announced(s) ==
    IF \E i \in Store!Ids : status[i] = "inserted" /\ status'[i] = "live" THEN notes[s] ELSE {}

\* No statement is sent under a context that is done: the next one fails, the
\* Rollback after the last one included.
UnderContext(s) ==
    at[s] = "scanning" /\ reply[s] = Store!NoReply =>
        /\ expired[s] /\ pc[s] \in {"called", "inserted", "matching"} => pc'[s] = "broken"
        /\ reply'[s].res = "not_found" => (pc'[s] = "broken" <=> expired[s])

Announce(s) ==
    IF Announced(s) = {} THEN UNCHANGED noteVars
    ELSE \E sp \in Announced(s) : Notes!Publish(ChannelName[sp])

StoreStep(s) ==
    /\ Store!Step(s)
    /\ UnderContext(s)
    /\ Announce(s)
    /\ UNCHANGED ownVars

\* A statement fails, or the context it runs under is done.
StoreFails(s) ==
    /\ at[s] = "scanning" /\ reply[s] = Store!NoReply
    /\ expired[s] \/ "statement" \in Faults
    /\ Store!GiveUp(s)
    /\ UNCHANGED <<noteVars, ownVars>>

NotifierStep ==
    /\ Notes!Notification \/ \E s \in Sessions : Notes!Receive(s)
    /\ UNCHANGED <<storeVars, ownVars>>

ConnectionDies ==
    /\ "connection" \in Faults
    /\ Notes!ConnectionDies
    /\ UNCHANGED <<storeVars, ownVars>>

\* The steps of a request's goroutine.
Proceed(s) ==
    \/ Scan(s) \/ SubscribeFailed(s)
    \/ Finish(s) \/ Wait(s)
    \/ Woken(s) \/ WaitOver(s)
    \/ CloseSubscription(s) \/ Count(s) \/ Done(s)

Next ==
    \/ \E s \in Sessions :
          \/ \E r \in May[s] : StartOperation(s, r) \/ StartNotify(s, r) \/ StartWaiting(s, r)
          \/ Proceed(s)
          \/ Expire(s)
          \/ StoreStep(s) \/ StoreFails(s)
    \/ NotifierStep
    \/ ConnectionDies

(***************************************************************************)
(* Goroutines and PostgreSQL make progress, as in TupleStore and Notifier; *)
(* an operation whose context is done does not go on for ever.             *)
(***************************************************************************)
Fairness ==
    /\ \A s \in Sessions :
          /\ WF_vars(Proceed(s))
          /\ WF_vars(StoreStep(s))
          /\ WF_vars(expired[s] /\ StoreFails(s))
          /\ WF_vars(Notes!Receive(s) /\ NotifierStep)
    /\ WF_vars(Notes!Notification /\ NotifierStep)

Spec == Init /\ [][Next]_vars /\ Fairness

-------------------------------------------------------------------------------
(* Properties *)

\* Subscribe before the scan, pg_notify with the commit, a scan after each
\* wakeup: a request that waits has missed nothing.  While the connection
\* lives, each committed tuple that matches is one whose notification is still
\* coming, or one that SKIP LOCKED hid from its last scan.
WaitersMissNothing ==
    \A s \in Sessions :
        at[s] = "selecting" /\ connUp =>
            \A i \in Store!MatchingRows(request[s].arg, Store!Visible) :
                \/ token[s] = 1
                \/ \E n \in DOMAIN inbox : inbox[n] = ChannelOf(request[s].arg)
                \/ request[s].kind = "in" /\ i \in skipped[s]

\* Every listed waiter has its subscription (Waiters and Stats list requests
\* that a notification reaches).
WaitersAreSubscribed ==
    \A s \in waiters : Notes!Subscribed(s) /\ call[s] = "none"

\* A request that was answered leaves nothing behind: no waiter entry, no
\* subscription, and no lock but that of a connection being closed.
NothingLeftBehind ==
    \A s \in Sessions :
        at[s] = "idle" =>
            /\ s \notin waiters /\ ~Notes!Subscribed(s)
            /\ pc[s] = "idle" => \A i \in Store!Ids : lock[i] # s

\* Every request comes to its answer, whatever fails, or waits for a
\* notification or its deadline.
RequestsAnswered ==
    \A s \in Sessions :
        at[s] # "idle" ~> at[s] = "idle" \/ (at[s] = "selecting" /\ ~expired[s])

Served(s) == at[s] # "selecting" \/ Store!MatchingRows(request[s].arg, Store!Visible) = {}

\* A waiting rd notices a matching tuple without its deadline's help.
ReadersAreServed ==
    \A s \in Sessions :
        at[s] = "selecting" /\ request[s].kind = "rd" ~> Served(s) \/ ~connUp

\* docs/project-report.md:58: ``If a notification is delayed or missed, the
\* blocked operation still re-queries the store''.  Then no rd is answered with
\* a timeout while a matching tuple is in the store, even if the notifier has
\* lost its connection.
MissedIsRequeried ==
    [][\A s \in Sessions :
          at[s] = "selecting" /\ at'[s] = "returning" /\ request[s].kind = "rd" /\ ~connUp =>
              Store!MatchingRows(request[s].arg, Store!Visible) = {}]_vars
===============================================================================
