---------------------------- MODULE ServiceProofs ----------------------------
(***************************************************************************)
(* Proofs about Service for any number of sessions, spaces and rows, from  *)
(* what is proved about the store and about the notifier.                  *)
(***************************************************************************)
EXTENDS Service, TLAPS

SP == INSTANCE TupleStoreProofs
NP == INSTANCE NotifierProofs WITH Clients <- Sessions, Closers <- {}

-------------------------------------------------------------------------------
(* The store and the notifier of the proofs are those of the service *)

LEMMA SameStore ==
    /\ Store!Init => SP!Init
    /\ \A s, o : Store!Call(s, o) => SP!Call(s, o)
    /\ \A s : Store!Step(s) => SP!Step(s)
    /\ \A s : Store!GiveUp(s) => SP!GiveUp(s)
    /\ UNCHANGED storeVars => UNCHANGED SP!vars
    /\ SP!TypeOK => Store!TypeOK
    /\ Store!Ids = SP!Ids /\ Store!NoReply = SP!NoReply /\ Store!Visible = SP!Visible
    /\ \A p, rows : Store!MatchingRows(p, rows) = SP!MatchingRows(p, rows)
<1> USE DEF Store!Ids, SP!Ids, Store!Goto, SP!Goto, Store!Return, SP!Return, Store!NoReply,
            SP!NoReply, Store!ForgetScan, SP!ForgetScan, Store!rowVars, SP!rowVars,
            Store!scanVars, SP!scanVars, Store!Visible, SP!Visible, Store!MatchingRows,
            SP!MatchingRows
<1>1. Store!Init => SP!Init
  BY DEF Store!Init, SP!Init, Store!NoOperation, SP!NoOperation
<1>2. \A rows : Store!Cardinality(rows) = SP!Cardinality(rows)
  BY DEF Store!Cardinality, SP!Cardinality
<1>3. \A s, o : Store!Call(s, o) => SP!Call(s, o)
  BY <1>2 DEF Store!Call, SP!Call, Store!Room, SP!Room
<1>4. \A s : Store!GiveUp(s) => SP!GiveUp(s)
  BY DEF Store!GiveUp, SP!GiveUp
<1>5. ASSUME NEW s, Store!Step(s) PROVE SP!Step(s)
  <2>1. /\ Store!Insert(s) => SP!Insert(s)
        /\ Store!Notify(s) => SP!Notify(s)
    BY DEF Store!Insert, SP!Insert, Store!Notify, SP!Notify, Store!Channel, SP!Channel
  <2>2. \A p : Store!CandidateRows(p) = SP!CandidateRows(p)
    BY DEF Store!CandidateRows, SP!CandidateRows
  <2>3. \A rows : Store!Window(rows) = SP!Window(rows) /\ Store!First(rows) = SP!First(rows)
    BY <1>2 DEF Store!Window, SP!Window, Store!First, SP!First
  <2>4. Store!Read(s) => SP!Read(s)
    BY <2>2, <2>3 DEF Store!Read, SP!Read
  <2>5. Store!MoreRows(s) <=> SP!MoreRows(s)
    BY <1>2 DEF Store!MoreRows, SP!MoreRows
  <2>6. /\ Store!SelectForUpdate(s) => SP!SelectForUpdate(s)
        /\ Store!EndSelect(s) => SP!EndSelect(s)
    BY <2>2, <2>5 DEF Store!SelectForUpdate, SP!SelectForUpdate, Store!EndSelect, SP!EndSelect
  <2>7. /\ Store!LockRow(s) => SP!LockRow(s)
        /\ Store!SkipRow(s) => SP!SkipRow(s)
    BY <2>3, <2>5 DEF Store!LockRow, SP!LockRow, Store!SkipRow, SP!SkipRow, Store!Lockable,
                      SP!Lockable, Store!Lock, SP!Lock, Store!Skippable, SP!Skippable
  <2>8. /\ Store!Take(s) => SP!Take(s)
        /\ Store!NoMatch(s) => SP!NoMatch(s)
    BY <2>3 DEF Store!Take, SP!Take, Store!NoMatch, SP!NoMatch, Store!Unlock, SP!Unlock
  <2>9. /\ Store!Delete(s) => SP!Delete(s)
        /\ \A i : Store!DeleteRow(s, i) => SP!DeleteRow(s, i)
        /\ Store!EndDelete(s) => SP!EndDelete(s)
    BY DEF Store!Delete, SP!Delete, Store!DeleteRow, SP!DeleteRow, Store!EndDelete, SP!EndDelete,
           Store!Lock, SP!Lock
  <2>10. Store!Victim(s) => SP!Victim(s)
    BY <1>4 DEF Store!Victim, SP!Victim, Store!Deadlocked, SP!Deadlocked
  <2>11. /\ Store!Commit(s) => SP!Commit(s)
         /\ Store!Answer(s) => SP!Answer(s)
         /\ Store!Reap(s) => SP!Reap(s)
         /\ Store!LateCommit(s) => SP!LateCommit(s)
    BY DEF Store!Commit, SP!Commit, Store!Answer, SP!Answer, Store!Reap, SP!Reap,
           Store!LateCommit, SP!LateCommit, Store!Apply, SP!Apply, Store!Unlock, SP!Unlock
  <2> QED  BY <1>5, <2>1, <2>4, <2>6, <2>7, <2>8, <2>9, <2>10, <2>11 DEF Store!Step, SP!Step
<1>6. UNCHANGED storeVars => UNCHANGED SP!vars
  BY DEF storeVars, SP!vars
<1>7. SP!TypeOK => Store!TypeOK
  BY DEF SP!TypeOK, Store!TypeOK, SP!Statuses, Store!Statuses, SP!PCs, Store!PCs,
         SP!Operations, Store!Operations, SP!Replies, Store!Replies
<1> QED  BY <1>1, <1>3, <1>4, <1>5, <1>6, <1>7

LEMMA SameNotifier ==
    /\ Notes!Init => NP!Init
    /\ \A s, ch : Notes!Subscribe(s, ch) => NP!Subscribe(s, ch)
    /\ \A s, ch : Notes!Notify(s, ch) => NP!Notify(s, ch)
    /\ \A s : Notes!Unsubscribe(s) => NP!Unsubscribe(s)
    /\ \A s : Notes!Snapshot(s) => NP!Snapshot(s)
    /\ \A s : Notes!Wake(s) => NP!Wake(s)
    /\ \A s : Notes!Receive(s) => NP!Receive(s)
    /\ Notes!Notification => NP!Notification
    /\ Notes!ConnectionDies => NP!ConnectionDies
    /\ \A ch : Notes!Publish(ch) => NP!Publish(ch)
    /\ UNCHANGED noteVars => UNCHANGED NP!vars
    /\ NP!TypeOK => Notes!TypeOK
    /\ \A s : Notes!Subscribed(s) <=> NP!Subscribed(s)
<1> USE DEF Notes!Subscribed, NP!Subscribed, Notes!Execute, NP!Execute, Notes!Waiting, NP!Waiting,
            Notes!Sent, NP!Sent, Notes!Delivered, NP!Delivered
<1>1. Notes!Init => NP!Init
  BY DEF Notes!Init, NP!Init
<1>2. Notes!Room => NP!Room
  <2>1. \A S : Notes!Cardinality(S) = NP!Cardinality(S)
    BY DEF Notes!Cardinality, NP!Cardinality
  <2> QED  BY <2>1 DEF Notes!Room, NP!Room
<1>3. /\ \A s, ch : Notes!Subscribe(s, ch) => NP!Subscribe(s, ch)
      /\ \A s, ch : Notes!Notify(s, ch) => NP!Notify(s, ch)
      /\ \A s : Notes!Unsubscribe(s) => NP!Unsubscribe(s)
      /\ \A s : Notes!Snapshot(s) => NP!Snapshot(s)
      /\ \A s : Notes!Wake(s) => NP!Wake(s)
  BY <1>2 DEF Notes!Subscribe, NP!Subscribe, Notes!Notify, NP!Notify, Notes!Unsubscribe,
              NP!Unsubscribe, Notes!Snapshot, NP!Snapshot, Notes!Wake, NP!Wake
<1>4. ASSUME NEW s, Notes!Receive(s) PROVE NP!Receive(s)
  <2>1. Notes!Interrupted = NP!Interrupted
    BY DEF Notes!Interrupted, NP!Interrupted
  <2>2. \A i : /\ Notes!ApplySubscribe(s, i) => NP!ApplySubscribe(s, i)
               /\ Notes!ApplySubscribeFails(s, i) => NP!ApplySubscribeFails(s, i)
               /\ Notes!ApplyUnsubscribe(s, i) => NP!ApplyUnsubscribe(s, i)
               /\ Notes!ApplySnapshot(s, i) => NP!ApplySnapshot(s, i)
               /\ Notes!ApplyClose(s, i) => NP!ApplyClose(s, i)
               /\ \A box : Notes!ApplyNotify(s, i, box) => NP!ApplyNotify(s, i, box)
    BY DEF Notes!ApplySubscribe, NP!ApplySubscribe, Notes!ApplySubscribeFails,
           NP!ApplySubscribeFails, Notes!ApplyUnsubscribe, NP!ApplyUnsubscribe,
           Notes!ApplySnapshot, NP!ApplySnapshot, Notes!ApplyClose, NP!ApplyClose,
           Notes!ApplyNotify, NP!ApplyNotify, Notes!Decrement, NP!Decrement
  <2> QED  BY <1>4, <2>1, <2>2 DEF Notes!Receive, NP!Receive, Notes!Serving, NP!Serving
<1>5. /\ Notes!Notification => NP!Notification
      /\ Notes!ConnectionDies => NP!ConnectionDies
      /\ \A ch : Notes!Publish(ch) => NP!Publish(ch)
  BY <1>2 DEF Notes!Notification, NP!Notification, Notes!ConnectionDies, NP!ConnectionDies,
              Notes!Publish, NP!Publish
<1>6. UNCHANGED noteVars => UNCHANGED NP!vars
  BY DEF noteVars, NP!vars
<1>7. NP!TypeOK => Notes!TypeOK
  BY DEF NP!TypeOK, Notes!TypeOK, NP!Calls, Notes!Calls
<1> QED  BY <1>1, <1>3, <1>4, <1>5, <1>6, <1>7

\* What is proved about the two parts, here.
LEMMA StoreParts ==
    /\ SP!Init => SP!IInv /\ SP!ScanInv
    /\ SP!IInv /\ [SP!Next]_SP!vars => SP!IInv'
    /\ SP!IInv /\ SP!ScanInv /\ [SP!Next]_SP!vars => SP!ScanInv'
BY SP!InitInv, SP!InitScan, SP!NextInv, SP!NextScan, StoreAssumption DEF SP!Ids

LEMMA NotifierAssumed == NP!IsFiniteSet(Sessions) /\ MaxInbox \in Nat
BY NotifierAssumption DEF IsFiniteSet, NP!IsFiniteSet

LEMMA NotifierParts ==
    /\ NP!Init => NP!IInv
    /\ NP!IInv /\ [NP!Next]_NP!vars => NP!IInv'
BY NP!InitIInv, NP!NextIInv, NotifierAssumed

-------------------------------------------------------------------------------
(* The invariant of the requests *)

\* The request has its subscription: between Subscribe and sub.Close.
Waits(s) == at[s] \in {"selecting", "returning"} \/ (at[s] = "scanning" /\ request[s].wait)

\* Where the goroutine is, what it has called, and whether it is subscribed.
CallOK(s) ==
    /\ at[s] # "idle" => request[s] \in Requests
    /\ at[s] \in {"subscribing", "selecting", "returning", "closing"} => request[s].wait
    /\ Waits(s) => NP!Subscribed(s)
    /\ Waits(s) \/ at[s] = "subscribing" => on[s] = ChannelOf(request[s].arg)
    /\ at[s] \in {"idle", "scanning", "selecting", "returning"} => call[s] = "none"
    /\ at[s] \in {"idle", "notifying", "counting"} => ~NP!Subscribed(s)
    /\ at[s] = "scanning" /\ ~request[s].wait => ~NP!Subscribed(s)
    /\ at[s] = "subscribing" => call[s] \in {"none", "subscribe"}
    /\ at[s] = "notifying" => call[s] \in {"none", "notify"}
    /\ at[s] = "counting" => call[s] \in {"none", "snapshot"}
    /\ at[s] = "closing" => call[s] = "unsubscribe" \/ (call[s] = "none" /\ ~NP!Subscribed(s))
    /\ s \in waiters => Waits(s)

\* The store works for a request that scans, on what it asked for.
ScanOK(s) ==
    /\ pc[s] \in SP!Active => at[s] = "scanning"
    /\ at[s] = "scanning" => op[s] = [kind |-> request[s].kind, arg |-> request[s].arg]

OwnTypeOK ==
    /\ request \in [Sessions -> Requests \cup {NoRequest}]
    /\ at \in [Sessions -> Places]
    /\ expired \in [Sessions -> BOOLEAN]
    /\ waiters \subseteq Sessions

RequestsInv == OwnTypeOK /\ \A s \in Sessions : CallOK(s) /\ ScanOK(s)

IInv == SP!IInv /\ SP!ScanInv /\ NP!IInv /\ RequestsInv

\* A request of a kind has its argument.
LEMMA RequestArgument ==
    ASSUME NEW r \in Requests
    PROVE  /\ r.wait => r.kind \in {"rd", "in"}
           /\ r.kind \in {"rd", "in"} => r.arg \in Templates /\ ChannelOf(r.arg) \in Channels
           /\ r.kind = "notify" => ChannelName[r.arg] \in Channels
           /\ r.kind # "notify" => [kind |-> r.kind, arg |-> r.arg] \in SP!Requests
BY ChannelAssumption DEF Requests, SP!Requests, ChannelOf

-------------------------------------------------------------------------------
(* A step of the service is a step of its parts, and of one session *)

StoreMoves(t) ==
    \/ UNCHANGED SP!vars
    \/ SP!Step(t) \/ SP!GiveUp(t) \/ \E o \in SP!Requests : SP!Call(t, o)

NotifierMoves(t) ==
    \/ UNCHANGED NP!vars
    \/ \E ch \in Channels : NP!Subscribe(t, ch) \/ NP!Notify(t, ch) \/ NP!Publish(ch)
    \/ NP!Unsubscribe(t) \/ NP!Snapshot(t) \/ NP!Wake(t) \/ NP!Receive(t)

OwnMoves(t) ==
    /\ OwnTypeOK'
    /\ \A s \in Sessions \ {t} :
          /\ request'[s] = request[s] /\ at'[s] = at[s]
          /\ s \in waiters' <=> s \in waiters

Moves(t) == StoreMoves(t) /\ NotifierMoves(t) /\ OwnMoves(t)

\* A step of the notifier's loop, or of PostgreSQL, for nobody in particular.
Environment ==
    /\ NP!Notification \/ NP!ConnectionDies \/ UNCHANGED NP!vars
    /\ UNCHANGED SP!vars /\ UNCHANGED ownVars

LEMMA NewRequest ==
    ASSUME IInv, NEW t \in Sessions, NEW r \in May[t],
           StartOperation(t, r) \/ StartNotify(t, r) \/ StartWaiting(t, r)
    PROVE  Moves(t)
<1>1. r \in Requests /\ \E place \in Places : Accept(t, r, place)
  BY MayAssumption DEF StartOperation, StartNotify, StartWaiting, Places
<1>2. OwnMoves(t)
  BY <1>1 DEF Accept, MoveTo, OwnMoves, IInv, RequestsInv, OwnTypeOK
<1>3. StoreMoves(t) /\ NotifierMoves(t)
  <2>1. r \in Requests
    BY <1>1
  <2>2. CASE StartOperation(t, r)
    BY <2>1, <2>2, RequestArgument, SameStore, SameNotifier
       DEF StartOperation, Operate, StoreMoves, NotifierMoves
  <2>3. CASE StartNotify(t, r)
    BY <2>1, <2>3, RequestArgument, SameStore, SameNotifier
       DEF StartNotify, StoreMoves, NotifierMoves
  <2>4. CASE StartWaiting(t, r)
    BY <2>1, <2>4, RequestArgument, SameStore, SameNotifier
       DEF StartWaiting, StoreMoves, NotifierMoves
  <2> QED  BY <2>2, <2>3, <2>4
<1> QED  BY <1>2, <1>3 DEF Moves

LEMMA RequestProceeds == ASSUME IInv, NEW t \in Sessions, Proceed(t) PROVE Moves(t)
<1>1. OwnMoves(t)
  <2> USE DEF MoveTo, OwnMoves, IInv, RequestsInv, OwnTypeOK, Places
  <2>1. CASE Scan(t) \/ SubscribeFailed(t) \/ Finish(t) \/ Wait(t)
    BY <2>1 DEF Scan, SubscribeFailed, Finish, Wait, After
  <2>2. CASE Woken(t) \/ WaitOver(t)
    BY <2>2 DEF Woken, WaitOver
  <2>3. CASE CloseSubscription(t) \/ Count(t) \/ Done(t)
    BY <2>3 DEF CloseSubscription, Unregister, Count, Done
  <2> QED  BY <2>1, <2>2, <2>3 DEF Proceed
<1>2. at[t] \in {"subscribing", "selecting"} =>
          [kind |-> request[t].kind, arg |-> request[t].arg] \in SP!Requests
  <2> SUFFICES ASSUME at[t] \in {"subscribing", "selecting"}
               PROVE  [kind |-> request[t].kind, arg |-> request[t].arg] \in SP!Requests
    OBVIOUS
  <2>1. request[t] \in Requests /\ request[t].wait
    BY DEF IInv, RequestsInv, CallOK
  <2>2. request[t].kind # "notify"
    BY <2>1, RequestArgument
  <2> QED  BY <2>1, <2>2, RequestArgument
<1>3. StoreMoves(t) /\ NotifierMoves(t)
  <2> USE SameStore, SameNotifier DEF StoreMoves, NotifierMoves
  <2>1. CASE Scan(t)
    BY <1>2, <2>1 DEF Scan, Operate
  <2>2. CASE Woken(t)
    BY <1>2, <2>2 DEF Woken, Operate
  <2>3. CASE SubscribeFailed(t) \/ Finish(t) \/ Wait(t) \/ WaitOver(t) \/ Done(t)
    BY <2>3 DEF SubscribeFailed, Finish, Wait, WaitOver, Done
  <2>4. CASE CloseSubscription(t) \/ Count(t)
    BY <2>4 DEF CloseSubscription, Count
  <2> QED  BY <2>1, <2>2, <2>3, <2>4 DEF Proceed
<1> QED  BY <1>1, <1>3 DEF Moves

LEMMA StoreProceeds ==
    ASSUME IInv, NEW t \in Sessions, StoreStep(t) \/ StoreFails(t) \/ Expire(t) PROVE Moves(t)
<1>1. OwnMoves(t)
  BY DEF StoreStep, StoreFails, Expire, ownVars, OwnMoves, IInv, RequestsInv, OwnTypeOK
<1>2. StoreMoves(t)
  BY SameStore DEF StoreStep, StoreFails, Expire, StoreMoves
<1>3. NotifierMoves(t)
  <2>1. CASE StoreFails(t) \/ Expire(t)
    BY <2>1, SameNotifier DEF StoreFails, Expire, NotifierMoves
  <2>2. CASE StoreStep(t)
    <3>1. \A sp \in Announced(t) : ChannelName[sp] \in Channels
      BY ChannelAssumption DEF Announced, IInv, SP!IInv, SP!TypeOK
    <3> QED  BY <2>2, <3>1, SameNotifier DEF StoreStep, Announce, NotifierMoves
  <2> QED  BY <2>1, <2>2
<1> QED  BY <1>1, <1>2, <1>3 DEF Moves

\* The steps of session t, the notifier's answer to its call included.
Acts(t) ==
    \/ \E r \in May[t] : StartOperation(t, r) \/ StartNotify(t, r) \/ StartWaiting(t, r)
    \/ Proceed(t)
    \/ Expire(t) \/ StoreStep(t) \/ StoreFails(t)
    \/ (NotifierStep /\ Notes!Receive(t))

LEMMA ActsMove == ASSUME IInv, NEW t \in Sessions, Acts(t) PROVE Moves(t)
<1>1. CASE NotifierStep /\ Notes!Receive(t)
  BY <1>1, SameStore, SameNotifier
     DEF NotifierStep, Moves, StoreMoves, NotifierMoves, OwnMoves, ownVars, IInv, RequestsInv,
         OwnTypeOK
<1> QED  BY <1>1, NewRequest, RequestProceeds, StoreProceeds DEF Acts

LEMMA NextActs == ASSUME [Next]_vars PROVE (\E t \in Sessions : Acts(t)) \/ Environment
<1>1. CASE UNCHANGED vars
  BY <1>1, SameStore, SameNotifier DEF vars, Environment
<1>2. CASE NotifierStep
  BY <1>2, SameStore, SameNotifier DEF NotifierStep, Environment, Acts
<1>3. CASE ConnectionDies
  BY <1>3, SameStore, SameNotifier DEF ConnectionDies, Environment
<1> QED  BY <1>1, <1>2, <1>3 DEF Next, Acts

\* So the invariants of the store and of the notifier hold of them here.
LEMMA PartsKeep ==
    ASSUME IInv, [Next]_vars
    PROVE  SP!IInv' /\ SP!ScanInv' /\ NP!IInv' /\ [SP!Next]_SP!vars
<1>1. ASSUME NEW t \in Sessions, Moves(t) PROVE [SP!Next]_SP!vars /\ [NP!Next]_NP!vars
  BY <1>1 DEF Moves, StoreMoves, NotifierMoves, SP!Next, NP!Next
<1>2. ASSUME Environment PROVE [SP!Next]_SP!vars /\ [NP!Next]_NP!vars
  BY <1>2 DEF Environment, NP!Next
<1> QED  BY <1>1, <1>2, NextActs, ActsMove, StoreParts, NotifierParts DEF IInv

-------------------------------------------------------------------------------
(* The requests that a step is not of *)

\* What a step of another request leaves of s.
Unmoved(s) ==
    /\ request'[s] = request[s] /\ at'[s] = at[s]
    /\ s \in waiters' <=> s \in waiters
    /\ pc'[s] = pc[s] /\ op'[s] = op[s] /\ reply'[s] = reply[s]
    /\ snap'[s] = snap[s] /\ skipped'[s] = skipped[s]
    /\ call'[s] = call[s] /\ on'[s] = on[s]
    /\ NP!Subscribed(s)' <=> NP!Subscribed(s)
    /\ s \in owed => s \in owed'

LEMMA OthersUnmoved ==
    ASSUME IInv, NEW s \in Sessions,
           Environment \/ \E t \in Sessions \ {s} : Moves(t)
    PROVE  Unmoved(s)
<1>1. CASE Environment
  <2>1. NP!StepOfOthers(s)
    BY <1>1 DEF Environment, NP!StepOfOthers
  <2>2. /\ call'[s] = call[s] /\ on'[s] = on[s]
        /\ NP!Subscribed(s)' <=> NP!Subscribed(s)
        /\ s \in owed => s \in owed'
    BY <2>1, NP!OthersKeepClient, NotifierAssumed DEF IInv
  <2> QED  BY <1>1, <2>2 DEF Environment, Unmoved, ownVars, SP!vars, SP!scanVars
<1>2. ASSUME NEW t \in Sessions, t # s, Moves(t) PROVE Unmoved(s)
  <2>1. NP!StepOfOthers(s)
    BY <1>2 DEF Moves, NotifierMoves, NP!StepOfOthers
  <2>2. /\ call'[s] = call[s] /\ on'[s] = on[s]
        /\ NP!Subscribed(s)' <=> NP!Subscribed(s)
        /\ s \in owed => s \in owed'
    BY <2>1, NP!OthersKeepClient, NotifierAssumed DEF IInv
  <2>3. /\ pc'[s] = pc[s] /\ op'[s] = op[s] /\ reply'[s] = reply[s]
        /\ snap'[s] = snap[s] /\ skipped'[s] = skipped[s]
    <3>1. CASE UNCHANGED SP!vars
      BY <3>1 DEF SP!vars, SP!scanVars
    <3>2. CASE SP!Step(t) \/ SP!GiveUp(t) \/ \E o \in SP!Requests : SP!Call(t, o)
      BY <1>2, <3>2, SP!OthersStay, StoreAssumption DEF IInv, SP!Ids
    <3> QED  BY <1>2, <3>1, <3>2 DEF Moves, StoreMoves
  <2> QED  BY <1>2, <2>2, <2>3 DEF Moves, OwnMoves, Unmoved
<1> QED  BY <1>1, <1>2

LEMMA UnmovedOK ==
    ASSUME RequestsInv, NEW s \in Sessions, Unmoved(s) PROVE CallOK(s)' /\ ScanOK(s)'
<1>1. CallOK(s) /\ ScanOK(s)
  BY DEF RequestsInv
<1> QED  BY <1>1 DEF Unmoved, CallOK, ScanOK, Waits, ChannelOf

-------------------------------------------------------------------------------
(* The request that a step is of *)

\* The notifier's calls, as the requests make them.
LEMMA OwnCalls ==
    ASSUME IInv, NEW s \in Sessions
    PROVE  /\ \A ch \in Channels : NP!Subscribe(s, ch) =>
                  call'[s] = "subscribe" /\ on'[s] = ch /\ owed' = owed
           /\ \A ch \in Channels : NP!Notify(s, ch) => call'[s] = "notify" /\ ~NP!Subscribed(s)'
           /\ NP!Unsubscribe(s) => call'[s] = "unsubscribe" /\ on'[s] = on[s]
           /\ NP!Snapshot(s) => call'[s] = "snapshot" /\ ~NP!Subscribed(s)'
           /\ NP!Wake(s) => /\ call' = call /\ on' = on
                            /\ NP!Subscribed(s)' <=> NP!Subscribed(s)
<1>1. on[s] \in Channels /\ {"subscribe", "notify", "unsubscribe", "snapshot"} \subseteq NP!Calls
  BY DEF IInv, NP!IInv, NP!TypeOK, NP!Calls
<1>2. ASSUME NEW ch \in Channels, NEW kind \in NP!Calls, NP!Execute(s, kind, ch),
             ~NP!Subscribed(s) \/ ch = on[s]
      PROVE  /\ call'[s] = kind /\ on'[s] = ch /\ owed' = owed
             /\ NP!Subscribed(s)' <=> NP!Subscribed(s)
  BY <1>2, NP!CallKeepsClient, NotifierAssumed DEF IInv
<1> QED  BY <1>1, <1>2 DEF NP!Subscribe, NP!Notify, NP!Unsubscribe, NP!Snapshot, NP!Wake,
                           NP!Subscribed

LEMMA NewRequestOK ==
    ASSUME IInv, NEW s \in Sessions, NEW r \in May[s],
           StartOperation(s, r) \/ StartNotify(s, r) \/ StartWaiting(s, r)
    PROVE  CallOK(s)' /\ ScanOK(s)'
<1>1. r \in Requests /\ CallOK(s) /\ at \in [Sessions -> Places]
      /\ request \in [Sessions -> Requests \cup {NoRequest}]
  BY MayAssumption DEF IInv, RequestsInv, OwnTypeOK
<1>2. CASE StartOperation(s, r)
  <2>1. /\ at[s] = "idle" /\ at'[s] = "scanning" /\ request'[s] = r /\ ~r.wait
        /\ waiters' = waiters /\ UNCHANGED noteVars
        /\ SP!Call(s, [kind |-> r.kind, arg |-> r.arg])
    BY <1>1, <1>2, SameStore DEF StartOperation, Accept, MoveTo, Operate
  <2>2. op'[s] = [kind |-> r.kind, arg |-> r.arg]
    BY <2>1 DEF SP!Call, IInv, SP!IInv, SP!TypeOK
  <2>3. call'[s] = "none" /\ ~NP!Subscribed(s)' /\ s \notin waiters
    BY <1>1, <2>1 DEF CallOK, Waits, noteVars, NP!Subscribed
  <2> QED  BY <1>1, <2>1, <2>2, <2>3 DEF CallOK, ScanOK, Waits
<1>3. CASE StartNotify(s, r)
  <2>1. /\ at[s] = "idle" /\ pc[s] = "idle" /\ at'[s] = "notifying" /\ request'[s] = r
        /\ waiters' = waiters /\ UNCHANGED storeVars
        /\ NP!Notify(s, ChannelName[r.arg]) /\ ChannelName[r.arg] \in Channels
    BY <1>1, <1>3, SameNotifier, RequestArgument DEF StartNotify, Accept, MoveTo
  <2>2. call'[s] = "notify" /\ ~NP!Subscribed(s)' /\ s \notin waiters
    BY <1>1, <2>1, OwnCalls DEF CallOK, Waits
  <2> QED  BY <1>1, <2>1, <2>2 DEF CallOK, ScanOK, Waits, storeVars, SP!Active
<1>4. CASE StartWaiting(s, r)
  <2>1. /\ at[s] = "idle" /\ pc[s] = "idle" /\ at'[s] = "subscribing" /\ request'[s] = r /\ r.wait
        /\ waiters' = waiters /\ UNCHANGED storeVars
        /\ NP!Subscribe(s, ChannelOf(r.arg)) /\ ChannelOf(r.arg) \in Channels
    BY <1>1, <1>4, SameNotifier, RequestArgument DEF StartWaiting, Accept, MoveTo
  <2>2. call'[s] = "subscribe" /\ on'[s] = ChannelOf(r.arg) /\ s \notin waiters
    BY <1>1, <2>1, OwnCalls DEF CallOK, Waits
  <2> QED  BY <1>1, <2>1, <2>2 DEF CallOK, ScanOK, Waits, storeVars, SP!Active, ChannelOf
<1> QED  BY <1>2, <1>3, <1>4

LEMMA ProceedOK == ASSUME IInv, NEW s \in Sessions, Proceed(s) PROVE CallOK(s)' /\ ScanOK(s)'
<1>1. CallOK(s) /\ ScanOK(s) /\ OwnTypeOK
  BY DEF IInv, RequestsInv
<1>2. SP!NoReply # reply[s] => pc[s] \notin SP!Active
  BY DEF IInv, SP!IInv, SP!ReplyInv, SP!Active
<1>3. \A o : SP!Call(s, o) => op'[s] = o
  BY DEF SP!Call, IInv, SP!IInv, SP!TypeOK
<1> USE DEF MoveTo, OwnTypeOK
<1>4. CASE Scan(s)
  <2>1. SP!Call(s, [kind |-> request[s].kind, arg |-> request[s].arg])
        /\ NP!Subscribed(s)
    BY <1>4, SameStore, SameNotifier DEF Scan, Operate
  <2> QED  BY <1>1, <1>3, <1>4, <2>1 DEF Scan, CallOK, ScanOK, Waits, noteVars, NP!Subscribed,
                                         ChannelOf
<1>5. CASE SubscribeFailed(s)
  <2>1. ~NP!Subscribed(s)
    BY <1>5, SameNotifier DEF SubscribeFailed
  <2> QED  BY <1>1, <1>5, <2>1 DEF SubscribeFailed, CallOK, ScanOK, Waits, noteVars, storeVars,
                                   NP!Subscribed
<1>6. CASE Finish(s) \/ Wait(s)
  <2>1. pc[s] \notin SP!Active
    BY <1>2, <1>6, SameStore DEF Finish, Wait, Scanned
  <2>2. CASE Finish(s)
    BY <1>1, <2>1, <2>2 DEF Finish, Scanned, After, CallOK, ScanOK, Waits, noteVars, storeVars,
                            NP!Subscribed, ChannelOf
  <2>3. CASE Wait(s)
    BY <1>1, <2>1, <2>3 DEF Wait, Scanned, CallOK, ScanOK, Waits, noteVars, storeVars,
                            NP!Subscribed, ChannelOf
  <2> QED  BY <1>6, <2>2, <2>3
<1>7. CASE Woken(s)
  <2>1. /\ call' = call /\ on' = on
        /\ NP!Subscribed(s)' <=> NP!Subscribed(s)
    BY <1>7, SameNotifier, OwnCalls DEF Woken
  <2>2. \/ SP!Call(s, [kind |-> request[s].kind, arg |-> request[s].arg]) /\ at'[s] = "scanning"
        \/ UNCHANGED storeVars /\ at'[s] = "returning"
    BY <1>1, <1>7, SameStore DEF Woken, Operate
  <2> QED  BY <1>1, <1>3, <1>7, <2>1, <2>2 DEF Woken, CallOK, ScanOK, Waits, storeVars, ChannelOf
<1>8. CASE WaitOver(s)
  BY <1>1, <1>8 DEF WaitOver, CallOK, ScanOK, Waits, noteVars, storeVars, NP!Subscribed, ChannelOf
<1>9. CASE CloseSubscription(s)
  <2>1. call'[s] = "unsubscribe"
    BY <1>9, SameNotifier, OwnCalls DEF CloseSubscription
  <2> QED  BY <1>1, <1>9, <2>1 DEF CloseSubscription, Unregister, CallOK, ScanOK, Waits, storeVars
<1>10. CASE Count(s)
  <2>1. \/ at'[s] = "counting" /\ call'[s] = "snapshot" /\ ~NP!Subscribed(s)'
        \/ at'[s] = "idle" /\ UNCHANGED noteVars /\ call[s] = "none"
    BY <1>1, <1>10, SameNotifier, OwnCalls DEF Count
  <2> QED  BY <1>1, <1>10, <2>1 DEF Count, CallOK, ScanOK, Waits, storeVars, noteVars,
                                    NP!Subscribed
<1>11. CASE Done(s)
  BY <1>1, <1>11 DEF Done, CallOK, ScanOK, Waits, storeVars, noteVars, NP!Subscribed
<1> QED  BY <1>4, <1>5, <1>6, <1>7, <1>8, <1>9, <1>10, <1>11 DEF Proceed

LEMMA StoreStepOK ==
    ASSUME IInv, NEW s \in Sessions, StoreStep(s) \/ StoreFails(s) \/ Expire(s)
    PROVE  CallOK(s)' /\ ScanOK(s)'
<1>1. CallOK(s) /\ ScanOK(s)
  BY DEF IInv, RequestsInv
<1>2. UNCHANGED <<request, at, waiters, call, on, subscribers>>
  <2>1. CASE StoreStep(s)
    BY <2>1 DEF StoreStep, Announce, ownVars, noteVars, Notes!Publish
  <2>2. CASE StoreFails(s) \/ Expire(s)
    BY <2>2 DEF StoreFails, Expire, ownVars, noteVars
  <2> QED  BY <2>1, <2>2
<1>3. op'[s] = op[s] /\ (pc'[s] \in SP!Active => pc[s] \in SP!Active)
  <2>1. CASE StoreStep(s)
    <3>1. SP!Step(s)
      BY <2>1, SameStore DEF StoreStep
    <3>2. op'[s] = op[s] /\ (pc[s] \notin SP!Active => pc'[s] = "idle")
      BY <3>1, SP!OwnStep, StoreAssumption DEF IInv, SP!Ids
    <3> QED  BY <3>2 DEF SP!Active
  <2>2. CASE StoreFails(s)
    <3>1. SP!GiveUp(s)
      BY <2>2, SameStore DEF StoreFails
    <3>2. pc[s] \in SP!Active /\ op' = op
      BY <3>1 DEF SP!GiveUp, SP!Active, IInv, SP!IInv, SP!TypeOK, SP!PCs
    <3> QED  BY <3>2
  <2>3. CASE Expire(s)
    BY <2>3 DEF Expire, storeVars
  <2> QED  BY <2>1, <2>2, <2>3
<1> QED  BY <1>1, <1>2, <1>3 DEF CallOK, ScanOK, Waits, NP!Subscribed, ChannelOf

LEMMA ReceiveOK ==
    ASSUME IInv, NEW s \in Sessions, Notes!Receive(s), NotifierStep
    PROVE  CallOK(s)' /\ ScanOK(s)'
<1>1. CallOK(s) /\ ScanOK(s) /\ OwnTypeOK
  BY DEF IInv, RequestsInv
<1>2. UNCHANGED <<request, at, waiters, pc, op>>
  BY DEF NotifierStep, ownVars, storeVars
<1>3. NP!Receive(s) /\ call[s] # "none"
  BY SameNotifier DEF NP!Receive
<1>4. /\ call[s] # "close" /\ at[s] \in {"subscribing", "notifying", "counting", "closing"}
      /\ s \notin waiters
  BY <1>1, <1>3 DEF CallOK, OwnTypeOK, Places, Waits
<1>5. /\ call'[s] = "none" /\ on'[s] = on[s]
      /\ call[s] = "unsubscribe" => ~NP!Subscribed(s)'
      /\ call[s] \in {"notify", "snapshot"} => (NP!Subscribed(s)' <=> NP!Subscribed(s))
  BY <1>3, <1>4, NP!AnswerToClient, NotifierAssumed DEF IInv
<1> QED  BY <1>1, <1>2, <1>3, <1>4, <1>5 DEF CallOK, ScanOK, Waits, ChannelOf

LEMMA ActsOK == ASSUME IInv, NEW s \in Sessions, Acts(s) PROVE CallOK(s)' /\ ScanOK(s)'
BY NewRequestOK, ProceedOK, StoreStepOK, ReceiveOK DEF Acts

-------------------------------------------------------------------------------
(* The invariant is inductive *)

LEMMA InitIInv == ASSUME Init PROVE IInv
<1>1. SP!Init /\ NP!Init
  BY SameStore, SameNotifier DEF Init
<1>2. SP!IInv /\ SP!ScanInv /\ NP!IInv
  BY <1>1, StoreParts, NotifierParts
<1>3. OwnTypeOK
  BY DEF Init, OwnTypeOK, Places
<1>4. \A s \in Sessions : CallOK(s) /\ ScanOK(s)
  BY <1>1 DEF Init, CallOK, ScanOK, Waits, NP!Init, NP!Subscribed, SP!Init, SP!Active
<1> QED  BY <1>2, <1>3, <1>4 DEF IInv, RequestsInv

LEMMA NextIInv == ASSUME IInv, [Next]_vars PROVE IInv'
<1>1. SP!IInv' /\ SP!ScanInv' /\ NP!IInv'
  BY PartsKeep
<1>2. (\E t \in Sessions : Acts(t)) \/ Environment
  BY NextActs
<1>3. OwnTypeOK'
  BY <1>2, ActsMove DEF Moves, OwnMoves, Environment, ownVars, IInv, RequestsInv, OwnTypeOK
<1>4. ASSUME NEW s \in Sessions PROVE CallOK(s)' /\ ScanOK(s)'
  <2>1. CASE Acts(s)
    BY <2>1, ActsOK
  <2>2. CASE Environment \/ \E t \in Sessions \ {s} : Acts(t)
    BY <2>2, ActsMove, OthersUnmoved, UnmovedOK DEF IInv
  <2> QED  BY <1>2, <2>1, <2>2
<1> QED  BY <1>1, <1>3, <1>4 DEF IInv, RequestsInv

LEMMA Invariant == Spec => []IInv
<1>1. IInv /\ [Next]_vars => IInv'
  BY NextIInv
<1> QED  BY InitIInv, <1>1, PTL DEF Spec

-------------------------------------------------------------------------------
(* What follows from it *)

\* The variables of the store, of the notifier and of the requests stay in
\* their types, however the three are composed.
THEOREM TypeCorrect == Spec => []TypeOK
<1>1. IInv => TypeOK
  BY SameStore, SameNotifier
     DEF IInv, SP!IInv, NP!IInv, RequestsInv, OwnTypeOK, TypeOK
<1> QED  BY Invariant, <1>1, PTL

\* Whoever Waiters and Stats list is subscribed: registerWaiter comes after
\* Subscribe, and unregisterWaiter before sub.Close.
THEOREM WaitersStaySubscribed == Spec => []WaitersAreSubscribed
<1>1. IInv => WaitersAreSubscribed
  <2>1. ASSUME IInv, NEW s \in waiters PROVE NP!Subscribed(s) /\ call[s] = "none"
    <3>1. s \in Sessions /\ CallOK(s)
      BY <2>1 DEF IInv, RequestsInv, OwnTypeOK
    <3> QED  BY <3>1 DEF CallOK, Waits
  <2> QED  BY <2>1, SameNotifier DEF WaitersAreSubscribed
<1> QED  BY Invariant, <1>1, PTL

\* However a request ended, its waiter entry, its subscription and its row
\* locks are gone.
THEOREM RequestsLeaveNothing == Spec => []NothingLeftBehind
<1>1. IInv => NothingLeftBehind
  <2>1. ASSUME IInv, NEW s \in Sessions, at[s] = "idle"
        PROVE  /\ s \notin waiters /\ ~NP!Subscribed(s)
               /\ pc[s] = "idle" => \A i \in SP!Ids : lock[i] # s
    <3>1. CallOK(s)
      BY <2>1 DEF IInv, RequestsInv
    <3>2. pc[s] = "idle" => \A i \in SP!Ids : lock[i] # s
      BY <2>1, StoreAssumption DEF IInv, SP!IInv, SP!LockInv, SP!Open
    <3> QED  BY <2>1, <3>1, <3>2 DEF CallOK, Waits
  <2> QED  BY <2>1, SameStore, SameNotifier DEF NothingLeftBehind
<1> QED  BY Invariant, <1>1, PTL

-------------------------------------------------------------------------------
(* What the parts promise is kept in the whole *)

\* The service with its waiters, wakeups and deadlines is still a tuple space: whatever
\* request retries, waits or is given up, each tuple is put once and removed once, by one
\* request that asked for it and is told of no other (Service over PostgreSQL).
THEOREM ServesTupleSpace == Spec => SP!AbstractSpec
<1>1. Init => SP!Abstract!Init
  <2>1. Init => SP!Init
    BY SameStore DEF Init
  <2>2. SP!Init => SP!Abstract!Init
    BY SP!InitRefines, StoreAssumption DEF SP!Ids
  <2> QED  BY <2>1, <2>2
<1>2. IInv /\ [Next]_vars => [SP!Abstract!Next]_(SP!Abstract!vars)
  <2>1. IInv /\ [Next]_vars => SP!IInv /\ [SP!Next]_(SP!vars)
    BY PartsKeep DEF IInv
  <2>2. SP!IInv /\ [SP!Next]_(SP!vars) => [SP!Abstract!Next]_(SP!Abstract!vars)
    BY SP!NextRefines, StoreAssumption DEF SP!Ids
  <2> QED  BY <2>1, <2>2
<1> QED  BY <1>1, <1>2, Invariant, PTL DEF Spec, SP!AbstractSpec, SP!Abstract!Spec

\* Deadlines, wakeups and cancelled requests take nothing from what TupleStore promises: no
\* tuple is taken twice, what a request is told of was committed and matches, no lock is
\* leaked, and not_found is explained (Service.read, Out, the admin's Purge).
THEOREM StoreStaysSafe ==
    Spec => [](SP!TakenOnce /\ SP!FoundIsReal /\ SP!NoLockLeak /\ SP!NotFoundExplained)
<1>1. SP!IInv => SP!TakenOnce
  BY StoreAssumption
     DEF SP!IInv, SP!TakenOnce, SP!DisjointInv, SP!TargetInv, SP!Removed, SP!Ids
<1>2. SP!IInv => SP!NoLockLeak
  BY DEF SP!IInv, SP!NoLockLeak, SP!LockInv, SP!Open
<1>3. SP!IInv => SP!FoundIsReal
  BY DEF SP!IInv, SP!FoundIsReal, SP!ReplyInv
<1>4. SP!IInv /\ SP!ScanInv => SP!NotFoundExplained
  BY DEF SP!IInv, SP!ReplyInv, SP!NoReply, SP!ScanInv, SP!Scans, SP!Explained,
         SP!NotFoundExplained, SP!MatchingRows
<1> QED  BY <1>1, <1>2, <1>3, <1>4, Invariant, PTL DEF IInv

\* Nor from what Notifier promises: the counts are the subscriptions, who is subscribed is
\* listened for, and no wakeup is lost (Service.read's Subscribe and Close).
THEOREM NotifierStaysSafe ==
    Spec => [](NP!RefCountsAgree /\ NP!SubscribersAreHeard /\ NP!NoWakeupLost)
<1>1. IInv => NP!RefCountsAgree /\ NP!SubscribersAreHeard /\ NP!NoWakeupLost
  BY DEF IInv, NP!IInv
<1> QED  BY <1>1, Invariant, PTL

-------------------------------------------------------------------------------
(* Nothing is missed *)

(***************************************************************************)
(* The candidate limit hides no row that matches.                          *)
(* BuildCandidateQuery leaves the types of formal fields to the matcher:   *)
(* this holds of templates of actual fields, of spaces whose tuples have   *)
(* one shape per arity, and of spaces no larger than the limit.            *)
(***************************************************************************)
WindowsSuffice == \A p \in Templates : SP!Suffices(p)

RowsFor(s) == SP!MatchingRows(request[s].arg, SP!Visible)

\* A request that is about to wait, or waits, is owed a wakeup, or no row but those that it
\* passed over matches; one that scans is owed a wakeup, or its SELECT has seen every row.
MissesNothing(s) ==
    /\ request[s].wait /\ (at[s] = "selecting" \/ (at[s] = "scanning" /\ reply[s].res = "not_found")) =>
           \/ s \in owed
           \/ \A i \in RowsFor(s) : request[s].kind = "in" /\ i \in skipped[s]
    /\ request[s].wait /\ at[s] = "scanning" /\ pc[s] \in {"locking", "matching"} =>
           s \in owed \/ RowsFor(s) \subseteq snap[s]

NoneMissed == \A s \in Sessions : MissesNothing(s)

\* Only the store's steps make a row visible.
LEMMA RowsAppear ==
    ASSUME IInv, [Next]_vars, NEW i \in SP!Ids, status[i] # "live", status'[i] = "live"
    PROVE  \E t \in Sessions : StoreStep(t)
<1>1. CASE Environment
  BY <1>1 DEF Environment, SP!vars, SP!rowVars
<1>2. ASSUME NEW t \in Sessions, NEW o, SP!Call(t, o) \/ SP!GiveUp(t) PROVE status' = status
  BY <1>2 DEF SP!Call, SP!GiveUp, SP!rowVars
<1>3. ASSUME NEW t \in Sessions, Acts(t), ~StoreStep(t) PROVE status' = status
  <2>1. CASE \E r \in May[t] : StartOperation(t, r) \/ StartNotify(t, r) \/ StartWaiting(t, r)
    BY <1>2, <2>1, SameStore DEF StartOperation, StartNotify, StartWaiting, Operate, storeVars
  <2>2. CASE Scan(t) \/ Woken(t)
    BY <1>2, <2>2, SameStore DEF Scan, Woken, Operate, storeVars
  <2>3. CASE \/ SubscribeFailed(t) \/ Finish(t) \/ Wait(t) \/ WaitOver(t)
             \/ CloseSubscription(t) \/ Count(t) \/ Done(t) \/ Expire(t) \/ NotifierStep
    BY <2>3 DEF SubscribeFailed, Finish, Wait, WaitOver, CloseSubscription, Count, Done, Expire,
                NotifierStep, storeVars
  <2>4. CASE StoreFails(t)
    BY <1>2, <2>4, SameStore DEF StoreFails
  <2> QED  BY <1>3, <2>1, <2>2, <2>3, <2>4 DEF Acts, Proceed
<1> QED  BY <1>1, <1>3, NextActs

\* A row that appears and matches is announced to every request that waits for one.
LEMMA NewRowIsOwed ==
    ASSUME IInv, [Next]_vars, NEW s \in Sessions, Waits(s), request[s].wait,
           NEW i \in SP!Ids, status[i] # "live", status'[i] = "live",
           tuple'[i] \in Matches[request[s].arg]
    PROVE  s \in owed'
<1>1. PICK t \in Sessions : StoreStep(t)
  BY RowsAppear
<1>2. /\ status[i] = "inserted" /\ tuple' = tuple
      /\ notes[t] = {SpaceOf[tuple[i]]}
  BY <1>1, SameStore, SP!AnnouncedByCommit, StoreAssumption DEF StoreStep, IInv, SP!Ids
<1>3. request[s] \in Requests /\ on[s] = ChannelOf(request[s].arg) /\ NP!Subscribed(s)
  BY DEF IInv, RequestsInv, CallOK, Waits
<1>4. request[s].arg \in Templates
  BY <1>3, RequestArgument
<1>5. SpaceOf[tuple[i]] = SpaceAsked[request[s].arg]
  BY <1>2, <1>4, StoreAssumption, ChannelAssumption
<1>6. Announced(t) = {SpaceAsked[request[s].arg]}
  BY <1>2, <1>5, SameStore DEF Announced
<1>7. owed' = owed \cup subscribers[on[s]]
  BY <1>1, <1>3, <1>6 DEF StoreStep, Announce, Notes!Publish, ChannelOf
<1> QED  BY <1>3, <1>7 DEF NP!Subscribed

\* The commit that makes a tuple visible is the step that notifies: at that very step every
\* subscriber of the space's channel has its token set or the notification on its way, so
\* that nobody can find the tuple without the waiters being on their way to it.
CommitsReachSubscribers ==
    [][\A i \in SP!Ids : \A s \in Sessions :
          /\ status[i] # "live" /\ status'[i] = "live" /\ connUp
          /\ s \in subscribers[ChannelName[SpaceOf[tuple[i]]]]
          => \/ token'[s] = 1
             \/ \E n \in DOMAIN inbox' : inbox'[n] = ChannelName[SpaceOf[tuple'[i]]]]_vars

\* Out's pg_notify, PostgreSQL's delivery at commit and the notifier's tokens fit together
\* (service.go:96-104, notifier.go deliverNotification).
THEOREM CommitsNotify == Spec => CommitsReachSubscribers
<1>1. ASSUME IInv, [Next]_vars, NEW i \in SP!Ids, NEW s \in Sessions,
             status[i] # "live", status'[i] = "live", connUp,
             s \in subscribers[ChannelName[SpaceOf[tuple[i]]]]
      PROVE  \/ token'[s] = 1
             \/ \E n \in DOMAIN inbox' : inbox'[n] = ChannelName[SpaceOf[tuple'[i]]]
  <2> DEFINE ch == ChannelName[SpaceOf[tuple[i]]]
  <2>1. PICK t \in Sessions : StoreStep(t)
    BY <1>1, RowsAppear
  <2>2. status[i] = "inserted" /\ tuple' = tuple /\ notes[t] = {SpaceOf[tuple[i]]}
    BY <1>1, <2>1, SameStore, SP!AnnouncedByCommit, StoreAssumption DEF StoreStep, IInv, SP!Ids
  <2>3. Announced(t) = {SpaceOf[tuple[i]]}
    BY <1>1, <2>2, SameStore DEF Announced
  <2>4. owed' = owed \cup subscribers[ch] /\ UNCHANGED <<connUp, on>>
    BY <2>1, <2>3 DEF StoreStep, Announce, Notes!Publish
  <2>5. ch \in Channels
    BY <2>3, ChannelAssumption, <1>1 DEF Announced, IInv, SP!IInv, SP!TypeOK
  <2>6. on'[s] = ch
    BY <1>1, <2>4, <2>5 DEF IInv, NP!IInv, NP!MembersInv
  <2>7. s \in owed' /\ connUp'
    BY <1>1, <2>4
  <2>8. NP!NoWakeupLost'
    BY <1>1, PartsKeep DEF NP!IInv
  <2> QED  BY <2>2, <2>6, <2>7, <2>8 DEF NP!NoWakeupLost
<1>2. IInv /\ [Next]_vars =>
          [\A i \in SP!Ids : \A s \in Sessions :
              /\ status[i] # "live" /\ status'[i] = "live" /\ connUp
              /\ s \in subscribers[ChannelName[SpaceOf[tuple[i]]]]
              => \/ token'[s] = 1
                 \/ \E n \in DOMAIN inbox' : inbox'[n] = ChannelName[SpaceOf[tuple'[i]]]]_vars
  BY <1>1
<1> QED  BY <1>2, Invariant, PTL DEF Spec, CommitsReachSubscribers

\* So a request that waits is owed a wakeup, or sees no row that it did not see before.
LEMMA OwedOrNoNewRows ==
    ASSUME IInv, [Next]_vars, NEW s \in Sessions, Waits(s), request[s].wait,
           request'[s] = request[s]
    PROVE  s \in owed' \/ RowsFor(s)' \subseteq RowsFor(s)
<1>1. SUFFICES ASSUME NEW i \in RowsFor(s)', i \notin RowsFor(s) PROVE s \in owed'
  OBVIOUS
<1>2. i \in SP!Ids /\ status'[i] = "live" /\ tuple'[i] \in Matches[request[s].arg]
  BY <1>1 DEF RowsFor, SP!MatchingRows, SP!Visible, SP!Ids
<1>3. status[i] # "live"
  <2>1. SUFFICES ASSUME status[i] = "live" PROVE tuple'[i] = tuple[i]
    BY <1>1, <1>2 DEF RowsFor, SP!MatchingRows, SP!Visible, SP!Ids
  <2> QED  BY <1>2, <2>1, PartsKeep, SP!CommittedRowsStay, StoreAssumption DEF IInv, SP!Ids
<1> QED  BY <1>2, <1>3, NewRowIsOwed

LEMMA UnmovedMissesNothing ==
    ASSUME IInv, [Next]_vars, NEW s \in Sessions, MissesNothing(s), Unmoved(s)
    PROVE  MissesNothing(s)'
<1>1. request[s].wait /\ at[s] \in {"selecting", "scanning"} =>
          s \in owed' \/ RowsFor(s)' \subseteq RowsFor(s)
  BY OwedOrNoNewRows DEF Unmoved, Waits
<1> QED  BY <1>1 DEF MissesNothing, Unmoved

\* The scan of an In that finds nothing has passed over every row that its SELECT saw and
\* that matches and is still there.
LEMMA ScanEnds ==
    ASSUME IInv, [Next]_vars, WindowsSuffice, NEW s \in Sessions, request[s] \in Requests,
           request[s].wait, SP!Step(s), op[s] = [kind |-> request[s].kind, arg |-> request[s].arg],
           op[s].kind = "in", pc[s] = "matching",
           reply[s].res # "not_found", reply'[s].res = "not_found", UNCHANGED SP!scanVars
    PROVE  \A i \in snap[s] : status'[i] = "live" /\ tuple'[i] \in Matches[request[s].arg] =>
               i \in skipped[s]
<1>1. op'[s] = op[s] /\ pc'[s] # "locking"
  <2>1. /\ op'[s] = op[s]
        /\ pc'[s] \in SP!Active => reply'[s] = reply[s]
    BY SP!OwnStep, StoreAssumption DEF IInv, SP!Ids
  <2> QED  BY <2>1 DEF SP!Active
<1>2. SP!Explained(s)' /\ SP!TypeOK'
  BY <1>1, PartsKeep DEF SP!ScanInv, SP!Scans, SP!IInv
<1> DEFINE p == request[s].arg
<1>3. p \in Templates /\ SP!Suffices(p) /\ op'[s].arg = p
  BY <1>1, RequestArgument DEF WindowsSuffice
<1>4. /\ snap'[s] \in SUBSET SP!Ids /\ held'[s] \in SUBSET snap'[s] /\ visit'[s] \in SUBSET snap'[s]
      /\ \A i \in snap'[s] : tuple'[i] \in Candidates[p]
      /\ \A i \in held'[s] : tuple'[i] \notin Matches[p]
      /\ held'[s] \cap visit'[s] = {}
      /\ visit'[s] # {} => SP!Cardinality(held'[s]) = CandidateLimit
  BY <1>1, <1>2, <1>3 DEF SP!Explained, SP!TypeOK, SP!MatchingRows
<1>5. visit'[s] = {}
  <2> HIDE DEF p
  <2>1. \A rows \in SUBSET SP!Ids : \A got, left \in SUBSET rows :
            /\ \A i \in rows : tuple'[i] \in Candidates[p]
            /\ \A i \in got : tuple'[i] \notin Matches[p]
            /\ got \cap left = {}
            /\ left # {} => SP!Cardinality(got) = CandidateLimit
            => left = {}
    <3> TAKE rows \in SUBSET SP!Ids
    <3> TAKE got, left \in SUBSET rows
    <3> QED  BY <1>3, SP!NoneLeft, StoreAssumption DEF SP!Ids
  <2> DEFINE rows == snap'[s]
             got == held'[s]
             left == visit'[s]
  <2>2. /\ rows \in SUBSET SP!Ids /\ got \in SUBSET rows /\ left \in SUBSET rows
        /\ \A i \in rows : tuple'[i] \in Candidates[p]
        /\ \A i \in got : tuple'[i] \notin Matches[p]
        /\ got \cap left = {}
        /\ left # {} => SP!Cardinality(got) = CandidateLimit
    BY <1>4
  <2> HIDE DEF rows, got, left
  <2>3. left = {}
    BY <2>1, <2>2
  <2> QED  BY <2>3 DEF left
<1> QED  BY <1>2, <1>4, <1>5 DEF SP!Explained, SP!scanVars

LEMMA StoreMissesNothing ==
    ASSUME IInv, [Next]_vars, WindowsSuffice, NEW s \in Sessions, MissesNothing(s), StoreStep(s)
    PROVE  MissesNothing(s)'
<1>1. SP!Step(s) /\ request' = request /\ at' = at
  BY SameStore DEF StoreStep, ownVars
<1>2. CallOK(s) /\ ScanOK(s) /\ at[s] \in Places
  BY DEF IInv, RequestsInv, OwnTypeOK
<1>3. s \in owed => s \in owed'
  BY DEF StoreStep, Announce, noteVars, Notes!Publish
<1>4. /\ op'[s] = op[s]
      /\ pc[s] \notin SP!Active => pc'[s] = "idle" /\ UNCHANGED <<reply, SP!scanVars>>
      /\ pc'[s] \in SP!Active => reply'[s] = reply[s]
      /\ pc'[s] \in {"locking", "matching"} =>
            \/ snap'[s] = SP!CandidateRows(op[s].arg) /\ UNCHANGED SP!rowVars
            \/ pc[s] \in {"locking", "matching"} /\ snap'[s] = snap[s]
  BY <1>1, SP!OwnStep, StoreAssumption DEF IInv, SP!Ids
<1>5. SUFFICES ASSUME request[s].wait, at[s] \in {"selecting", "scanning"}, s \notin owed'
               PROVE  MissesNothing(s)'
  BY <1>1 DEF MissesNothing
<1>6. Waits(s) /\ request[s] \in Requests
  BY <1>2, <1>5 DEF Waits, CallOK
<1>7. RowsFor(s)' \subseteq RowsFor(s)
  BY <1>1, <1>5, <1>6, OwedOrNoNewRows
<1>8. request[s].kind \in {"rd", "in"} /\ request[s].arg \in Templates
  BY <1>5, <1>6, RequestArgument
<1>9. CASE pc[s] \notin SP!Active
  BY <1>1, <1>3, <1>4, <1>5, <1>7, <1>9 DEF MissesNothing, SP!scanVars
<1>10. CASE pc[s] \in SP!Active
  <2>1. at[s] = "scanning" /\ op[s] = [kind |-> request[s].kind, arg |-> request[s].arg]
    BY <1>2, <1>5, <1>10 DEF ScanOK
  <2>2. reply[s] = SP!NoReply
    BY <1>10 DEF IInv, SP!IInv, SP!ReplyInv, SP!Active
  <2>3. ASSUME pc'[s] \in {"locking", "matching"} PROVE RowsFor(s)' \subseteq snap'[s]
    <3>1. CASE snap'[s] = SP!CandidateRows(op[s].arg) /\ UNCHANGED SP!rowVars
      BY <1>7, <1>8, <2>1, <3>1, StoreAssumption
         DEF RowsFor, SP!MatchingRows, SP!CandidateRows
    <3>2. CASE pc[s] \in {"locking", "matching"} /\ snap'[s] = snap[s]
      BY <1>3, <1>5, <1>7, <2>1, <3>2 DEF MissesNothing
    <3> QED  BY <1>4, <2>3, <3>1, <3>2
  <2>4. ASSUME reply'[s].res = "not_found"
        PROVE  \A i \in RowsFor(s)' : request[s].kind = "in" /\ i \in skipped'[s]
    <3>1. reply[s].res # "not_found"
      BY <2>2 DEF SP!NoReply
    <3>2. /\ UNCHANGED <<status, tuple>>
          /\ \/ op[s].kind = "rd"
                /\ SP!MatchingRows(op[s].arg, SP!Window(SP!CandidateRows(op[s].arg))) = {}
             \/ op[s].kind = "in" /\ pc[s] = "matching" /\ UNCHANGED SP!scanVars
      BY <1>1, <2>4, <3>1, SP!NotFoundStep, StoreAssumption DEF IInv, SP!Ids
    <3>3. CASE /\ op[s].kind = "rd"
               /\ SP!MatchingRows(op[s].arg, SP!Window(SP!CandidateRows(op[s].arg))) = {}
      <4>1. SP!MatchingRows(request[s].arg, SP!Visible) = {}
        BY <1>8, <2>1, <3>3, SP!ExactWindow, StoreAssumption DEF SP!Ids, WindowsSuffice
      <4> QED  BY <1>7, <4>1 DEF RowsFor
    <3>4. CASE op[s].kind = "in" /\ pc[s] = "matching" /\ UNCHANGED SP!scanVars
      <4>1. RowsFor(s) \subseteq snap[s]
        BY <1>3, <1>5, <2>1, <3>4 DEF MissesNothing
      <4>2. \A i \in snap[s] : status'[i] = "live" /\ tuple'[i] \in Matches[request[s].arg] =>
                i \in skipped[s]
        BY <1>1, <1>5, <1>6, <2>1, <2>4, <3>1, <3>4, ScanEnds
      <4> QED  BY <1>1, <1>7, <2>1, <3>4, <4>1, <4>2
               DEF RowsFor, SP!MatchingRows, SP!Visible, SP!scanVars
    <3> QED  BY <3>2, <3>3, <3>4
  <2> QED  BY <1>1, <2>1, <2>3, <2>4 DEF MissesNothing
<1> QED  BY <1>9, <1>10

LEMMA ActsMissNothing ==
    ASSUME IInv, [Next]_vars, WindowsSuffice, NEW s \in Sessions, MissesNothing(s), Acts(s)
    PROVE  MissesNothing(s)'
<1>1. CallOK(s) /\ OwnTypeOK
  BY DEF IInv, RequestsInv
<1>2. ASSUME NEW o, SP!Call(s, o) PROVE pc'[s] = "called" /\ reply'[s].res = "none"
  BY <1>2 DEF SP!Call, SP!Goto, SP!NoReply, IInv, SP!IInv, SP!TypeOK
<1> USE DEF OwnTypeOK, MoveTo
<1>3. ASSUME NEW r \in May[s], StartOperation(s, r) \/ StartNotify(s, r) \/ StartWaiting(s, r)
      PROVE  MissesNothing(s)'
  <2>1. request'[s] = r
    BY <1>1, <1>3 DEF StartOperation, StartNotify, StartWaiting, Accept
  <2>2. CASE StartOperation(s, r)
    BY <2>1, <2>2 DEF StartOperation, MissesNothing
  <2>3. CASE StartNotify(s, r) \/ StartWaiting(s, r)
    <3>1. at'[s] \in {"notifying", "subscribing"}
      BY <1>1, <2>3 DEF StartNotify, StartWaiting, Accept
    <3> QED  BY <3>1 DEF MissesNothing
  <2> QED  BY <1>3, <2>2, <2>3
<1>4. CASE Scan(s) \/ Woken(s)
  <2>1. at'[s] = "returning" \/ (pc'[s] = "called" /\ reply'[s].res = "none" /\ at'[s] = "scanning")
    BY <1>1, <1>2, <1>4, SameStore DEF Scan, Woken, Operate
  <2> QED  BY <2>1 DEF MissesNothing
<1>5. CASE \/ SubscribeFailed(s) \/ Finish(s) \/ WaitOver(s)
           \/ CloseSubscription(s) \/ Count(s) \/ Done(s)
  <2>1. at'[s] \notin {"scanning", "selecting"}
    BY <1>1, <1>5 DEF SubscribeFailed, Finish, After, WaitOver, CloseSubscription, Count, Done
  <2> QED  BY <2>1 DEF MissesNothing
<1>6. CASE Wait(s)
  BY <1>1, <1>6 DEF Wait, Scanned, MissesNothing, RowsFor, SP!MatchingRows, SP!Visible, storeVars,
                    noteVars
<1>7. CASE Expire(s)
  BY <1>7 DEF Expire, MissesNothing, RowsFor, SP!MatchingRows, SP!Visible, storeVars, noteVars
<1>8. CASE StoreFails(s)
  <2>1. SP!GiveUp(s)
    BY <1>8, SameStore DEF StoreFails
  <2>2. /\ reply'[s].res = "error" /\ pc'[s] \notin {"locking", "matching"}
        /\ at'[s] = "scanning"
    BY <1>8, <2>1 DEF SP!GiveUp, SP!Return, SP!Goto, IInv, SP!IInv, SP!TypeOK, StoreFails, ownVars
  <2> QED  BY <2>2 DEF MissesNothing
<1>9. CASE NotifierStep /\ Notes!Receive(s)
  <2>1. call[s] # "none" /\ at' = at
    BY <1>9 DEF NotifierStep, Notes!Receive, ownVars
  <2> QED  BY <1>1, <2>1 DEF CallOK, MissesNothing
<1> QED  BY <1>3, <1>4, <1>5, <1>6, <1>7, <1>8, <1>9, StoreMissesNothing DEF Acts, Proceed

LEMMA NoneMissedInductive ==
    /\ Init => NoneMissed
    /\ WindowsSuffice /\ IInv /\ NoneMissed /\ [Next]_vars => NoneMissed'
<1>1. Init => NoneMissed
  BY DEF Init, NoneMissed, MissesNothing
<1>2. ASSUME WindowsSuffice, IInv, NoneMissed, [Next]_vars, NEW s \in Sessions
      PROVE  MissesNothing(s)'
  <2>1. CASE Acts(s)
    BY <1>2, <2>1, ActsMissNothing DEF NoneMissed
  <2>2. CASE Environment \/ \E t \in Sessions \ {s} : Acts(t)
    BY <1>2, <2>2, ActsMove, OthersUnmoved, UnmovedMissesNothing DEF NoneMissed
  <2> QED  BY <1>2, <2>1, <2>2, NextActs
<1> QED  BY <1>1, <1>2 DEF NoneMissed

\* A request that waits has missed no committed tuple that matches, however many sessions
\* come and go (read, service.go:160-228; Out; deliverNotification): as long as the window of
\* candidates hides none.
THEOREM WaitersMissNoTuple == ASSUME WindowsSuffice PROVE Spec => []WaitersMissNothing
<1>1. IInv /\ NoneMissed => WaitersMissNothing
  <2>1. ASSUME IInv, NoneMissed, NEW s \in Sessions, at[s] = "selecting", connUp,
               NEW i \in RowsFor(s)
        PROVE  \/ token[s] = 1
               \/ \E n \in DOMAIN inbox : inbox[n] = ChannelOf(request[s].arg)
               \/ request[s].kind = "in" /\ i \in skipped[s]
    <3>1. request[s].wait /\ on[s] = ChannelOf(request[s].arg)
      BY <2>1 DEF IInv, RequestsInv, CallOK, Waits
    <3>2. s \in owed \/ (request[s].kind = "in" /\ i \in skipped[s])
      BY <2>1, <3>1 DEF NoneMissed, MissesNothing
    <3>3. s \in owed => token[s] = 1 \/ \E n \in DOMAIN inbox : inbox[n] = on[s]
      BY <2>1 DEF IInv, NP!IInv, NP!NoWakeupLost
    <3> QED  BY <3>1, <3>2, <3>3
  <2> QED  BY <2>1, SameStore DEF WaitersMissNothing, RowsFor
<1>2. Init => IInv /\ NoneMissed
  BY InitIInv, NoneMissedInductive
<1>3. IInv /\ NoneMissed /\ [Next]_vars => (IInv /\ NoneMissed)'
  BY NextIInv, NoneMissedInductive
<1> QED  BY <1>1, <1>2, <1>3, PTL DEF Spec
===============================================================================
