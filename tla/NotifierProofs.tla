---------------------------- MODULE NotifierProofs ----------------------------
(***************************************************************************)
(* Proofs about Notifier for any number of clients and channels.           *)
(***************************************************************************)
EXTENDS Notifier, FiniteSetTheorems, TLAPS

\* A client is subscribed to the channel it asked for and to no other; it
\* subscribes when it is not, and leaves when it is.
MembersInv ==
    /\ \A ch \in Channels : \A c \in subscribers[ch] : on[c] = ch
    /\ \A c \in Clients :
           /\ call[c] = "subscribe" => ~Subscribed(c)
           /\ call[c] = "unsubscribe" => Subscribed(c)

\* Only subscribers are owed a wake-up.
OwedInv == \A c \in owed : Subscribed(c)

IInv ==
    /\ TypeOK
    /\ MembersInv
    /\ RefCountsAgree
    /\ SubscribersAreHeard
    /\ OwedInv
    /\ NoWakeupLost

\* The wake-up of c is on its way.
Pending(c, tokens, box) == tokens[c] = 1 \/ \E n \in DOMAIN box : box[n] = on[c]

-------------------------------------------------------------------------------
(* Sequences of notifications *)

\* Taking the first notification leaves every other one (Notification).
LEMMA TailKeeps ==
    ASSUME NEW box \in Seq(Channels), box # <<>>
    PROVE  /\ Tail(box) \in Seq(Channels)
           /\ Head(box) \in Channels
           /\ \A n \in DOMAIN box :
                  box[n] = Head(box) \/ \E m \in DOMAIN Tail(box) : Tail(box)[m] = box[n]
<1>1. /\ Tail(box) \in Seq(Channels) /\ Head(box) \in Channels
      /\ Len(box) \in Nat /\ Len(box) > 0
  OBVIOUS
<1>2. ASSUME NEW n \in DOMAIN box, n # 1
      PROVE  \E m \in DOMAIN Tail(box) : Tail(box)[m] = box[n]
  <2>1. n - 1 \in 1..Len(Tail(box))  BY <1>1, <1>2
  <2>2. Tail(box)[n - 1] = box[n]  BY <1>1, <1>2, <2>1
  <2> QED  BY <2>1, <2>2, <1>1
<1>3. Head(box) = box[1]  OBVIOUS
<1> QED  BY <1>1, <1>2, <1>3

\* Sending keeps the notifications that are on their way (Sent).
LEMMA SentKeeps ==
    ASSUME NEW box \in Seq(Channels), NEW ch \in Channels
    PROVE  /\ Sent(ch, box) \in Seq(Channels)
           /\ \A n \in DOMAIN box : n \in DOMAIN Sent(ch, box) /\ Sent(ch, box)[n] = box[n]
           /\ connUp /\ ch \in listening => \E n \in DOMAIN Sent(ch, box) : Sent(ch, box)[n] = ch
<1>1. CASE connUp /\ ch \in listening
  <2>1. Sent(ch, box) = Append(box, ch)  BY <1>1 DEF Sent
  <2>2. Len(box) + 1 \in DOMAIN Append(box, ch) /\ Append(box, ch)[Len(box) + 1] = ch
    OBVIOUS
  <2> QED  BY <2>1, <2>2
<1>2. CASE ~(connUp /\ ch \in listening)
  BY <1>2 DEF Sent
<1> QED  BY <1>1, <1>2

-------------------------------------------------------------------------------
(* Deliveries *)

\* A delivery keeps every wake-up of a subscriber on its way (deliverNotification).
LEMMA DeliveryKeeps ==
    ASSUME IInv, inbox # <<>>
    PROVE  /\ Delivered(Head(inbox)) \in [Clients -> 0..1]
           /\ Tail(inbox) \in Seq(Channels)
           /\ \A c \in Clients : Subscribed(c) /\ Pending(c, token, inbox) =>
                  Pending(c, Delivered(Head(inbox)), Tail(inbox))
<1>1. inbox \in Seq(Channels) /\ token \in [Clients -> 0..1]
  BY DEF IInv, TypeOK
<1>2. Delivered(Head(inbox)) \in [Clients -> 0..1]
  BY <1>1 DEF Delivered
<1>3. ASSUME NEW c \in Clients, Subscribed(c), Pending(c, token, inbox)
      PROVE  Pending(c, Delivered(Head(inbox)), Tail(inbox))
  <2>1. CASE token[c] = 1
    BY <2>1 DEF Delivered, Pending
  <2>2. CASE \E n \in DOMAIN inbox : inbox[n] = on[c]
    <3>1. on[c] = Head(inbox) \/ \E m \in DOMAIN Tail(inbox) : Tail(inbox)[m] = on[c]
      BY <1>1, <2>2, TailKeeps
    <3>2. CASE on[c] = Head(inbox)
      BY <1>3, <3>2 DEF Delivered, Pending, Subscribed
    <3> QED  BY <3>1, <3>2 DEF Pending
  <2> QED  BY <1>3, <2>1, <2>2 DEF Pending
<1> QED  BY <1>1, <1>2, <1>3, TailKeeps

\* So does a call that interrupts the wait (loop).
LEMMA InterruptKeeps ==
    ASSUME IInv, NEW i \in Interrupted
    PROVE  /\ i[1] \in [Clients -> 0..1]
           /\ i[2] \in Seq(Channels)
           /\ \A c \in Clients : Subscribed(c) /\ Pending(c, token, inbox) => Pending(c, i[1], i[2])
<1>1. CASE i = <<token, inbox>>
  BY <1>1 DEF IInv, TypeOK
<1>2. CASE inbox # <<>> /\ i = <<Delivered(Head(inbox)), Tail(inbox)>>
  BY <1>2, DeliveryKeeps
<1> QED  BY <1>1, <1>2 DEF Interrupted

\* The wake-ups owed are on their way after a call has interrupted the wait.
LEMMA OwedStayPending ==
    ASSUME IInv, connUp, NEW i \in Interrupted, NEW c \in owed
    PROVE  Pending(c, i[1], i[2])
BY InterruptKeeps DEF IInv, TypeOK, OwedInv, NoWakeupLost, Pending

-------------------------------------------------------------------------------
(* The inductive invariant *)

\* It holds when the notifier has been created (New).
LEMMA InitIInv == Init => IInv
<1> SUFFICES ASSUME Init  PROVE IInv
  OBVIOUS
<1>1. TypeOK
  BY DEF Init, TypeOK, Calls
<1>2. RefCountsAgree
  BY FS_EmptySet DEF Init, RefCountsAgree
<1> QED  BY <1>1, <1>2 DEF Init, IInv, MembersInv, Subscribed, SubscribersAreHeard, OwedInv,
                           NoWakeupLost

\* A call that is sent changes nothing but the caller (execute).
LEMMA ExecuteKeeps ==
    ASSUME IInv, NEW c \in Clients, NEW ch \in Channels, NEW kind \in Calls,
           Execute(c, kind, ch),
           Subscribed(c) => kind = "unsubscribe" /\ ch = on[c],
           kind = "unsubscribe" => Subscribed(c)
    PROVE  IInv'
<1> USE DEF IInv
<1>1. TypeOK'
  BY DEF TypeOK, Execute
<1>2. \A d \in Clients : Subscribed(d) => on'[d] = on[d] /\ Subscribed(d)'
  BY DEF TypeOK, Execute, Subscribed
<1>3. \A d \in Clients : on'[d] = on[d] \/ (d = c /\ on'[d] = ch /\ ~Subscribed(c))
  BY DEF TypeOK, Execute
<1>4. \A x \in Channels : \A d \in subscribers[x] : Subscribed(d) /\ d \in Clients
  BY DEF TypeOK, MembersInv, Subscribed
<1>5. MembersInv'
  <2>1. (\A x \in Channels : \A d \in subscribers[x] : on[d] = x)'
    BY <1>2, <1>4 DEF MembersInv, Execute
  <2>2. ASSUME NEW d \in Clients
        PROVE  /\ call'[d] = "subscribe" => ~Subscribed(d)'
               /\ call'[d] = "unsubscribe" => Subscribed(d)'
    <3>1. CASE d = c
      <4>1. call'[d] = kind /\ on'[d] = ch /\ subscribers' = subscribers
        BY <3>1 DEF Execute, TypeOK
      <4>2. kind # "unsubscribe" => d \notin subscribers[ch]
        BY <3>1, <1>4 DEF MembersInv, TypeOK, Subscribed
      <4> QED  BY <3>1, <4>1, <4>2, <1>2 DEF Subscribed
    <3>2. CASE d # c
      BY <3>2, <1>3 DEF Execute, TypeOK, MembersInv, Subscribed
    <3> QED  BY <3>1, <3>2
  <2> QED  BY <2>1, <2>2 DEF MembersInv
<1>6. RefCountsAgree' /\ SubscribersAreHeard'
  BY DEF Execute, RefCountsAgree, SubscribersAreHeard
<1>7. OwedInv' /\ NoWakeupLost'
  BY <1>2 DEF Execute, TypeOK, OwedInv, NoWakeupLost
<1> QED  BY <1>1, <1>5, <1>6, <1>7

\* The rest of Receive: the caller is answered.
Answered(c) ==
    /\ call' = [call EXCEPT ![c] = IF @ = "close" THEN "closing" ELSE "none"]
    /\ UNCHANGED <<on, connUp>>

\* A subscription counts itself, is the client's only one, and is owed nothing
\* (Subscribe).
LEMMA ApplySubscribeKeeps ==
    ASSUME IInv, NEW c \in Clients, NEW i \in Interrupted,
           ApplySubscribe(c, i[1]), inbox' = i[2], Answered(c)
    PROVE  IInv'
<1> USE DEF IInv
<1> DEFINE ch == on[c]
<1>0. ch \in Channels /\ ~Subscribed(c) /\ c \notin subscribers[ch]
  BY DEF TypeOK, ApplySubscribe, MembersInv, Subscribed
<1>1. TypeOK'
  BY InterruptKeeps DEF TypeOK, ApplySubscribe, Answered, Calls
<1>2. /\ subscribers' = [subscribers EXCEPT ![ch] = @ \cup {c}]
      /\ subscribers \in [Channels -> SUBSET Clients]
  BY DEF ApplySubscribe, TypeOK
<1>3. MembersInv'
  BY <1>0, <1>2 DEF TypeOK, MembersInv, Answered, Subscribed, ApplySubscribe
<1>4. RefCountsAgree'
  <2> SUFFICES ASSUME NEW x \in Channels
               PROVE  /\ refCounts'[x] = Cardinality(subscribers'[x])
                      /\ refCounts'[x] > 0 => x \in keys'
    BY DEF RefCountsAgree
  <2>1. CASE x = ch
    <3>1. IsFiniteSet(subscribers[ch])
      BY <1>0, <1>2, ClientsAssumption, FS_Subset
    <3>2. Cardinality(subscribers[ch] \cup {c}) = Cardinality(subscribers[ch]) + 1
      BY <1>0, <3>1, FS_AddElement
    <3>3. subscribers'[ch] = subscribers[ch] \cup {c} /\ refCounts'[ch] = refCounts[ch] + 1
      BY <1>0, <1>2 DEF ApplySubscribe, TypeOK
    <3> QED  BY <1>0, <2>1, <3>2, <3>3 DEF RefCountsAgree, ApplySubscribe
  <2>2. CASE x # ch
    BY <1>0, <1>2, <2>2 DEF RefCountsAgree, ApplySubscribe, TypeOK
  <2> QED  BY <2>1, <2>2
<1>5. SubscribersAreHeard'
  <2> SUFFICES ASSUME connUp, NEW x \in Channels, subscribers'[x] # {}
               PROVE  x \in listening'
    BY DEF SubscribersAreHeard, Answered
  <2>1. CASE x = ch
    <3>1. CASE refCounts[ch] = 0
      BY <2>1, <3>1 DEF ApplySubscribe
    <3>2. CASE refCounts[ch] # 0
      <4>1. subscribers[ch] # {}
        BY <1>0, <3>2, FS_EmptySet DEF RefCountsAgree
      <4> QED  BY <1>0, <2>1, <4>1, <3>2 DEF SubscribersAreHeard, ApplySubscribe
    <3> QED  BY <3>1, <3>2
  <2>2. CASE x # ch
    BY <1>0, <1>2, <2>2 DEF SubscribersAreHeard, ApplySubscribe
  <2> QED  BY <2>1, <2>2
<1>6. OwedInv'
  BY <1>0, <1>2 DEF OwedInv, TypeOK, ApplySubscribe, Answered, Subscribed
<1>7. NoWakeupLost'
  <2> SUFFICES ASSUME connUp, NEW d \in owed
               PROVE  token'[d] = 1 \/ \E n \in DOMAIN inbox' : inbox'[n] = on'[d]
    BY DEF NoWakeupLost, Answered, ApplySubscribe
  <2>1. d # c /\ d \in Clients
    BY <1>0 DEF OwedInv, TypeOK
  <2>2. Pending(d, i[1], i[2]) /\ i[1] \in [Clients -> 0..1]
    BY OwedStayPending, InterruptKeeps
  <2> QED  BY <2>1, <2>2 DEF Pending, ApplySubscribe, Answered
<1> QED  BY <1>1, <1>3, <1>4, <1>5, <1>6, <1>7

\* The last subscriber to leave is the one that unlistens, and a wake-up of
\* another is not taken with it (unsubscribe).
LEMMA ApplyUnsubscribeKeeps ==
    ASSUME IInv, NEW c \in Clients, NEW i \in Interrupted,
           ApplyUnsubscribe(c, i[1]), inbox' = i[2], Answered(c)
    PROVE  IInv'
<1> USE DEF IInv
<1> DEFINE ch == on[c]
<1>0. ch \in Channels /\ c \in subscribers[ch]
  BY DEF TypeOK, ApplyUnsubscribe, MembersInv, Subscribed
<1>1. TypeOK'
  BY InterruptKeeps DEF TypeOK, ApplyUnsubscribe, Answered, Calls, Decrement
<1>2. /\ subscribers' = [subscribers EXCEPT ![ch] = @ \ {c}]
      /\ subscribers \in [Channels -> SUBSET Clients]
  BY DEF ApplyUnsubscribe, TypeOK
<1>3. MembersInv'
  BY <1>0, <1>2 DEF TypeOK, MembersInv, Answered, Subscribed, ApplyUnsubscribe
<1>4. refCounts'[ch] = Cardinality(subscribers'[ch]) /\ Decrement(refCounts[ch]) = refCounts'[ch]
  <2>1. IsFiniteSet(subscribers[ch])
    BY <1>0, <1>2, ClientsAssumption, FS_Subset
  <2>2. Cardinality(subscribers[ch] \ {c}) = Cardinality(subscribers[ch]) - 1
    BY <1>0, <2>1, FS_RemoveElement
  <2>3. refCounts[ch] > 0
    BY <1>0, <2>1, FS_CardinalityType, FS_EmptySet DEF RefCountsAgree
  <2>4. subscribers'[ch] = subscribers[ch] \ {c} /\ refCounts'[ch] = Decrement(refCounts[ch])
    BY <1>0, <1>2 DEF ApplyUnsubscribe, TypeOK
  <2> QED  BY <1>0, <2>2, <2>3, <2>4 DEF RefCountsAgree, Decrement
<1>5. IsFiniteSet(subscribers'[ch]) /\ (refCounts'[ch] = 0 <=> subscribers'[ch] = {})
  <2>1. IsFiniteSet(subscribers'[ch])
    BY <1>0, <1>2, ClientsAssumption, FS_Subset
  <2> QED  BY <2>1, <1>4, FS_EmptySet
<1>6. RefCountsAgree'
  <2> SUFFICES ASSUME NEW x \in Channels
               PROVE  /\ refCounts'[x] = Cardinality(subscribers'[x])
                      /\ refCounts'[x] > 0 => x \in keys'
    BY DEF RefCountsAgree
  <2>1. CASE x = ch
    <3>1. refCounts[ch] > 0
      BY <1>0, FS_Subset, ClientsAssumption, <1>2, FS_CardinalityType, FS_EmptySet DEF RefCountsAgree
    <3> QED  BY <1>0, <1>4, <1>5, <2>1, <3>1 DEF RefCountsAgree, ApplyUnsubscribe
  <2>2. CASE x # ch
    BY <1>0, <1>2, <2>2 DEF RefCountsAgree, ApplyUnsubscribe, TypeOK
  <2> QED  BY <2>1, <2>2
<1>7. SubscribersAreHeard'
  <2> SUFFICES ASSUME connUp, NEW x \in Channels, subscribers'[x] # {}
               PROVE  x \in listening'
    BY DEF SubscribersAreHeard, Answered
  <2>1. subscribers[x] # {}
    BY <1>0, <1>2
  <2>2. CASE x = ch
    BY <1>0, <1>4, <1>5, <2>1, <2>2 DEF SubscribersAreHeard, ApplyUnsubscribe
  <2>3. CASE x # ch
    BY <2>1, <2>3 DEF SubscribersAreHeard, ApplyUnsubscribe
  <2> QED  BY <2>2, <2>3
<1>8. OwedInv'
  BY <1>0, <1>2 DEF OwedInv, TypeOK, ApplyUnsubscribe, Answered, Subscribed
<1>9. NoWakeupLost'
  <2> SUFFICES ASSUME connUp, NEW d \in owed, d # c
               PROVE  token'[d] = 1 \/ \E n \in DOMAIN inbox' : inbox'[n] = on'[d]
    BY DEF NoWakeupLost, Answered, ApplyUnsubscribe
  <2>1. Pending(d, i[1], i[2]) /\ i[1] \in [Clients -> 0..1] /\ d \in Clients
    BY OwedStayPending, InterruptKeeps DEF TypeOK
  <2> QED  BY <2>1 DEF Pending, ApplyUnsubscribe, Answered
<1> QED  BY <1>1, <1>3, <1>6, <1>7, <1>8, <1>9

\* Calls that leave the subscriptions alone: a LISTEN that failed, Snapshot, Close.
LEMMA QuietCallsKeep ==
    ASSUME IInv, NEW c \in Clients, NEW i \in Interrupted,
           \/ ApplySubscribeFails(c, i[1])
           \/ ApplySnapshot(c, i[1])
           \/ ApplyClose(c, i[1]),
           inbox' = i[2], Answered(c)
    PROVE  IInv'
<1> USE DEF IInv, ApplySubscribeFails, ApplySnapshot, ApplyClose
<1>0. /\ token' = i[1]
      /\ UNCHANGED <<listening, refCounts, subscribers, owed, on, connUp>>
      /\ keys \subseteq keys'
  BY DEF Answered
<1>1. TypeOK'
  BY <1>0, InterruptKeeps DEF TypeOK, Answered, Calls
<1>2. MembersInv'
  BY <1>0 DEF TypeOK, MembersInv, Answered, Subscribed
<1>3. RefCountsAgree' /\ SubscribersAreHeard' /\ OwedInv'
  BY <1>0 DEF RefCountsAgree, SubscribersAreHeard, OwedInv, Subscribed
<1>4. NoWakeupLost'
  <2> SUFFICES ASSUME connUp, NEW d \in owed
               PROVE  token'[d] = 1 \/ \E n \in DOMAIN inbox' : inbox'[n] = on'[d]
    BY <1>0 DEF NoWakeupLost
  <2>1. Pending(d, i[1], i[2])
    BY OwedStayPending
  <2> QED  BY <1>0, <2>1 DEF Pending
<1> QED  BY <1>1, <1>2, <1>3, <1>4

\* What is sent to a channel with subscribers is on its way to each of them
\* (PostgreSQL's NOTIFY), after whatever was on its way before.
LEMMA SentIsPending ==
    ASSUME IInv, connUp, NEW ch \in Channels, NEW box \in Seq(Channels), NEW tokens,
           \A d \in owed : Pending(d, tokens, box),
           NEW d \in owed \cup subscribers[ch]
    PROVE  Pending(d, tokens, Sent(ch, box))
<1>1. CASE d \in owed
  <2>1. tokens[d] = 1 \/ \E n \in DOMAIN box : box[n] = on[d]
    BY <1>1 DEF Pending
  <2>2. CASE tokens[d] = 1
    BY <2>2 DEF Pending
  <2>3. ASSUME NEW n \in DOMAIN box, box[n] = on[d]
        PROVE  \E m \in DOMAIN Sent(ch, box) : Sent(ch, box)[m] = on[d]
    <3>1. n \in DOMAIN Sent(ch, box) /\ Sent(ch, box)[n] = box[n]
      BY SentKeeps
    <3> QED  BY <2>3, <3>1
  <2> QED  BY <2>1, <2>2, <2>3 DEF Pending
<1>2. CASE d \in subscribers[ch]
  <2>1. on[d] = ch /\ ch \in listening
    BY <1>2 DEF IInv, MembersInv, SubscribersAreHeard
  <2> QED  BY <2>1, SentKeeps DEF Pending
<1> QED  BY <1>1, <1>2

\* A NOTIFY on the notifier's own connection reaches its subscribers (Notify).
LEMMA ApplyNotifyKeeps ==
    ASSUME IInv, NEW c \in Clients, NEW i \in Interrupted,
           ApplyNotify(c, i[1], i[2]), Answered(c)
    PROVE  IInv'
<1> USE DEF IInv
<1> DEFINE ch == on[c]
<1>0. /\ token' = i[1] /\ ch \in Channels
      /\ UNCHANGED <<loop, listening, refCounts, subscribers, keys, on, connUp>>
      /\ \/ connUp /\ inbox' = Sent(ch, i[2]) /\ owed' = owed \cup subscribers[ch]
         \/ inbox' = i[2] /\ owed' = owed
  BY DEF ApplyNotify, Answered, TypeOK
<1>1. i[1] \in [Clients -> 0..1] /\ i[2] \in Seq(Channels) /\ Sent(ch, i[2]) \in Seq(Channels)
  BY <1>0, InterruptKeeps, SentKeeps
<1>2. owed' \subseteq owed \cup subscribers[ch] /\ owed' \subseteq Clients
  BY <1>0 DEF TypeOK
<1>3. TypeOK'
  BY <1>0, <1>1, <1>2 DEF TypeOK, Answered, Calls
<1>4. MembersInv'
  BY <1>0 DEF TypeOK, MembersInv, Answered, Subscribed
<1>5. RefCountsAgree' /\ SubscribersAreHeard'
  BY <1>0 DEF RefCountsAgree, SubscribersAreHeard
<1>6. OwedInv'
  BY <1>0, <1>2 DEF OwedInv, MembersInv, Subscribed
<1>7. NoWakeupLost'
  <2> SUFFICES ASSUME connUp, NEW d \in owed'
               PROVE  Pending(d, i[1], inbox')
    BY <1>0 DEF NoWakeupLost, Pending
  <2>1. \A e \in owed : Pending(e, i[1], i[2])
    BY OwedStayPending
  <2> QED  BY <1>0, <1>1, <2>1, SentIsPending
<1> QED  BY <1>3, <1>4, <1>5, <1>6, <1>7

\* Every step of the clients, the loop and PostgreSQL preserves the invariant.
LEMMA NextIInv == IInv /\ [Next]_vars => IInv'
<1> SUFFICES ASSUME IInv, [Next]_vars  PROVE IInv'
  OBVIOUS
<1> USE DEF IInv
<1>1. ASSUME NEW c \in Clients, NEW ch \in Channels, Subscribe(c, ch) \/ Notify(c, ch)
      PROVE  IInv'
  BY <1>1, ExecuteKeeps DEF Subscribe, Notify, Calls
<1>2. ASSUME NEW c \in Clients, Unsubscribe(c) \/ Snapshot(c) \/ Close(c)
      PROVE  IInv'
  <2>1. on[c] \in Channels
    BY DEF TypeOK
  <2> QED  BY <1>2, <2>1, ExecuteKeeps DEF Unsubscribe, Snapshot, Close, Calls
<1>3. ASSUME NEW c \in Clients, Closed(c)
      PROVE  IInv'
  <2>1. TypeOK' /\ MembersInv'
    BY <1>3 DEF Closed, TypeOK, MembersInv, Subscribed, Calls
  <2>2. RefCountsAgree' /\ SubscribersAreHeard' /\ OwedInv' /\ NoWakeupLost'
    BY <1>3 DEF Closed, RefCountsAgree, SubscribersAreHeard, OwedInv, NoWakeupLost, Subscribed
  <2> QED  BY <2>1, <2>2
<1>4. ASSUME NEW c \in Clients, Wake(c)
      PROVE  IInv'
  <2>1. TypeOK' /\ MembersInv'
    BY <1>4 DEF Wake, TypeOK, MembersInv, Subscribed
  <2>2. RefCountsAgree' /\ SubscribersAreHeard' /\ OwedInv'
    BY <1>4 DEF Wake, RefCountsAgree, SubscribersAreHeard, OwedInv, Subscribed
  <2>3. NoWakeupLost'
    BY <1>4 DEF Wake, TypeOK, NoWakeupLost
  <2> QED  BY <2>1, <2>2, <2>3
<1>5. ASSUME NEW c \in Clients, Receive(c)
      PROVE  IInv'
  <2>1. PICK i \in Interrupted :
            \/ /\ \/ ApplySubscribe(c, i[1]) \/ ApplySubscribeFails(c, i[1])
                  \/ ApplyUnsubscribe(c, i[1])
                  \/ ApplySnapshot(c, i[1])
                  \/ ApplyClose(c, i[1])
               /\ inbox' = i[2]
            \/ ApplyNotify(c, i[1], i[2])
    BY <1>5 DEF Receive
  <2>2. Answered(c)
    BY <1>5 DEF Receive, Answered
  <2> QED  BY <2>1, <2>2, ApplySubscribeKeeps, ApplyUnsubscribeKeeps, QuietCallsKeep,
              ApplyNotifyKeeps
<1>6. CASE Notification
  <2>1. TypeOK' /\ MembersInv'
    BY <1>6, DeliveryKeeps DEF Notification, TypeOK, MembersInv, Subscribed
  <2>2. RefCountsAgree' /\ SubscribersAreHeard' /\ OwedInv'
    BY <1>6 DEF Notification, RefCountsAgree, SubscribersAreHeard, OwedInv, Subscribed
  <2>3. NoWakeupLost'
    BY <1>6, DeliveryKeeps DEF Notification, TypeOK, OwedInv, NoWakeupLost, Pending
  <2> QED  BY <2>1, <2>2, <2>3
<1>7. CASE Exit
  <2>1. TypeOK'
    <3>1. inbox' \in Seq(Channels)
      BY <1>7 DEF Exit
    <3>2. listening' \subseteq Channels
      BY <1>7 DEF Exit
    <3> QED  BY <1>7, <3>1, <3>2 DEF Exit, TypeOK
  <2>2. MembersInv' /\ RefCountsAgree' /\ OwedInv'
    BY <1>7 DEF Exit, MembersInv, RefCountsAgree, OwedInv, Subscribed
  <2>3. SubscribersAreHeard' /\ NoWakeupLost'
    BY <1>7 DEF Exit, SubscribersAreHeard, NoWakeupLost
  <2> QED  BY <2>1, <2>2, <2>3
<1>8. ASSUME NEW ch \in Channels, Publish(ch)
      PROVE  IInv'
  <2>1. inbox \in Seq(Channels) /\ Sent(ch, inbox) \in Seq(Channels)
    BY SentKeeps DEF TypeOK
  <2>2. TypeOK' /\ MembersInv'
    BY <1>8, <2>1 DEF Publish, TypeOK, MembersInv, Subscribed
  <2>3. RefCountsAgree' /\ SubscribersAreHeard' /\ OwedInv'
    BY <1>8 DEF Publish, MembersInv, RefCountsAgree, SubscribersAreHeard, OwedInv, Subscribed
  <2>4. NoWakeupLost'
    <3> SUFFICES ASSUME connUp, NEW d \in owed \cup subscribers[ch]
                 PROVE  Pending(d, token, Sent(ch, inbox))
      BY <1>8 DEF Publish, NoWakeupLost, Pending
    <3>1. \A e \in owed : Pending(e, token, inbox)
      BY DEF NoWakeupLost, Pending
    <3> QED  BY <2>1, <3>1, SentIsPending
  <2> QED  BY <2>2, <2>3, <2>4
<1>9. CASE ConnectionDies
  <2>1. inbox' \in Seq(Channels)
    BY <1>9 DEF ConnectionDies, TypeOK
  <2>2. TypeOK' /\ MembersInv'
    BY <1>9, <2>1 DEF ConnectionDies, TypeOK, MembersInv, Subscribed
  <2>3. RefCountsAgree' /\ SubscribersAreHeard' /\ OwedInv' /\ NoWakeupLost'
    BY <1>9 DEF ConnectionDies, RefCountsAgree, SubscribersAreHeard, OwedInv, NoWakeupLost, Subscribed
  <2> QED  BY <2>2, <2>3
<1>10. CASE UNCHANGED vars
  BY <1>10 DEF vars, TypeOK, MembersInv, RefCountsAgree, SubscribersAreHeard, OwedInv,
               NoWakeupLost, Subscribed
<1> QED  BY <1>1, <1>2, <1>3, <1>4, <1>5, <1>6, <1>7, <1>8, <1>9, <1>10 DEF Next

\* The invariant holds in every behaviour of the notifier.
LEMMA Invariance == Spec => []IInv
<1>1. Init => IInv
  BY InitIInv
<1>2. IInv /\ [Next]_vars => IInv'
  BY NextIInv
<1> QED  BY <1>1, <1>2, PTL DEF Spec

-------------------------------------------------------------------------------
(* What a step does to one client's subscription *)

\* A step of another client's call, or of no client's.
StepOfOthers(c) ==
    \/ \E d \in Clients \ {c} :
          \/ \E ch \in Channels : Subscribe(d, ch) \/ Notify(d, ch)
          \/ Unsubscribe(d) \/ Snapshot(d) \/ Wake(d) \/ Receive(d)
    \/ Notification \/ ConnectionDies
    \/ \E ch \in Channels : Publish(ch)
    \/ UNCHANGED vars

\* It keeps the subscription, and what is owed to it (apply, deliverNotification).
LEMMA OthersKeepClient ==
    ASSUME IInv, NEW c \in Clients, StepOfOthers(c)
    PROVE  /\ call'[c] = call[c] /\ on'[c] = on[c]
           /\ Subscribed(c)' <=> Subscribed(c)
           /\ c \in owed => c \in owed'
<1>1. ASSUME NEW d \in Clients, d # c, NEW kind, NEW ch, Execute(d, kind, ch)
      PROVE  /\ call'[c] = call[c] /\ on'[c] = on[c] /\ subscribers' = subscribers
             /\ owed' = owed
  BY <1>1 DEF Execute, IInv, TypeOK
<1>2. ASSUME NEW d \in Clients, d # c, Receive(d)
      PROVE  /\ call'[c] = call[c] /\ on'[c] = on[c]
             /\ Subscribed(c)' <=> Subscribed(c)
             /\ c \in owed => c \in owed'
  <2>1. call'[c] = call[c] /\ UNCHANGED on
    BY <1>2 DEF Receive, IInv, TypeOK
  <2>2. PICK i : \/ ApplySubscribe(d, i[1]) \/ ApplySubscribeFails(d, i[1])
                 \/ ApplyUnsubscribe(d, i[1]) \/ ApplySnapshot(d, i[1])
                 \/ ApplyClose(d, i[1]) \/ ApplyNotify(d, i[1], i[2])
    BY <1>2 DEF Receive
  <2>3. CASE ApplySubscribe(d, i[1])
    BY <1>2, <2>1, <2>3 DEF ApplySubscribe, Subscribed, IInv, TypeOK
  <2>4. CASE ApplyUnsubscribe(d, i[1])
    BY <1>2, <2>1, <2>4 DEF ApplyUnsubscribe, Subscribed, IInv, TypeOK
  <2>5. CASE ApplyNotify(d, i[1], i[2])
    BY <2>1, <2>5 DEF ApplyNotify, Subscribed
  <2>6. CASE ApplySubscribeFails(d, i[1]) \/ ApplySnapshot(d, i[1]) \/ ApplyClose(d, i[1])
    BY <2>1, <2>6 DEF ApplySubscribeFails, ApplySnapshot, ApplyClose, Subscribed
  <2> QED  BY <2>2, <2>3, <2>4, <2>5, <2>6
<1>3. ASSUME NEW d \in Clients, d # c, Wake(d)
      PROVE  UNCHANGED <<call, on, subscribers>> /\ (c \in owed => c \in owed')
  BY <1>3 DEF Wake
<1>4. ASSUME Notification \/ ConnectionDies \/ (\E ch \in Channels : Publish(ch)) \/ UNCHANGED vars
      PROVE  UNCHANGED <<call, on, subscribers>> /\ owed \subseteq owed'
  BY <1>4 DEF Notification, ConnectionDies, Publish, vars
<1> QED  BY <1>1, <1>2, <1>3, <1>4 DEF StepOfOthers, Subscribe, Notify, Unsubscribe, Snapshot,
                                       Subscribed

\* Sending a call does not change who is subscribed (execute).
LEMMA CallKeepsClient ==
    ASSUME IInv, NEW c \in Clients, NEW kind \in Calls, NEW ch \in Channels, Execute(c, kind, ch),
           ~Subscribed(c) \/ ch = on[c]
    PROVE  /\ call'[c] = kind /\ on'[c] = ch /\ owed' = owed
           /\ Subscribed(c)' <=> Subscribed(c)
<1>1. call'[c] = kind /\ on'[c] = ch /\ UNCHANGED <<subscribers, owed>> /\ on[c] \in Channels
  BY DEF Execute, IInv, TypeOK
<1>2. c \in subscribers[ch] => on[c] = ch
  BY DEF IInv, MembersInv
<1> QED  BY <1>1, <1>2 DEF Subscribed

\* The loop's answer to a call of the client.
LEMMA AnswerToClient ==
    ASSUME IInv, NEW c \in Clients, Receive(c), call[c] # "close"
    PROVE  /\ call'[c] = "none" /\ on'[c] = on[c]
           /\ call[c] = "unsubscribe" => ~Subscribed(c)'
           /\ call[c] \in {"notify", "snapshot"} => (Subscribed(c)' <=> Subscribed(c))
<1>1. call'[c] = "none" /\ UNCHANGED on /\ on[c] \in Channels
  BY DEF Receive, IInv, TypeOK
<1>2. PICK i : \/ ApplySubscribe(c, i[1]) \/ ApplySubscribeFails(c, i[1])
               \/ ApplyUnsubscribe(c, i[1]) \/ ApplySnapshot(c, i[1])
               \/ ApplyClose(c, i[1]) \/ ApplyNotify(c, i[1], i[2])
  BY DEF Receive
<1>3. CASE ApplyUnsubscribe(c, i[1])
  BY <1>1, <1>3 DEF ApplyUnsubscribe, Subscribed, IInv, TypeOK
<1>4. CASE ApplyNotify(c, i[1], i[2]) \/ ApplySnapshot(c, i[1])
  BY <1>1, <1>4 DEF ApplyNotify, ApplySnapshot, Subscribed
<1> QED  BY <1>1, <1>2, <1>3, <1>4 DEF ApplySubscribe, ApplySubscribeFails, ApplyClose

-------------------------------------------------------------------------------
(* Theorems *)

\* Every variable has its type: above all, a subscription's channel never holds
\* more than its capacity of 1, and no reference count is negative.
THEOREM TypeCorrect == Spec => []TypeOK
<1>1. IInv => TypeOK
  BY DEF IInv
<1> QED  BY <1>1, Invariance, PTL

\* However requests subscribe, fail to, and leave, the reference count of a
\* channel is the number of its subscriptions (Subscribe, unsubscribe).
THEOREM CountsAreSubscriptions == Spec => []RefCountsAgree
<1>1. IInv => RefCountsAgree
  BY DEF IInv
<1> QED  BY <1>1, Invariance, PTL

\* The session listens to every channel that has a subscriber, for as long as
\* the connection lives (LISTEN and UNLISTEN in Subscribe and unsubscribe).
THEOREM EverySubscriberIsHeard == Spec => []SubscribersAreHeard
<1>1. IInv => SubscribersAreHeard
  BY DEF IInv
<1> QED  BY <1>1, Invariance, PTL

\* No notification is lost between PostgreSQL and a subscriber, for any number
\* of subscribers and channels (loop, deliverNotification).
THEOREM NotificationsAreNotLost == Spec => []NoWakeupLost
<1>1. IInv => NoWakeupLost
  BY DEF IInv
<1> QED  BY <1>1, Invariance, PTL
===============================================================================
