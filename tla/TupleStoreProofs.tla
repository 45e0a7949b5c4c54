-------------------------- MODULE TupleStoreProofs --------------------------
(***************************************************************************)
(* Proofs about TupleStore for any number of sessions, rows, templates,    *)
(* and any candidate limit: its invariants, and that it implements         *)
(* TupleSpace.                                                             *)
(***************************************************************************)
EXTENDS TupleStore, FiniteSetTheorems, WellFoundedInduction, TLAPS

Open == {"inserted", "locking", "matching", "deleting", "commit", "broken", "broken_commit"}

\* The kind of operation that is at each label.
OpInv ==
    \A s \in Sessions :
        /\ pc[s] = "inserted" => op[s].kind = "out"
        /\ pc[s] \in {"locking", "matching"} => op[s].kind = "in"
        /\ pc[s] = "deleting" => op[s].kind = "delete"
        /\ pc[s] \in {"commit", "broken_commit", "committed"} =>
               op[s].kind \in {"out", "in", "delete"}

\* The sequence is ahead of every row that was inserted.
SequenceInv ==
    /\ nextId > 0
    /\ \A i \in Ids : status[i] = "free" <=> i >= nextId
    /\ \A i \in Ids : status[i] # "free" => tuple[i] \in Tuples

\* A lock belongs to an open transaction, an uncommitted row to the one that
\* inserted it.
LockInv ==
    /\ \A i \in Ids : lock[i] # NoOne => pc[lock[i]] \in Open
    /\ \A i \in Ids : status[i] = "inserted" => lock[i] # NoOne /\ i \in target[lock[i]]

\* What an open transaction inserted or deletes is locked by it and uncommitted.
TargetInv ==
    \A s \in Sessions :
        /\ pc[s] \in {"called", "locking", "matching"} => target[s] = {}
        /\ pc[s] \in Open => \A i \in target[s] :
               lock[i] = s /\ status[i] = (IF op[s].kind = "out" THEN "inserted" ELSE "live")
        /\ pc[s] \in {"committed", "idle"} => \A i \in target[s] :
               status[i] \in (IF op[s].kind = "out" THEN {"live", "gone"} ELSE {"gone"})

\* The candidates of a consume transaction are locked by it and live; a DELETE
\* visits only rows its filter selects.
HeldInv ==
    \A s \in Sessions :
        /\ pc[s] \in {"locking", "matching"} =>
               \A i \in held[s] : lock[i] = s /\ status[i] = "live"
        /\ pc[s] \in {"called", "inserted", "deleting", "commit"} => held[s] = {}
        /\ pc[s] = "deleting" => visit[s] \subseteq op[s].arg

\* What a transaction did is what its request asked for.
AskedInv ==
    \A s \in Sessions : \A i \in target[s] :
        /\ op[s].kind = "out" => tuple[i] = op[s].arg
        /\ op[s].kind = "in" => tuple[i] \in Matches[op[s].arg]
        /\ op[s].kind = "delete" => i \in op[s].arg

\* Out and In change one row.
OutInv ==
    \A s \in Sessions :
        /\ op[s].kind = "out" /\ pc[s] = "inserted" => \E i \in Ids : target[s] = {i}
        /\ op[s].kind \in {"out", "in"} /\ pc[s] \in {"commit", "broken_commit", "committed"} =>
               \E i \in Ids : target[s] = {i}

\* A request is answered once, by the step that ends it; an answer "found"
\* names committed tuples that match.
ReplyInv ==
    \A s \in Sessions :
        /\ pc[s] = "idle" /\ op[s].kind # "none" => reply[s] # NoReply
        /\ pc[s] \in {"called", "inserted", "locking", "matching", "deleting", "commit", "committed"}
               => op[s].kind # "none" /\ reply[s] = NoReply
        /\ pc[s] = "broken" => reply[s].res \in {"error", "not_found"}
        /\ pc[s] = "broken_commit" => reply[s].res = "error"
        /\ reply[s].res = "found" => op[s].kind \in {"rd", "in"} /\ \A i \in reply[s].ids :
               status[i] \in {"live", "gone"} /\ tuple[i] \in Matches[op[s].arg]

\* An Out that commits has queued the notification of its space.
NotesInv ==
    \A s \in Sessions :
        pc[s] \in {"commit", "broken_commit"} /\ op[s].kind = "out" =>
            notes[s] = {SpaceOf[op[s].arg]}

DisjointInv ==
    \A s, q \in Sessions : s # q => Removed(s) \cap Removed(q) = {}

IInv == TypeOK /\ OpInv /\ SequenceInv /\ LockInv /\ TargetInv /\ HeldInv
        /\ AskedInv /\ OutInv /\ ReplyInv /\ NotesInv /\ DisjointInv

-------------------------------------------------------------------------------
(* Facts about the operators *)

\* Every set of rows that is not empty has a first one.
LEMMA LeastRow == ASSUME NEW rows \in SUBSET Ids, rows # {} PROVE \E i \in rows : \A j \in rows : i <= j
<1>. DEFINE R == {ss \in Nat \X Nat : ss[1] < ss[2]}
<1>1. IsWellFoundedOn(R, Nat)
  BY NatLessThanWellFounded DEF OpToRel
<1>2. rows \subseteq Nat
  BY DEF Ids
<1>3. \E i \in rows : \A j \in rows : <<j, i>> \notin R
  <2>. HIDE DEF R
  <2>. QED BY <1>1, <1>2, WFMin
<1>4. \A i, j \in Nat : <<j, i>> \notin R => i <= j
  OBVIOUS
<1>. HIDE DEF R
<1>. QED BY <1>2, <1>3, <1>4

LEMMA FirstInRows == ASSUME NEW rows \in SUBSET Ids, rows # {} PROVE First(rows) \in rows
BY LeastRow DEF First

\* The argument of an operation is of its kind.
LEMMA Argument ==
    ASSUME TypeOK, NEW s \in Sessions
    PROVE  /\ op[s].kind = "out" => op[s].arg \in Tuples
           /\ op[s].kind \in {"rd", "in"} => op[s].arg \in Templates
           /\ op[s].kind = "delete" => op[s].arg \subseteq Ids
<1>1. op[s] \in Operations
  BY DEF TypeOK
<1>. QED BY <1>1 DEF Operations

\* What readOnce returns.
LEMMA ReadReplies ==
    ASSUME IInv, NEW s \in Sessions, Read(s)
    PROVE  \/ reply' = [reply EXCEPT ![s] = [res |-> "not_found", ids |-> {}]]
           \/ \E i \in Ids : /\ status[i] = "live" /\ tuple[i] \in Matches[op[s].arg]
                             /\ reply' = [reply EXCEPT ![s] = [res |-> "found", ids |-> {i}]]
<1>. DEFINE found == MatchingRows(op[s].arg, Window(CandidateRows(op[s].arg)))
<1>1. found \in SUBSET Visible /\ found \in SUBSET Ids
  BY DEF MatchingRows, Window, CandidateRows, Visible
<1>2. CASE found = {}
  BY <1>2 DEF Read, Return
<1>3. CASE found # {}
  <2>1. First(found) \in found
    BY <1>1, <1>3, FirstInRows
  <2>2. reply' = [reply EXCEPT ![s] = [res |-> "found", ids |-> {First(found)}]]
    BY <1>3 DEF Read, Return
  <2>. QED BY <1>1, <2>1, <2>2 DEF MatchingRows, Visible
<1>. QED BY <1>2, <1>3

-------------------------------------------------------------------------------
(* Every step preserves the invariant: one lemma per action. *)

\* A request's arrival (the handlers call Out, Rd, In, DeleteTuple, Purge) preserves the
\* invariant: only a session with no transaction takes one.
LEMMA CallStep == ASSUME IInv, NEW s \in Sessions, NEW request \in Requests, Call(s, request) PROVE IInv'
<1>1. request \in Operations
  BY FilterAssumption DEF Requests, Operations
<1>2. TypeOK'
  <2>1. NoReply \in Replies
    BY DEF NoReply, Replies
  <2>. QED BY <1>1, <2>1 DEF IInv, TypeOK, Call, Goto, ForgetScan, rowVars, PCs
<1>3. OpInv'
  BY DEF IInv, TypeOK, OpInv, Call, Goto, ForgetScan, rowVars, scanVars
<1>4. SequenceInv'
  BY DEF IInv, TypeOK, SequenceInv, Call, Goto, ForgetScan, rowVars, scanVars
<1>5. LockInv'
  BY DEF IInv, TypeOK, LockInv, TargetInv, Open, Call, Goto, ForgetScan, rowVars, scanVars
<1>6. TargetInv'
  BY DEF IInv, TypeOK, OpInv, LockInv, TargetInv, HeldInv, Open, Call, Goto, ForgetScan, rowVars,
       scanVars
<1>7. HeldInv'
  BY DEF IInv, TypeOK, OpInv, LockInv, TargetInv, HeldInv, Open, Call, Goto, ForgetScan, rowVars,
       scanVars
<1>8. AskedInv'
  BY DEF IInv, TypeOK, OpInv, SequenceInv, TargetInv, AskedInv, Call, Goto, ForgetScan, rowVars,
       scanVars
<1>9. ReplyInv'
  BY DEF IInv, TypeOK, OpInv, SequenceInv, TargetInv, AskedInv, ReplyInv, Call, Goto, ForgetScan,
       rowVars, scanVars, NoReply, Requests
<1>10. OutInv'
  BY DEF IInv, TypeOK, OpInv, OutInv, Call, Goto, ForgetScan, rowVars, scanVars
<1>11. NotesInv'
  BY DEF IInv, TypeOK, OpInv, NotesInv, Call, Goto, ForgetScan, rowVars, scanVars
<1>12. DisjointInv'
  BY DEF IInv, TypeOK, OpInv, TargetInv, DisjointInv, Removed, Open, Call, Goto, ForgetScan,
       rowVars, scanVars
<1>. QED BY <1>2, <1>3, <1>4, <1>5, <1>6, <1>7, <1>8, <1>9, <1>10, <1>11, <1>12 DEF IInv

\* Out's InsertTuple (tuple_store.go:25-75): the new row is locked by its transaction.
LEMMA InsertStep == ASSUME IInv, NEW s \in Sessions, Insert(s) PROVE IInv'
<1>1. nextId \in Ids /\ op[s].arg \in Tuples
  BY BoundAssumption, Argument DEF IInv, TypeOK, SequenceInv, Insert, Ids
<1>2. status[nextId] = "free"
  BY <1>1 DEF IInv, SequenceInv, Ids
<1>3. \A q \in Sessions : /\ nextId \notin target[q]
                          /\ pc[q] \in {"locking", "matching"} => nextId \notin held[q]
  BY <1>2 DEF IInv, TypeOK, TargetInv, HeldInv, Open, PCs
<1>4. TypeOK'
  BY <1>1 DEF IInv, TypeOK, Insert, Goto, rowVars, scanVars, Statuses, PCs
<1>5. OpInv'
  BY <1>1 DEF IInv, TypeOK, OpInv, Insert, Goto, rowVars, scanVars
<1>6. SequenceInv'
  BY <1>1 DEF IInv, TypeOK, SequenceInv, Insert, Goto, rowVars, scanVars, Ids
<1>7. LockInv'
  BY <1>1, NoOneAssumption DEF IInv, TypeOK, LockInv, TargetInv, Open, Insert, Goto, rowVars,
       scanVars
<1>8. TargetInv'
  <2>1. /\ pc'[s] = "inserted" /\ op' = op /\ op[s].kind = "out"
        /\ target'[s] = {nextId} /\ lock'[nextId] = s /\ status'[nextId] = "inserted"
    BY <1>1 DEF IInv, TypeOK, Insert, Goto
  <2>2. \A q \in Sessions \ {s} : pc'[q] = pc[q] /\ target'[q] = target[q]
    BY DEF IInv, TypeOK, Insert, Goto
  <2>3. \A i \in Ids \ {nextId} : lock'[i] = lock[i] /\ status'[i] = status[i]
    BY DEF IInv, TypeOK, Insert
  <2>4. \A q \in Sessions \ {s} : \A i \in target[q] : lock'[i] = lock[i] /\ status'[i] = status[i]
    BY <1>3, <2>3 DEF IInv, TypeOK
  <2>. QED BY <2>1, <2>2, <2>4 DEF IInv, TargetInv, Open
<1>9. HeldInv'
  BY <1>1, <1>2, <1>3 DEF IInv, TypeOK, OpInv, LockInv, TargetInv, HeldInv, Open, Insert, Goto,
       rowVars, scanVars
<1>10. AskedInv'
  <2>1. op' = op /\ op[s].kind = "out" /\ target'[s] = {nextId} /\ tuple'[nextId] = op[s].arg
    BY <1>1 DEF IInv, TypeOK, Insert
  <2>2. \A q \in Sessions \ {s} : target'[q] = target[q]
    BY DEF IInv, TypeOK, Insert
  <2>3. \A q \in Sessions \ {s} : \A i \in target'[q] : i # nextId
    BY <1>3, <2>2
  <2>4. \A i \in Ids \ {nextId} : tuple'[i] = tuple[i]
    BY DEF IInv, TypeOK, Insert
  <2>5. \A q \in Sessions \ {s} : \A i \in target'[q] : tuple'[i] = tuple[i]
    BY <2>2, <2>3, <2>4 DEF IInv, TypeOK
  <2>6. \A q \in Sessions \ {s} : \A i \in target'[q] :
            /\ op'[q].kind = "out" => tuple'[i] = op'[q].arg
            /\ op'[q].kind = "in" => tuple'[i] \in Matches[op'[q].arg]
            /\ op'[q].kind = "delete" => i \in op'[q].arg
    BY <2>1, <2>2, <2>5 DEF IInv, AskedInv
  <2>. QED BY <2>1, <2>6 DEF AskedInv
<1>11. ReplyInv'
  BY <1>1, <1>2, <1>3 DEF IInv, TypeOK, OpInv, SequenceInv, TargetInv, AskedInv, ReplyInv, Insert,
       Goto, rowVars, scanVars, NoReply
<1>12. OutInv'
  BY <1>1 DEF IInv, TypeOK, OpInv, OutInv, Insert, Goto, rowVars, scanVars
<1>13. NotesInv'
  BY <1>1 DEF IInv, TypeOK, OpInv, NotesInv, Insert, Goto, rowVars, scanVars
<1>14. DisjointInv'
  BY <1>1 DEF IInv, TypeOK, OpInv, TargetInv, DisjointInv, Removed, Open, Insert, Goto, rowVars,
       scanVars
<1>. QED BY <1>4, <1>5, <1>6, <1>7, <1>8, <1>9, <1>10, <1>11, <1>12, <1>13, <1>14 DEF IInv

\* Out's pg_notify (notifier.go:136-145): the space of the tuple is announced.
LEMMA NotifyStep == ASSUME IInv, NEW s \in Sessions, Notify(s) PROVE IInv'
<1>1. TypeOK'
  BY Argument, SpaceAssumption DEF IInv, TypeOK, Notify, Goto, Channel, rowVars, scanVars, PCs,
       OpInv
<1>2. OpInv'
  BY DEF IInv, TypeOK, OpInv, Notify, Goto, Channel, rowVars, scanVars
<1>3. SequenceInv'
  BY DEF IInv, TypeOK, SequenceInv, Notify, Goto, Channel, rowVars, scanVars
<1>4. LockInv'
  BY DEF IInv, TypeOK, LockInv, TargetInv, Open, Notify, Goto, Channel, rowVars, scanVars
<1>5. TargetInv'
  BY DEF IInv, TypeOK, OpInv, LockInv, TargetInv, HeldInv, Open, Notify, Goto, Channel, rowVars,
       scanVars
<1>6. HeldInv'
  BY DEF IInv, TypeOK, OpInv, LockInv, TargetInv, HeldInv, Open, Notify, Goto, Channel, rowVars,
       scanVars
<1>7. AskedInv'
  BY DEF IInv, TypeOK, OpInv, SequenceInv, TargetInv, AskedInv, Notify, Goto, Channel, rowVars,
       scanVars
<1>8. ReplyInv'
  BY DEF IInv, TypeOK, OpInv, SequenceInv, TargetInv, AskedInv, ReplyInv, Notify, Goto, Channel,
       rowVars, scanVars, NoReply
<1>9. OutInv'
  BY DEF IInv, TypeOK, OpInv, OutInv, Notify, Goto, Channel, rowVars, scanVars
<1>10. NotesInv'
  BY DEF IInv, TypeOK, OpInv, NotesInv, Notify, Goto, Channel, rowVars, scanVars
<1>11. DisjointInv'
  BY DEF IInv, TypeOK, OpInv, TargetInv, DisjointInv, Removed, Open, Notify, Goto, Channel, rowVars,
       scanVars
<1>. QED BY <1>1, <1>2, <1>3, <1>4, <1>5, <1>6, <1>7, <1>8, <1>9, <1>10, <1>11 DEF IInv

\* readOnce (service.go:239-251) answers with a committed tuple that matches.
LEMMA ReadStep == ASSUME IInv, NEW s \in Sessions, Read(s) PROVE IInv'
<1>1. \/ reply' = [reply EXCEPT ![s] = [res |-> "not_found", ids |-> {}]]
      \/ \E i \in Ids : /\ status[i] = "live" /\ tuple[i] \in Matches[op[s].arg]
                        /\ reply' = [reply EXCEPT ![s] = [res |-> "found", ids |-> {i}]]
  BY ReadReplies
<1>2. TypeOK'
  <2>1. ASSUME NEW i \in Ids PROVE [res |-> "found", ids |-> {i}] \in Replies
    BY DEF Replies
  <2>2. [res |-> "not_found", ids |-> {}] \in Replies
    BY DEF Replies
  <2>3. reply' \in [Sessions -> Replies]
    BY <1>1, <2>1, <2>2 DEF IInv, TypeOK
  <2>. QED BY <2>3 DEF IInv, TypeOK, Read, Goto, rowVars, scanVars, PCs
<1>3. OpInv'
  BY DEF IInv, TypeOK, OpInv, Read, Goto, Return, rowVars, scanVars
<1>4. SequenceInv'
  BY DEF IInv, TypeOK, SequenceInv, Read, Goto, Return, rowVars, scanVars
<1>5. LockInv'
  BY DEF IInv, TypeOK, LockInv, TargetInv, Open, Read, Goto, Return, rowVars, scanVars
<1>6. TargetInv'
  BY DEF IInv, TypeOK, OpInv, LockInv, TargetInv, HeldInv, Open, Read, Goto, Return, rowVars,
       scanVars
<1>7. HeldInv'
  BY DEF IInv, TypeOK, OpInv, LockInv, TargetInv, HeldInv, Open, Read, Goto, Return, rowVars,
       scanVars
<1>8. AskedInv'
  BY DEF IInv, TypeOK, OpInv, SequenceInv, TargetInv, AskedInv, Read, Goto, Return, rowVars,
       scanVars
<1>9. ReplyInv'
  <2>1. \A q \in Sessions \ {s} : pc'[q] = pc[q] /\ reply'[q] = reply[q]
    BY <1>1 DEF IInv, TypeOK, Read, Goto
  <2>2. pc'[s] = "idle" /\ op[s].kind = "rd"
    BY DEF IInv, TypeOK, Read, Goto
  <2>3. /\ reply'[s] # NoReply
        /\ reply'[s].res = "found" => \A i \in reply'[s].ids :
               status[i] = "live" /\ tuple[i] \in Matches[op[s].arg]
    BY <1>1 DEF IInv, TypeOK, NoReply
  <2>4. UNCHANGED <<op, status, tuple>>
    BY DEF Read, rowVars
  <2>. QED BY <2>1, <2>2, <2>3, <2>4 DEF IInv, ReplyInv
<1>10. OutInv'
  BY DEF IInv, TypeOK, OpInv, OutInv, Read, Goto, Return, rowVars, scanVars
<1>11. NotesInv'
  BY DEF IInv, TypeOK, OpInv, NotesInv, Read, Goto, Return, rowVars, scanVars
<1>12. DisjointInv'
  BY DEF IInv, TypeOK, OpInv, TargetInv, DisjointInv, Removed, Open, Read, Goto, Return, rowVars,
       scanVars
<1>. QED BY <1>2, <1>3, <1>4, <1>5, <1>6, <1>7, <1>8, <1>9, <1>10, <1>11, <1>12 DEF IInv

\* consumeOnce's SELECT ... FOR UPDATE (candidate_query.go:10-78) starts with no row locked.
LEMMA SelectForUpdateStep == ASSUME IInv, NEW s \in Sessions, SelectForUpdate(s) PROVE IInv'
<1>1. TypeOK'
  BY DEF IInv, TypeOK, SelectForUpdate, Goto, rowVars, scanVars, PCs, CandidateRows, Visible
<1>2. OpInv'
  BY DEF IInv, TypeOK, OpInv, SelectForUpdate, Goto, rowVars, scanVars
<1>3. SequenceInv'
  BY DEF IInv, TypeOK, SequenceInv, SelectForUpdate, Goto, rowVars, scanVars
<1>4. LockInv'
  BY DEF IInv, TypeOK, LockInv, TargetInv, Open, SelectForUpdate, Goto, rowVars, scanVars
<1>5. TargetInv'
  BY DEF IInv, TypeOK, OpInv, LockInv, TargetInv, HeldInv, Open, SelectForUpdate, Goto, rowVars,
       scanVars
<1>6. HeldInv'
  BY DEF IInv, TypeOK, OpInv, LockInv, TargetInv, HeldInv, Open, SelectForUpdate, Goto, rowVars,
       scanVars
<1>7. AskedInv'
  BY DEF IInv, TypeOK, OpInv, SequenceInv, TargetInv, AskedInv, SelectForUpdate, Goto, rowVars,
       scanVars
<1>8. ReplyInv'
  BY DEF IInv, TypeOK, OpInv, SequenceInv, TargetInv, AskedInv, ReplyInv, SelectForUpdate, Goto,
       rowVars, scanVars, NoReply
<1>9. OutInv'
  BY DEF IInv, TypeOK, OpInv, OutInv, SelectForUpdate, Goto, rowVars, scanVars
<1>10. NotesInv'
  BY DEF IInv, TypeOK, OpInv, NotesInv, SelectForUpdate, Goto, rowVars, scanVars
<1>11. DisjointInv'
  BY DEF IInv, TypeOK, OpInv, TargetInv, DisjointInv, Removed, Open, SelectForUpdate, Goto, rowVars,
       scanVars
<1>. QED BY <1>1, <1>2, <1>3, <1>4, <1>5, <1>6, <1>7, <1>8, <1>9, <1>10, <1>11 DEF IInv

\* A candidate that consumeOnce's SELECT locks was nobody else's.
LEMMA LockRowStep == ASSUME IInv, NEW s \in Sessions, LockRow(s) PROVE IInv'
<1>1. First(visit[s]) \in visit[s] /\ First(visit[s]) \in Ids
  BY FirstInRows DEF IInv, TypeOK, LockRow, MoreRows
<1>2. TypeOK'
  BY <1>1 DEF IInv, TypeOK, LockRow, MoreRows, Lockable, Lock, rowVars, scanVars
<1>3. OpInv'
  BY <1>1 DEF IInv, TypeOK, OpInv, LockRow, MoreRows, Lockable, Lock, rowVars, scanVars
<1>4. SequenceInv'
  BY <1>1 DEF IInv, TypeOK, SequenceInv, LockRow, MoreRows, Lockable, Lock, rowVars, scanVars
<1>5. LockInv'
  BY <1>1, NoOneAssumption DEF IInv, TypeOK, LockInv, TargetInv, Open, LockRow, MoreRows, Lockable,
       Lock, rowVars, scanVars
<1>6. TargetInv'
  BY <1>1, NoOneAssumption DEF IInv, TypeOK, OpInv, LockInv, TargetInv, HeldInv, Open, LockRow,
       MoreRows, Lockable, Lock, rowVars, scanVars
<1>7. HeldInv'
  BY <1>1, NoOneAssumption DEF IInv, TypeOK, OpInv, LockInv, TargetInv, HeldInv, Open, LockRow,
       MoreRows, Lockable, Lock, rowVars, scanVars
<1>8. AskedInv'
  BY <1>1 DEF IInv, TypeOK, OpInv, SequenceInv, TargetInv, AskedInv, LockRow, MoreRows, Lockable,
       Lock, rowVars, scanVars
<1>9. ReplyInv'
  BY <1>1 DEF IInv, TypeOK, OpInv, SequenceInv, TargetInv, AskedInv, ReplyInv, LockRow, MoreRows,
       Lockable, Lock, rowVars, scanVars, NoReply
<1>10. OutInv'
  BY <1>1 DEF IInv, TypeOK, OpInv, OutInv, LockRow, MoreRows, Lockable, Lock, rowVars, scanVars
<1>11. NotesInv'
  BY <1>1 DEF IInv, TypeOK, OpInv, NotesInv, LockRow, MoreRows, Lockable, Lock, rowVars, scanVars
<1>12. DisjointInv'
  BY <1>1 DEF IInv, TypeOK, OpInv, TargetInv, DisjointInv, Removed, Open, LockRow, MoreRows,
       Lockable, Lock, rowVars, scanVars
<1>. QED BY <1>2, <1>3, <1>4, <1>5, <1>6, <1>7, <1>8, <1>9, <1>10, <1>11, <1>12 DEF IInv

\* SKIP LOCKED passes over a row without touching it.
LEMMA SkipRowStep == ASSUME IInv, NEW s \in Sessions, SkipRow(s) PROVE IInv'
<1>1. First(visit[s]) \in visit[s] /\ First(visit[s]) \in Ids
  BY FirstInRows DEF IInv, TypeOK, SkipRow, MoreRows
<1>2. TypeOK'
  BY <1>1 DEF IInv, TypeOK, SkipRow, MoreRows, Skippable, rowVars, scanVars
<1>3. OpInv'
  BY <1>1 DEF IInv, TypeOK, OpInv, SkipRow, MoreRows, Skippable, rowVars, scanVars
<1>4. SequenceInv'
  BY <1>1 DEF IInv, TypeOK, SequenceInv, SkipRow, MoreRows, Skippable, rowVars, scanVars
<1>5. LockInv'
  BY <1>1 DEF IInv, TypeOK, LockInv, TargetInv, Open, SkipRow, MoreRows, Skippable, rowVars,
       scanVars
<1>6. TargetInv'
  BY <1>1 DEF IInv, TypeOK, OpInv, LockInv, TargetInv, HeldInv, Open, SkipRow, MoreRows, Skippable,
       rowVars, scanVars
<1>7. HeldInv'
  BY <1>1 DEF IInv, TypeOK, OpInv, LockInv, TargetInv, HeldInv, Open, SkipRow, MoreRows, Skippable,
       rowVars, scanVars
<1>8. AskedInv'
  BY <1>1 DEF IInv, TypeOK, OpInv, SequenceInv, TargetInv, AskedInv, SkipRow, MoreRows, Skippable,
       rowVars, scanVars
<1>9. ReplyInv'
  BY <1>1 DEF IInv, TypeOK, OpInv, SequenceInv, TargetInv, AskedInv, ReplyInv, SkipRow, MoreRows,
       Skippable, rowVars, scanVars, NoReply
<1>10. OutInv'
  BY <1>1 DEF IInv, TypeOK, OpInv, OutInv, SkipRow, MoreRows, Skippable, rowVars, scanVars
<1>11. NotesInv'
  BY <1>1 DEF IInv, TypeOK, OpInv, NotesInv, SkipRow, MoreRows, Skippable, rowVars, scanVars
<1>12. DisjointInv'
  BY <1>1 DEF IInv, TypeOK, OpInv, TargetInv, DisjointInv, Removed, Open, SkipRow, MoreRows,
       Skippable, rowVars, scanVars
<1>. QED BY <1>2, <1>3, <1>4, <1>5, <1>6, <1>7, <1>8, <1>9, <1>10, <1>11, <1>12 DEF IInv

\* The SELECT of consumeOnce ends with the rows it holds locked.
LEMMA EndSelectStep == ASSUME IInv, NEW s \in Sessions, EndSelect(s) PROVE IInv'
<1>1. TypeOK'
  BY DEF IInv, TypeOK, EndSelect, Goto, MoreRows, rowVars, scanVars, PCs
<1>2. OpInv'
  BY DEF IInv, TypeOK, OpInv, EndSelect, Goto, MoreRows, rowVars, scanVars
<1>3. SequenceInv'
  BY DEF IInv, TypeOK, SequenceInv, EndSelect, Goto, MoreRows, rowVars, scanVars
<1>4. LockInv'
  BY DEF IInv, TypeOK, LockInv, TargetInv, Open, EndSelect, Goto, MoreRows, rowVars, scanVars
<1>5. TargetInv'
  BY DEF IInv, TypeOK, OpInv, LockInv, TargetInv, HeldInv, Open, EndSelect, Goto, MoreRows, rowVars,
       scanVars
<1>6. HeldInv'
  BY DEF IInv, TypeOK, OpInv, LockInv, TargetInv, HeldInv, Open, EndSelect, Goto, MoreRows, rowVars,
       scanVars
<1>7. AskedInv'
  BY DEF IInv, TypeOK, OpInv, SequenceInv, TargetInv, AskedInv, EndSelect, Goto, MoreRows, rowVars,
       scanVars
<1>8. ReplyInv'
  BY DEF IInv, TypeOK, OpInv, SequenceInv, TargetInv, AskedInv, ReplyInv, EndSelect, Goto, MoreRows,
       rowVars, scanVars, NoReply
<1>9. OutInv'
  BY DEF IInv, TypeOK, OpInv, OutInv, EndSelect, Goto, MoreRows, rowVars, scanVars
<1>10. NotesInv'
  BY DEF IInv, TypeOK, OpInv, NotesInv, EndSelect, Goto, MoreRows, rowVars, scanVars
<1>11. DisjointInv'
  BY DEF IInv, TypeOK, OpInv, TargetInv, DisjointInv, Removed, Open, EndSelect, Goto, MoreRows,
       rowVars, scanVars
<1>. QED BY <1>1, <1>2, <1>3, <1>4, <1>5, <1>6, <1>7, <1>8, <1>9, <1>10, <1>11 DEF IInv

\* consumeOnce's DELETE of the first match (service.go:264-271): a row it has locked.
LEMMA TakeStep == ASSUME IInv, NEW s \in Sessions, Take(s) PROVE IInv'
<1>1. PICK i \in Ids : /\ i \in held[s] /\ tuple[i] \in Matches[op[s].arg]
                     /\ i = First(MatchingRows(op[s].arg, held[s]))
  <2>. DEFINE found == MatchingRows(op[s].arg, held[s])
  <2>1. found \in SUBSET Ids /\ found # {}
    BY DEF IInv, TypeOK, Take, MatchingRows
  <2>2. First(found) \in found
    BY <2>1, FirstInRows
  <2>. QED BY <2>1, <2>2 DEF MatchingRows
<1>2. TypeOK'
  BY <1>1 DEF IInv, TypeOK, Take, Goto, ForgetScan, MatchingRows, rowVars, scanVars, PCs
<1>3. OpInv'
  BY <1>1 DEF IInv, TypeOK, OpInv, Take, Goto, ForgetScan, MatchingRows, rowVars, scanVars
<1>4. SequenceInv'
  BY <1>1 DEF IInv, TypeOK, SequenceInv, Take, Goto, ForgetScan, MatchingRows, rowVars, scanVars
<1>5. LockInv'
  BY <1>1 DEF IInv, TypeOK, LockInv, TargetInv, Open, Take, Goto, ForgetScan, MatchingRows, rowVars,
       scanVars
<1>6. TargetInv'
  <2>1. /\ target' = [target EXCEPT ![s] = {i}] /\ pc' = [pc EXCEPT ![s] = "commit"]
        /\ UNCHANGED <<op, lock, status>>
    BY <1>1 DEF Take, Goto, rowVars
  <2>2. lock[i] = s /\ status[i] = "live" /\ op[s].kind = "in"
    BY <1>1 DEF IInv, OpInv, HeldInv, Take
  <2>. QED BY <2>1, <2>2 DEF IInv, TypeOK, TargetInv, Open
<1>7. HeldInv'
  BY <1>1 DEF IInv, TypeOK, OpInv, LockInv, TargetInv, HeldInv, Open, Take, Goto, ForgetScan,
       MatchingRows, rowVars, scanVars
<1>8. AskedInv'
  BY <1>1 DEF IInv, TypeOK, OpInv, SequenceInv, TargetInv, AskedInv, Take, Goto, ForgetScan,
       MatchingRows, rowVars, scanVars
<1>9. ReplyInv'
  BY <1>1 DEF IInv, TypeOK, OpInv, SequenceInv, TargetInv, AskedInv, ReplyInv, Take, Goto,
       ForgetScan, MatchingRows, rowVars, scanVars, NoReply
<1>10. OutInv'
  BY <1>1 DEF IInv, TypeOK, OpInv, OutInv, Take, Goto, ForgetScan, MatchingRows, rowVars, scanVars
<1>11. NotesInv'
  BY <1>1 DEF IInv, TypeOK, OpInv, NotesInv, Take, Goto, ForgetScan, MatchingRows, rowVars, scanVars
<1>12. DisjointInv'
  BY <1>1 DEF IInv, TypeOK, OpInv, TargetInv, DisjointInv, Removed, Open, Take, Goto, ForgetScan,
       MatchingRows, rowVars, scanVars
<1>. QED BY <1>2, <1>3, <1>4, <1>5, <1>6, <1>7, <1>8, <1>9, <1>10, <1>11, <1>12 DEF IInv

\* consumeOnce without a match (service.go:276): its Rollback gives up every lock,
\* or closes the connection.
LEMMA NoMatchStep == ASSUME IInv, NEW s \in Sessions, NoMatch(s) PROVE IInv'
<1>1. TypeOK'
  BY DEF IInv, TypeOK, NoMatch, Goto, Unlock, Return, rowVars, scanVars, PCs, Replies
<1>2. OpInv'
  BY DEF IInv, TypeOK, OpInv, NoMatch, Goto, Unlock, Return, rowVars, scanVars
<1>3. SequenceInv'
  BY DEF IInv, TypeOK, SequenceInv, NoMatch, Goto, Unlock, Return, rowVars, scanVars
<1>4. LockInv'
  BY NoOneAssumption DEF IInv, TypeOK, LockInv, TargetInv, Open, NoMatch, Goto, Unlock, Return,
       rowVars, scanVars
<1>5. TargetInv'
  BY NoOneAssumption DEF IInv, TypeOK, OpInv, LockInv, TargetInv, HeldInv, Open, NoMatch, Goto,
       Unlock, Return, rowVars, scanVars
<1>6. HeldInv'
  BY NoOneAssumption DEF IInv, TypeOK, OpInv, LockInv, TargetInv, HeldInv, Open, NoMatch, Goto,
       Unlock, Return, rowVars, scanVars
<1>7. AskedInv'
  BY DEF IInv, TypeOK, OpInv, SequenceInv, TargetInv, AskedInv, NoMatch, Goto, Unlock, Return,
       rowVars, scanVars
<1>8. ReplyInv'
  <2>1. reply'[s].res = "not_found" /\ pc'[s] \in {"idle", "broken"}
    BY DEF IInv, TypeOK, NoMatch, Goto, Return
  <2>2. \A q \in Sessions \ {s} : reply'[q] = reply[q] /\ pc'[q] = pc[q]
    BY DEF IInv, TypeOK, NoMatch, Goto, Return
  <2>3. UNCHANGED <<op, status, tuple>>
    BY DEF NoMatch
  <2>. QED BY <2>1, <2>2, <2>3 DEF IInv, ReplyInv, NoReply
<1>9. OutInv'
  BY DEF IInv, TypeOK, OpInv, OutInv, NoMatch, Goto, Unlock, Return, rowVars, scanVars
<1>10. NotesInv'
  BY DEF IInv, TypeOK, OpInv, NotesInv, NoMatch, Goto, Unlock, Return, rowVars, scanVars
<1>11. DisjointInv'
  BY DEF IInv, TypeOK, OpInv, TargetInv, DisjointInv, Removed, Open, NoMatch, Goto, Unlock, Return,
       rowVars, scanVars
<1>. QED BY <1>1, <1>2, <1>3, <1>4, <1>5, <1>6, <1>7, <1>8, <1>9, <1>10, <1>11 DEF IInv

\* The DELETE of DeleteTuple and Purge (admin_store.go:104-119) starts.
LEMMA DeleteStep == ASSUME IInv, NEW s \in Sessions, Delete(s) PROVE IInv'
<1>1. TypeOK'
  BY DEF IInv, TypeOK, Delete, Goto, rowVars, scanVars, PCs, Visible
<1>2. OpInv'
  BY DEF IInv, TypeOK, OpInv, Delete, Goto, rowVars, scanVars
<1>3. SequenceInv'
  BY DEF IInv, TypeOK, SequenceInv, Delete, Goto, rowVars, scanVars
<1>4. LockInv'
  BY DEF IInv, TypeOK, LockInv, TargetInv, Open, Delete, Goto, rowVars, scanVars
<1>5. TargetInv'
  BY DEF IInv, TypeOK, OpInv, LockInv, TargetInv, HeldInv, Open, Delete, Goto, rowVars, scanVars
<1>6. HeldInv'
  BY DEF IInv, TypeOK, OpInv, LockInv, TargetInv, HeldInv, Open, Delete, Goto, rowVars, scanVars,
       Visible
<1>7. AskedInv'
  BY DEF IInv, TypeOK, OpInv, SequenceInv, TargetInv, AskedInv, Delete, Goto, rowVars, scanVars
<1>8. ReplyInv'
  BY DEF IInv, TypeOK, OpInv, SequenceInv, TargetInv, AskedInv, ReplyInv, Delete, Goto, rowVars,
       scanVars, NoReply
<1>9. OutInv'
  BY DEF IInv, TypeOK, OpInv, OutInv, Delete, Goto, rowVars, scanVars
<1>10. NotesInv'
  BY DEF IInv, TypeOK, OpInv, NotesInv, Delete, Goto, rowVars, scanVars
<1>11. DisjointInv'
  BY DEF IInv, TypeOK, OpInv, TargetInv, DisjointInv, Removed, Open, Delete, Goto, rowVars, scanVars
<1>. QED BY <1>1, <1>2, <1>3, <1>4, <1>5, <1>6, <1>7, <1>8, <1>9, <1>10, <1>11 DEF IInv

\* A row the DELETE takes was unlocked and live, or is left out.
LEMMA DeleteRowStep == ASSUME IInv, NEW s \in Sessions, NEW i \in Ids, DeleteRow(s, i) PROVE IInv'
<1>1. TypeOK'
  BY DEF IInv, TypeOK, DeleteRow, Lock, rowVars, scanVars
<1>2. OpInv'
  BY DEF IInv, TypeOK, OpInv, DeleteRow, Lock, rowVars, scanVars
<1>3. SequenceInv'
  BY DEF IInv, TypeOK, SequenceInv, DeleteRow, Lock, rowVars, scanVars
<1>4. LockInv'
  BY NoOneAssumption DEF IInv, TypeOK, LockInv, TargetInv, Open, DeleteRow, Lock, rowVars, scanVars
<1>5. TargetInv'
  BY NoOneAssumption DEF IInv, TypeOK, OpInv, LockInv, TargetInv, HeldInv, Open, DeleteRow, Lock,
       rowVars, scanVars
<1>6. HeldInv'
  BY NoOneAssumption DEF IInv, TypeOK, OpInv, LockInv, TargetInv, HeldInv, Open, DeleteRow, Lock,
       rowVars, scanVars
<1>7. AskedInv'
  BY DEF IInv, TypeOK, OpInv, SequenceInv, TargetInv, AskedInv, DeleteRow, Lock, rowVars, scanVars,
       HeldInv
<1>8. ReplyInv'
  BY DEF IInv, TypeOK, OpInv, SequenceInv, TargetInv, AskedInv, ReplyInv, DeleteRow, Lock, rowVars,
       scanVars, NoReply
<1>9. OutInv'
  BY DEF IInv, TypeOK, OpInv, OutInv, DeleteRow, Lock, rowVars, scanVars
<1>10. NotesInv'
  BY DEF IInv, TypeOK, OpInv, NotesInv, DeleteRow, Lock, rowVars, scanVars
<1>11. DisjointInv'
  BY DEF IInv, TypeOK, OpInv, TargetInv, DisjointInv, Removed, Open, DeleteRow, Lock, rowVars,
       scanVars
<1>. QED BY <1>1, <1>2, <1>3, <1>4, <1>5, <1>6, <1>7, <1>8, <1>9, <1>10, <1>11 DEF IInv

\* The DELETE of DeleteTuple and Purge ends.
LEMMA EndDeleteStep == ASSUME IInv, NEW s \in Sessions, EndDelete(s) PROVE IInv'
<1>1. TypeOK'
  BY DEF IInv, TypeOK, EndDelete, Goto, ForgetScan, rowVars, scanVars, PCs
<1>2. OpInv'
  BY DEF IInv, TypeOK, OpInv, EndDelete, Goto, ForgetScan, rowVars, scanVars
<1>3. SequenceInv'
  BY DEF IInv, TypeOK, SequenceInv, EndDelete, Goto, ForgetScan, rowVars, scanVars
<1>4. LockInv'
  BY DEF IInv, TypeOK, LockInv, TargetInv, Open, EndDelete, Goto, ForgetScan, rowVars, scanVars
<1>5. TargetInv'
  BY DEF IInv, TypeOK, OpInv, LockInv, TargetInv, HeldInv, Open, EndDelete, Goto, ForgetScan,
       rowVars, scanVars
<1>6. HeldInv'
  BY DEF IInv, TypeOK, OpInv, LockInv, TargetInv, HeldInv, Open, EndDelete, Goto, ForgetScan,
       rowVars, scanVars
<1>7. AskedInv'
  BY DEF IInv, TypeOK, OpInv, SequenceInv, TargetInv, AskedInv, EndDelete, Goto, ForgetScan,
       rowVars, scanVars
<1>8. ReplyInv'
  BY DEF IInv, TypeOK, OpInv, SequenceInv, TargetInv, AskedInv, ReplyInv, EndDelete, Goto,
       ForgetScan, rowVars, scanVars, NoReply
<1>9. OutInv'
  BY DEF IInv, TypeOK, OpInv, OutInv, EndDelete, Goto, ForgetScan, rowVars, scanVars
<1>10. NotesInv'
  BY DEF IInv, TypeOK, OpInv, NotesInv, EndDelete, Goto, ForgetScan, rowVars, scanVars
<1>11. DisjointInv'
  BY DEF IInv, TypeOK, OpInv, TargetInv, DisjointInv, Removed, Open, EndDelete, Goto, ForgetScan,
       rowVars, scanVars
<1>. QED BY <1>1, <1>2, <1>3, <1>4, <1>5, <1>6, <1>7, <1>8, <1>9, <1>10, <1>11 DEF IInv

\* COMMIT (service.go:104, 272): what the transaction locked becomes visible, or gone, at once.
LEMMA CommitStep == ASSUME IInv, NEW s \in Sessions, Commit(s) PROVE IInv'
<1>1. TypeOK'
  BY DEF IInv, TypeOK, Commit, Goto, Apply, Unlock, rowVars, scanVars, PCs, Statuses
<1>2. OpInv'
  BY DEF IInv, TypeOK, OpInv, Commit, Goto, Apply, Unlock, rowVars, scanVars
<1>3. SequenceInv'
  BY DEF IInv, TypeOK, SequenceInv, Commit, Goto, Apply, Unlock, rowVars, scanVars, TargetInv, Open
<1>4. LockInv'
  BY NoOneAssumption DEF IInv, TypeOK, LockInv, TargetInv, Open, Commit, Goto, Apply, Unlock,
       rowVars, scanVars
<1>5. TargetInv'
  BY NoOneAssumption DEF IInv, TypeOK, OpInv, LockInv, TargetInv, HeldInv, Open, Commit, Goto,
       Apply, Unlock, rowVars, scanVars
<1>6. HeldInv'
  BY NoOneAssumption DEF IInv, TypeOK, OpInv, LockInv, TargetInv, HeldInv, Open, Commit, Goto,
       Apply, Unlock, rowVars, scanVars
<1>7. AskedInv'
  BY DEF IInv, TypeOK, OpInv, SequenceInv, TargetInv, AskedInv, Commit, Goto, Apply, Unlock,
       rowVars, scanVars
<1>8. ReplyInv'
  BY DEF IInv, TypeOK, OpInv, SequenceInv, TargetInv, AskedInv, ReplyInv, Commit, Goto, Apply,
       Unlock, rowVars, scanVars, NoReply, Open, Replies
<1>9. OutInv'
  BY DEF IInv, TypeOK, OpInv, OutInv, Commit, Goto, Apply, Unlock, rowVars, scanVars
<1>10. NotesInv'
  BY DEF IInv, TypeOK, OpInv, NotesInv, Commit, Goto, Apply, Unlock, rowVars, scanVars
<1>11. DisjointInv'
  BY DEF IInv, TypeOK, OpInv, TargetInv, DisjointInv, Removed, Open, Commit, Goto, Apply, Unlock,
       rowVars, scanVars
<1>. QED BY <1>1, <1>2, <1>3, <1>4, <1>5, <1>6, <1>7, <1>8, <1>9, <1>10, <1>11 DEF IInv

\* The request is answered with what its transaction did.
LEMMA AnswerStep == ASSUME IInv, NEW s \in Sessions, Answer(s) PROVE IInv'
<1>1. TypeOK'
  BY DEF IInv, TypeOK, Answer, Goto, Return, rowVars, scanVars, PCs, Replies
<1>2. OpInv'
  BY DEF IInv, TypeOK, OpInv, Answer, Goto, Return, rowVars, scanVars
<1>3. SequenceInv'
  BY DEF IInv, TypeOK, SequenceInv, Answer, Goto, Return, rowVars, scanVars
<1>4. LockInv'
  BY DEF IInv, TypeOK, LockInv, TargetInv, Open, Answer, Goto, Return, rowVars, scanVars
<1>5. TargetInv'
  BY DEF IInv, TypeOK, OpInv, LockInv, TargetInv, HeldInv, Open, Answer, Goto, Return, rowVars,
       scanVars
<1>6. HeldInv'
  BY DEF IInv, TypeOK, OpInv, LockInv, TargetInv, HeldInv, Open, Answer, Goto, Return, rowVars,
       scanVars
<1>7. AskedInv'
  BY DEF IInv, TypeOK, OpInv, SequenceInv, TargetInv, AskedInv, Answer, Goto, Return, rowVars,
       scanVars
<1>8. ReplyInv'
  BY DEF IInv, TypeOK, OpInv, SequenceInv, TargetInv, AskedInv, ReplyInv, Answer, Goto, Return,
       rowVars, scanVars, NoReply
<1>9. OutInv'
  BY DEF IInv, TypeOK, OpInv, OutInv, Answer, Goto, Return, rowVars, scanVars
<1>10. NotesInv'
  BY DEF IInv, TypeOK, OpInv, NotesInv, Answer, Goto, Return, rowVars, scanVars
<1>11. DisjointInv'
  BY DEF IInv, TypeOK, OpInv, TargetInv, DisjointInv, Removed, Open, Answer, Goto, Return, rowVars,
       scanVars
<1>. QED BY <1>1, <1>2, <1>3, <1>4, <1>5, <1>6, <1>7, <1>8, <1>9, <1>10, <1>11 DEF IInv

\* A failure, or the end of the request's context, at any point (the error returns of Out,
\* consumeOnce and the admin operations).
LEMMA GiveUpStep == ASSUME IInv, NEW s \in Sessions, GiveUp(s) PROVE IInv'
<1>1. TypeOK'
  BY DEF IInv, TypeOK, GiveUp, Goto, ForgetScan, Return, rowVars, scanVars, PCs, Replies
<1>2. OpInv'
  BY DEF IInv, TypeOK, OpInv, GiveUp, Goto, ForgetScan, Return, rowVars, scanVars
<1>3. SequenceInv'
  BY DEF IInv, TypeOK, SequenceInv, GiveUp, Goto, ForgetScan, Return, rowVars, scanVars
<1>4. LockInv'
  BY DEF IInv, TypeOK, LockInv, TargetInv, Open, GiveUp, Goto, ForgetScan, Return, rowVars, scanVars
<1>5. TargetInv'
  <2>1. pc'[s] \in {"broken", "broken_commit", "idle"} /\ (pc'[s] = "idle" => pc[s] = "committed")
    BY DEF IInv, TypeOK, GiveUp, Goto
  <2>2. pc[s] \in Open \cup {"called", "committed"}
    BY DEF IInv, TypeOK, GiveUp, Open, PCs
  <2>. QED BY <2>1, <2>2 DEF IInv, TypeOK, TargetInv, Open, GiveUp, Goto, rowVars
<1>6. HeldInv'
  BY DEF IInv, TypeOK, OpInv, LockInv, TargetInv, HeldInv, Open, GiveUp, Goto, ForgetScan, Return,
       rowVars, scanVars
<1>7. AskedInv'
  BY DEF IInv, TypeOK, OpInv, SequenceInv, TargetInv, AskedInv, GiveUp, Goto, ForgetScan, Return,
       rowVars, scanVars
<1>8. ReplyInv'
  BY DEF IInv, TypeOK, OpInv, SequenceInv, TargetInv, AskedInv, ReplyInv, GiveUp, Goto, ForgetScan,
       Return, rowVars, scanVars, NoReply
<1>9. OutInv'
  BY DEF IInv, TypeOK, OpInv, OutInv, GiveUp, Goto, ForgetScan, Return, rowVars, scanVars
<1>10. NotesInv'
  BY DEF IInv, TypeOK, OpInv, NotesInv, GiveUp, Goto, ForgetScan, Return, rowVars, scanVars
<1>11. DisjointInv'
  BY DEF IInv, TypeOK, OpInv, TargetInv, DisjointInv, Removed, Open, GiveUp, Goto, ForgetScan,
       Return, rowVars, scanVars
<1>. QED BY <1>1, <1>2, <1>3, <1>4, <1>5, <1>6, <1>7, <1>8, <1>9, <1>10, <1>11 DEF IInv

\* PostgreSQL drops the transaction of a closed connection (the deferred Rollback, service.go:92, 258).
LEMMA ReapStep == ASSUME IInv, NEW s \in Sessions, Reap(s) PROVE IInv'
<1>1. TypeOK'
  BY DEF IInv, TypeOK, Reap, Goto, Unlock, rowVars, scanVars, PCs, Statuses
<1>2. OpInv'
  BY DEF IInv, TypeOK, OpInv, Reap, Goto, Unlock, rowVars, scanVars
<1>3. SequenceInv'
  BY DEF IInv, TypeOK, SequenceInv, Reap, Goto, Unlock, rowVars, scanVars, TargetInv, Open
<1>4. LockInv'
  BY NoOneAssumption DEF IInv, TypeOK, LockInv, TargetInv, Open, Reap, Goto, Unlock, rowVars,
       scanVars
<1>5. TargetInv'
  <2>1. pc'[s] = "idle" /\ target'[s] = {} /\ op' = op
    BY DEF IInv, TypeOK, Reap, Goto
  <2>2. \A q \in Sessions \ {s} : pc'[q] = pc[q] /\ target'[q] = target[q]
    BY DEF IInv, TypeOK, Reap, Goto
  <2>3. \A i \in Ids : lock[i] # s => lock'[i] = lock[i]
    BY DEF Reap, Unlock
  <2>4. \A i \in Ids : lock[i] # s \/ status[i] # "inserted" => status'[i] = status[i]
    BY DEF IInv, TypeOK, TargetInv, Open, Reap
  <2>. QED BY <2>1, <2>2, <2>3, <2>4 DEF IInv, TypeOK, TargetInv, Open
<1>6. HeldInv'
  BY NoOneAssumption DEF IInv, TypeOK, OpInv, LockInv, TargetInv, HeldInv, Open, Reap, Goto, Unlock,
       rowVars, scanVars
<1>7. AskedInv'
  BY DEF IInv, TypeOK, OpInv, SequenceInv, TargetInv, AskedInv, Reap, Goto, Unlock, rowVars,
       scanVars
<1>8. ReplyInv'
  BY DEF IInv, TypeOK, OpInv, SequenceInv, TargetInv, AskedInv, ReplyInv, Reap, Goto, Unlock,
       rowVars, scanVars, NoReply, Open, Replies
<1>9. OutInv'
  BY DEF IInv, TypeOK, OpInv, OutInv, Reap, Goto, Unlock, rowVars, scanVars
<1>10. NotesInv'
  BY DEF IInv, TypeOK, OpInv, NotesInv, Reap, Goto, Unlock, rowVars, scanVars
<1>11. DisjointInv'
  BY DEF IInv, TypeOK, OpInv, TargetInv, DisjointInv, Removed, Open, Reap, Goto, Unlock, rowVars,
       scanVars
<1>. QED BY <1>1, <1>2, <1>3, <1>4, <1>5, <1>6, <1>7, <1>8, <1>9, <1>10, <1>11 DEF IInv

\* PostgreSQL executes a COMMIT whose caller has given up.
LEMMA LateCommitStep == ASSUME IInv, NEW s \in Sessions, LateCommit(s) PROVE IInv'
<1>1. TypeOK'
  BY DEF IInv, TypeOK, LateCommit, Goto, Apply, Unlock, rowVars, scanVars, PCs, Statuses
<1>2. OpInv'
  BY DEF IInv, TypeOK, OpInv, LateCommit, Goto, Apply, Unlock, rowVars, scanVars
<1>3. SequenceInv'
  BY DEF IInv, TypeOK, SequenceInv, LateCommit, Goto, Apply, Unlock, rowVars, scanVars, TargetInv,
       Open
<1>4. LockInv'
  BY NoOneAssumption DEF IInv, TypeOK, LockInv, TargetInv, Open, LateCommit, Goto, Apply, Unlock,
       rowVars, scanVars
<1>5. TargetInv'
  BY NoOneAssumption DEF IInv, TypeOK, OpInv, LockInv, TargetInv, HeldInv, Open, LateCommit, Goto,
       Apply, Unlock, rowVars, scanVars
<1>6. HeldInv'
  BY NoOneAssumption DEF IInv, TypeOK, OpInv, LockInv, TargetInv, HeldInv, Open, LateCommit, Goto,
       Apply, Unlock, rowVars, scanVars
<1>7. AskedInv'
  BY DEF IInv, TypeOK, OpInv, SequenceInv, TargetInv, AskedInv, LateCommit, Goto, Apply, Unlock,
       rowVars, scanVars
<1>8. ReplyInv'
  BY DEF IInv, TypeOK, OpInv, SequenceInv, TargetInv, AskedInv, ReplyInv, LateCommit, Goto, Apply,
       Unlock, rowVars, scanVars, NoReply, Open, Replies
<1>9. OutInv'
  BY DEF IInv, TypeOK, OpInv, OutInv, LateCommit, Goto, Apply, Unlock, rowVars, scanVars
<1>10. NotesInv'
  BY DEF IInv, TypeOK, OpInv, NotesInv, LateCommit, Goto, Apply, Unlock, rowVars, scanVars
<1>11. DisjointInv'
  BY DEF IInv, TypeOK, OpInv, TargetInv, DisjointInv, Removed, Open, LateCommit, Goto, Apply,
       Unlock, rowVars, scanVars
<1>. QED BY <1>1, <1>2, <1>3, <1>4, <1>5, <1>6, <1>7, <1>8, <1>9, <1>10, <1>11 DEF IInv

-------------------------------------------------------------------------------
(* The invariant and what follows from it *)

\* The invariant holds of the empty store (migrations/001_init_tuplespace.sql).
LEMMA InitInv == Init => IInv
<1>. SUFFICES ASSUME Init PROVE IInv
  OBVIOUS
<1>1. TypeOK
  BY DEF Init, TypeOK, Statuses, PCs, Operations, NoOperation, Replies, NoReply
<1>2. OpInv /\ LockInv /\ TargetInv /\ HeldInv /\ AskedInv /\ OutInv
  BY DEF Init, OpInv, LockInv, TargetInv, HeldInv, AskedInv, OutInv, NoOperation, Open
<1>3. SequenceInv
  BY BoundAssumption DEF Init, SequenceInv, Ids
<1>4. ReplyInv /\ NotesInv /\ DisjointInv
  BY DEF Init, ReplyInv, NotesInv, DisjointInv, Removed, NoOperation, NoReply
<1>. QED BY <1>1, <1>2, <1>3, <1>4 DEF IInv

\* Every step of every request preserves the invariant.
LEMMA NextInv == IInv /\ [Next]_vars => IInv'
<1>1. ASSUME IInv, UNCHANGED vars PROVE IInv'
  BY <1>1 DEF vars, rowVars, scanVars, IInv, TypeOK, OpInv, SequenceInv, LockInv, TargetInv,
       HeldInv, AskedInv, OutInv, ReplyInv, NotesInv, DisjointInv, Removed
<1>2. ASSUME IInv, NEW s \in Sessions, NEW request \in Requests, Call(s, request) PROVE IInv'
  BY <1>2, CallStep
<1>3. ASSUME IInv, NEW s \in Sessions, GiveUp(s) PROVE IInv'
  BY <1>3, GiveUpStep
<1>4. ASSUME IInv, NEW s \in Sessions, Step(s) PROVE IInv'
  <2>1. CASE Insert(s) \/ Notify(s) \/ Read(s)
    BY <1>4, <2>1, InsertStep, NotifyStep, ReadStep
  <2>2. CASE SelectForUpdate(s) \/ LockRow(s) \/ SkipRow(s) \/ EndSelect(s) \/ Take(s) \/ NoMatch(s)
    BY <1>4, <2>2, SelectForUpdateStep, LockRowStep, SkipRowStep, EndSelectStep, TakeStep, NoMatchStep
  <2>3. CASE Delete(s) \/ (\E i \in Ids : DeleteRow(s, i)) \/ EndDelete(s) \/ Victim(s)
    BY <1>4, <2>3, DeleteStep, DeleteRowStep, EndDeleteStep, GiveUpStep DEF Victim
  <2>4. CASE Commit(s) \/ Answer(s) \/ Reap(s) \/ LateCommit(s)
    BY <1>4, <2>4, CommitStep, AnswerStep, ReapStep, LateCommitStep
  <2>. QED BY <1>4, <2>1, <2>2, <2>3, <2>4 DEF Step
<1>. QED BY <1>1, <1>2, <1>3, <1>4 DEF Next

\* The inductive invariant holds of every run of the operations of service.go and admin.go.
THEOREM Invariant == Spec => []IInv
BY InitInv, NextInv, PTL DEF Spec

\* Types: every variable keeps its range, so no row is locked or deleted by a nobody.
THEOREM TypeCorrect == Spec => []TypeOK
<1>1. IInv => TypeOK
  BY DEF IInv
<1>. QED BY <1>1, Invariant, PTL

\* A row that consumeOnce holds (FOR UPDATE, candidate_query.go:71-73), or a DELETE has
\* reached, stays live and locked until its transaction ends, whatever the others do.
THEOREM RowsHeldStay == Spec => []HeldRowsStay
<1>1. IInv => HeldRowsStay
  BY DEF IInv, HeldRowsStay, HeldInv, TargetInv, OpInv, Open
<1>. QED BY <1>1, Invariant, PTL

\* README.md:21, ``consumes a matching tuple exactly once'': no two requests (In, DeleteTuple,
\* Purge) remove the same tuple, whatever the interleaving, failures and late commits included.
THEOREM EachTupleTakenOnce == Spec => []TakenOnce
<1>1. IInv => TakenOnce
  BY DEF IInv, TakenOnce, DisjointInv, TargetInv, Removed
<1>. QED BY <1>1, Invariant, PTL

\* Every path of Out, consumeOnce, DeleteTuple and Purge ends its transaction: no session
\* without one holds a lock.
THEOREM NoLockIsLeaked == Spec => []NoLockLeak
<1>1. IInv => NoLockLeak
  BY DEF IInv, NoLockLeak, LockInv, Open
<1>. QED BY <1>1, Invariant, PTL

\* readOnce and consumeOnce answer only with tuples that were committed and match.
THEOREM WhatIsFoundIsReal == Spec => []FoundIsReal
<1>1. IInv => FoundIsReal
  BY DEF IInv, FoundIsReal, ReplyInv
<1>. QED BY <1>1, Invariant, PTL

\* Only a commit makes a row visible or removes it.
LEMMA StatusSteps ==
    ASSUME IInv, [Next]_vars, NEW i \in Ids, status'[i] # status[i],
           status[i] = "live" \/ status'[i] = "live"
    PROVE  \E s \in Sessions : Commit(s) \/ LateCommit(s)
<1>1. CASE UNCHANGED vars
  BY <1>1 DEF vars, rowVars
<1>2. ASSUME NEW s \in Sessions, \E request \in Requests : Call(s, request) PROVE FALSE
  BY <1>2 DEF Call, rowVars
<1>3. ASSUME NEW s \in Sessions, GiveUp(s) PROVE FALSE
  BY <1>3 DEF GiveUp, rowVars
<1>4. ASSUME NEW s \in Sessions, Step(s) PROVE Commit(s) \/ LateCommit(s)
  <2>1. ~(Notify(s) \/ Read(s))
    BY DEF Notify, Read, rowVars
  <2>2. ~(SelectForUpdate(s) \/ LockRow(s) \/ SkipRow(s) \/ EndSelect(s) \/ Take(s) \/ NoMatch(s))
    BY DEF SelectForUpdate, LockRow, SkipRow, EndSelect, Take, NoMatch, rowVars
  <2>3. ~(Delete(s) \/ (\E j \in Ids : DeleteRow(s, j)) \/ EndDelete(s) \/ Victim(s) \/ Answer(s))
    BY DEF Delete, DeleteRow, EndDelete, Victim, GiveUp, Answer, rowVars
  <2>4. ~Insert(s)
    BY DEF IInv, TypeOK, SequenceInv, Insert
  <2>5. ~Reap(s)
    BY DEF IInv, TypeOK, Reap
  <2>. QED BY <1>4, <2>1, <2>2, <2>3, <2>4, <2>5 DEF Step
<1>. QED BY <1>1, <1>2, <1>3, <1>4 DEF Next

\* Out (service.go:96-104): a tuple becomes visible only with its space's notification queued
\* in the same transaction.
THEOREM AnnouncedBeforeVisible == Spec => AnnouncedWhenVisible
<1>1. ASSUME IInv, [Next]_vars, NEW i \in Ids, status[i] # "live", status'[i] = "live"
      PROVE  lock[i] # NoOne /\ SpaceOf[tuple[i]] \in notes[lock[i]]
  <2>1. PICK s \in Sessions : Commit(s) \/ LateCommit(s)
    BY <1>1, StatusSteps
  <2>2. i \in target[s] /\ status[i] = "inserted" /\ pc[s] \in {"commit", "broken_commit"}
    BY <1>1, <2>1 DEF IInv, TypeOK, Commit, LateCommit, Apply
  <2>3. lock[i] = s /\ op[s].kind = "out"
    BY <1>1, <2>2 DEF IInv, TargetInv, Open
  <2>. QED BY <1>1, <2>2, <2>3, NoOneAssumption DEF IInv, AskedInv, NotesInv
<1>2. IInv /\ [Next]_vars =>
          [\A i \in Ids : status[i] # "live" /\ status'[i] = "live" =>
              lock[i] # NoOne /\ SpaceOf[tuple[i]] \in notes[lock[i]]]_vars
  BY <1>1
<1>. QED BY <1>2, Invariant, PTL DEF AnnouncedWhenVisible, Spec

\* A tuple disappears only by the commit of the transaction that locked it.
THEOREM RemovedByItsLocker == Spec => RemovedByLocker
<1>1. ASSUME IInv, [Next]_vars, NEW i \in Ids, status[i] = "live", status'[i] # "live"
      PROVE  lock[i] # NoOne /\ i \in target[lock[i]] /\ status'[i] = "gone"
  <2>1. PICK s \in Sessions : Commit(s) \/ LateCommit(s)
    BY <1>1, StatusSteps
  <2>2. i \in target[s] /\ status'[i] = "gone" /\ pc[s] \in {"commit", "broken_commit"}
    BY <1>1, <2>1 DEF IInv, TypeOK, Commit, LateCommit, Apply
  <2>3. lock[i] = s
    BY <1>1, <2>2 DEF IInv, TargetInv, Open
  <2>. QED BY <2>2, <2>3, NoOneAssumption
<1>2. IInv /\ [Next]_vars =>
          [\A i \in Ids : status[i] = "live" /\ status'[i] # "live" =>
              lock[i] # NoOne /\ i \in target[lock[i]] /\ status'[i] = "gone"]_vars
  BY <1>1
<1>. QED BY <1>2, Invariant, PTL DEF RemovedByLocker, Spec

-------------------------------------------------------------------------------
(* What a scan has come past *)

\* A scan that runs, or that found nothing.
Scans(s) ==
    \/ pc[s] \in {"locking", "matching"}
    \/ op[s].kind = "in" /\ reply[s].res = "not_found"

\* Of the rows that its SELECT saw, those that it neither holds nor passed over are gone,
\* or it has not come to them; it stops at the end, or when it holds CandidateLimit rows.
Explained(s) ==
    /\ \A i \in snap[s] : status[i] \in {"live", "gone"} /\ tuple[i] \in Candidates[op[s].arg]
    /\ held[s] \subseteq snap[s] /\ visit[s] \subseteq snap[s]
    /\ held[s] \cap visit[s] = {}
    /\ \A i \in snap[s] : i \in visit[s] \cup held[s] \cup skipped[s] \/ status[i] = "gone"
    /\ Cardinality(held[s]) <= CandidateLimit
    /\ pc[s] # "locking" /\ visit[s] # {} => Cardinality(held[s]) = CandidateLimit
    /\ reply[s].res = "not_found" => MatchingRows(op[s].arg, held[s]) = {}

ScanInv == \A s \in Sessions : Scans(s) => Explained(s)

\* A committed row stays what it is until it is gone, and is gone for good.
LEMMA CommittedRowsStay ==
    ASSUME IInv, [Next]_vars, NEW i \in Ids, status[i] \in {"live", "gone"}
    PROVE  /\ status'[i] \in {"live", "gone"} /\ tuple'[i] = tuple[i]
           /\ status[i] = "gone" => status'[i] = "gone"
<1>1. CASE UNCHANGED vars
  BY <1>1 DEF vars, rowVars
<1>2. ASSUME NEW s \in Sessions, (\E request \in Requests : Call(s, request)) \/ GiveUp(s)
      PROVE  UNCHANGED rowVars
  BY <1>2 DEF Call, GiveUp
<1>3. ASSUME NEW s \in Sessions, Step(s)
      PROVE  \/ UNCHANGED <<status, tuple>> \/ Insert(s) \/ Reap(s)
             \/ (Apply(s) /\ tuple' = tuple /\ pc[s] \in {"commit", "broken_commit"})
  <2>1. CASE Insert(s) \/ Notify(s) \/ Read(s)
    BY <2>1 DEF Notify, Read, rowVars
  <2>2. CASE SelectForUpdate(s) \/ LockRow(s) \/ SkipRow(s) \/ EndSelect(s) \/ Take(s) \/ NoMatch(s)
    BY <2>2 DEF SelectForUpdate, LockRow, SkipRow, EndSelect, Take, NoMatch, rowVars
  <2>3. CASE Delete(s) \/ (\E j \in Ids : DeleteRow(s, j)) \/ EndDelete(s) \/ Victim(s)
    BY <2>3 DEF Delete, DeleteRow, EndDelete, Victim, GiveUp, rowVars
  <2>4. CASE Commit(s) \/ Answer(s) \/ Reap(s) \/ LateCommit(s)
    BY <2>4 DEF Commit, Answer, LateCommit, rowVars
  <2>. QED BY <1>3, <2>1, <2>2, <2>3, <2>4 DEF Step
<1>4. ASSUME NEW s \in Sessions, Insert(s) PROVE status'[i] = status[i] /\ tuple'[i] = tuple[i]
  BY <1>4 DEF Insert, IInv, TypeOK, SequenceInv
<1>5. ASSUME NEW s \in Sessions, Reap(s) PROVE status'[i] = status[i] /\ tuple'[i] = tuple[i]
  BY <1>5 DEF Reap, IInv, TypeOK
<1>6. ASSUME NEW s \in Sessions, Apply(s), pc[s] \in {"commit", "broken_commit"}
      PROVE  status'[i] \in {"live", "gone"} /\ (status[i] = "gone" => status'[i] = "gone")
  BY <1>6 DEF Apply, IInv, TypeOK
<1>. QED BY <1>1, <1>2, <1>3, <1>4, <1>5, <1>6 DEF Next, rowVars

\* A scan stays explained while others change the rows.
LEMMA ScanKept ==
    ASSUME IInv, ScanInv, [Next]_vars, NEW s \in Sessions, Scans(s),
           snap'[s] = snap[s], visit'[s] = visit[s], held'[s] = held[s], skipped'[s] = skipped[s],
           op'[s] = op[s], reply'[s] = reply[s], pc'[s] = pc[s] \/ pc[s] # "locking"
    PROVE  Explained(s)'
<1>1. \A i \in snap[s] : /\ i \in Ids /\ status[i] \in {"live", "gone"}
                         /\ status'[i] \in {"live", "gone"} /\ tuple'[i] = tuple[i]
                         /\ status[i] = "gone" => status'[i] = "gone"
  BY CommittedRowsStay DEF IInv, TypeOK, ScanInv, Explained
<1>2. reply'[s].res = "not_found" => MatchingRows(op[s].arg, held[s])' = {}
  BY <1>1 DEF ScanInv, Explained, MatchingRows
<1>. QED BY <1>1, <1>2 DEF ScanInv, Explained

\* A step of one session leaves the others where they are.
LEMMA OthersStay ==
    ASSUME IInv, NEW t \in Sessions, NEW s \in Sessions, s # t,
           Step(t) \/ GiveUp(t) \/ \E request \in Requests : Call(t, request)
    PROVE  /\ snap'[s] = snap[s] /\ visit'[s] = visit[s] /\ held'[s] = held[s]
           /\ skipped'[s] = skipped[s] /\ op'[s] = op[s] /\ reply'[s] = reply[s] /\ pc'[s] = pc[s]
<1>. USE DEF IInv, TypeOK, Goto, Return, ForgetScan, scanVars
<1>1. CASE GiveUp(t) \/ \E request \in Requests : Call(t, request)
  BY <1>1 DEF GiveUp, Call
<1>2. CASE Insert(t) \/ Notify(t) \/ Read(t)
  BY <1>2 DEF Insert, Notify, Read
<1>3. CASE SelectForUpdate(t) \/ LockRow(t) \/ SkipRow(t)
  BY <1>3 DEF SelectForUpdate, LockRow, SkipRow
<1>4. CASE EndSelect(t) \/ Take(t) \/ NoMatch(t)
  BY <1>4 DEF EndSelect, Take, NoMatch
<1>5. CASE Delete(t) \/ (\E i \in Ids : DeleteRow(t, i)) \/ EndDelete(t) \/ Victim(t)
  BY <1>5 DEF Delete, DeleteRow, EndDelete, Victim, GiveUp
<1>6. CASE Commit(t) \/ Answer(t) \/ Reap(t) \/ LateCommit(t)
  BY <1>6 DEF Commit, Answer, Reap, LateCommit
<1>. QED BY <1>1, <1>2, <1>3, <1>4, <1>5, <1>6 DEF Step

\* A transaction holds finitely many candidates.
LEMMA HeldIsFinite == ASSUME IInv, NEW s \in Sessions PROVE IsFiniteSet(held[s])
<1>1. IsFiniteSet(1..MaxId)
  BY FS_Interval, BoundAssumption
<1>2. held[s] \in SUBSET (1..MaxId)
  BY DEF IInv, TypeOK, Ids
<1>. QED BY <1>1, <1>2, FS_Subset

\* SELECT ... FOR UPDATE starts: it has come past nothing.
LEMMA SelectExplained == ASSUME IInv, NEW s \in Sessions, SelectForUpdate(s) PROVE Explained(s)'
<1>1. /\ snap'[s] = CandidateRows(op[s].arg) /\ visit'[s] = CandidateRows(op[s].arg)
      /\ held'[s] = {} /\ UNCHANGED <<rowVars, op, reply>> /\ pc'[s] = "locking"
  BY DEF IInv, TypeOK, HeldInv, SelectForUpdate, Goto
<1>2. reply[s].res # "not_found"
  BY DEF IInv, ReplyInv, SelectForUpdate, NoReply
<1>3. Cardinality({}) = 0
  BY FS_EmptySet
<1>4. 0 <= CandidateLimit
  BY LimitAssumption
<1>. QED BY <1>1, <1>2, <1>3, <1>4 DEF Explained, CandidateRows, Visible, rowVars

\* The next row is locked, or passed over.
LEMMA RowExplained ==
    ASSUME IInv, NEW s \in Sessions, Explained(s), LockRow(s) \/ SkipRow(s) PROVE Explained(s)'
<1>. DEFINE i == First(visit[s])
<1>1. i \in visit[s] /\ i \in Ids /\ i \in snap[s] /\ i \notin held[s] /\ pc[s] = "locking"
  <2>1. visit[s] # {} /\ visit[s] \in SUBSET Ids
    BY DEF IInv, TypeOK, LockRow, SkipRow, MoreRows
  <2>2. First(visit[s]) \in visit[s]
    BY <2>1, FirstInRows
  <2>. QED BY <2>1, <2>2 DEF Explained, LockRow, SkipRow, MoreRows
<1>2. reply[s].res # "not_found"
  BY <1>1 DEF IInv, ReplyInv, NoReply
<1>3. CASE LockRow(s)
  <2>. HIDE DEF i
  <2>1. /\ held'[s] = held[s] \cup {i} /\ visit'[s] = visit[s] \ {i} /\ skipped'[s] = skipped[s]
        /\ snap'[s] = snap[s] /\ UNCHANGED <<op, pc, reply, status, tuple>>
    BY <1>3 DEF IInv, TypeOK, LockRow, i
  <2>2. Cardinality(held'[s]) <= CandidateLimit
    <3>1. IsFiniteSet(held[s])
      BY HeldIsFinite
    <3>2. Cardinality(held'[s]) = Cardinality(held[s]) + 1 /\ Cardinality(held[s]) \in Nat
      BY <1>1, <2>1, <3>1, FS_AddElement, FS_CardinalityType
    <3>3. Cardinality(held[s]) < CandidateLimit
      BY <1>3 DEF LockRow, MoreRows
    <3>. QED BY <3>2, <3>3, LimitAssumption
  <2>. QED BY <1>1, <1>2, <2>1, <2>2 DEF Explained, MatchingRows
<1>4. CASE SkipRow(s)
  <2>. HIDE DEF i
  <2>1. /\ held'[s] = held[s] /\ visit'[s] = visit[s] \ {i}
        /\ skipped'[s] = IF lock[i] # NoOne THEN skipped[s] \cup {i} ELSE skipped[s]
        /\ snap'[s] = snap[s] /\ UNCHANGED <<op, pc, reply, status, tuple>>
    BY <1>4 DEF IInv, TypeOK, SkipRow, rowVars, i
  <2>2. lock[i] # NoOne \/ status[i] = "gone"
    BY <1>1, <1>4 DEF SkipRow, Skippable, Explained, i
  <2>. QED BY <1>1, <1>2, <2>1, <2>2 DEF Explained
<1>. QED BY <1>3, <1>4

\* The scan ends, and has found nothing to take.
LEMMA EndExplained ==
    ASSUME IInv, NEW s \in Sessions, Explained(s), EndSelect(s) \/ NoMatch(s) PROVE Explained(s)'
<1>1. /\ UNCHANGED <<status, tuple, op, scanVars>> /\ pc'[s] # "locking" /\ pc[s] \in PCs
  BY DEF IInv, TypeOK, EndSelect, NoMatch, Goto, rowVars
<1>2. visit[s] # {} => Cardinality(held[s]) = CandidateLimit
  <2>1. CASE EndSelect(s)
    <3>1. IsFiniteSet(held[s])
      BY HeldIsFinite
    <3>2. Cardinality(held[s]) \in Nat
      BY <3>1, FS_CardinalityType
    <3>. QED BY <2>1, <3>2, LimitAssumption DEF EndSelect, MoreRows, Explained
  <2>2. CASE NoMatch(s)
    BY <2>2 DEF NoMatch, Explained
  <2>. QED BY <2>1, <2>2
<1>3. reply'[s].res = "not_found" => MatchingRows(op[s].arg, held[s])' = {}
  <2>1. CASE EndSelect(s)
    BY <2>1 DEF EndSelect, IInv, ReplyInv, NoReply
  <2>2. CASE NoMatch(s)
    BY <1>1, <2>2 DEF NoMatch, MatchingRows, scanVars
  <2>. QED BY <2>1, <2>2
<1>. QED BY <1>1, <1>2, <1>3 DEF Explained, scanVars

LEMMA InitScan == Init => ScanInv
BY DEF Init, ScanInv, Scans, NoReply

\* Every step keeps the scans explained.
LEMMA NextScan == IInv /\ ScanInv /\ [Next]_vars => ScanInv'
<1>. SUFFICES ASSUME IInv, ScanInv, [Next]_vars, NEW s \in Sessions, Scans(s)' PROVE Explained(s)'
  BY DEF ScanInv
<1>1. CASE UNCHANGED vars
  <2>1. Scans(s) /\ UNCHANGED <<snap, visit, held, skipped, op, reply, pc>>
    BY <1>1 DEF Scans, vars, scanVars
  <2>. QED BY <2>1, ScanKept
<1>2. ASSUME NEW t \in Sessions, t # s,
             Step(t) \/ GiveUp(t) \/ \E request \in Requests : Call(t, request)
      PROVE  Explained(s)'
  <2>1. Scans(s)
    BY <1>2, OthersStay DEF Scans
  <2>. QED BY <1>2, <2>1, OthersStay, ScanKept
<1>3. ASSUME GiveUp(s) \/ \E request \in Requests : Call(s, request) PROVE FALSE
  <2>1. pc'[s] \notin {"locking", "matching"} /\ reply'[s].res # "not_found"
    BY <1>3 DEF IInv, TypeOK, GiveUp, Call, Goto, Return, NoReply
  <2>. QED BY <2>1 DEF Scans
<1>4. ASSUME Step(s) PROVE Explained(s)'
  <2>1. ASSUME Insert(s) \/ Notify(s) \/ Read(s) PROVE FALSE
    <3>1. op'[s].kind # "in" /\ pc'[s] \notin {"locking", "matching"}
      BY <2>1 DEF IInv, TypeOK, OpInv, Insert, Notify, Read, Goto
    <3>. QED BY <3>1 DEF Scans
  <2>2. CASE SelectForUpdate(s)
    BY <2>2, SelectExplained
  <2>3. CASE LockRow(s) \/ SkipRow(s)
    BY <2>3, RowExplained DEF ScanInv, Scans, LockRow, SkipRow, MoreRows
  <2>4. CASE EndSelect(s) \/ NoMatch(s)
    BY <2>4, EndExplained DEF ScanInv, Scans, EndSelect, NoMatch
  <2>5. ASSUME Take(s) PROVE FALSE
    BY <2>5 DEF IInv, TypeOK, ReplyInv, Scans, Take, Goto, NoReply
  <2>6. ASSUME Delete(s) \/ (\E i \in Ids : DeleteRow(s, i)) \/ EndDelete(s) \/ Victim(s) PROVE FALSE
    <3>1. /\ pc'[s] \notin {"locking", "matching"}
          /\ op'[s].kind = "delete" \/ reply'[s].res = "error"
      BY <2>6 DEF IInv, TypeOK, OpInv, Delete, DeleteRow, EndDelete, Victim, GiveUp, Goto, Return
    <3>. QED BY <3>1 DEF Scans
  <2>7. ASSUME Commit(s) \/ Answer(s) PROVE FALSE
    <3>1. reply'[s].res # "not_found" /\ pc'[s] \notin {"locking", "matching"}
      BY <2>7 DEF IInv, TypeOK, ReplyInv, Commit, Answer, Goto, Return, NoReply
    <3>. QED BY <3>1 DEF Scans
  <2>8. CASE Reap(s) \/ LateCommit(s)
    <3>1. pc[s] # "locking" /\ UNCHANGED <<op, scanVars, reply>> /\ pc'[s] = "idle"
      BY <2>8 DEF IInv, TypeOK, Reap, LateCommit, Goto
    <3>2. Scans(s)
      BY <3>1 DEF Scans
    <3>. QED BY <3>1, <3>2, ScanKept DEF scanVars
  <2>. QED BY <1>4, <2>1, <2>2, <2>3, <2>4, <2>5, <2>6, <2>7, <2>8 DEF Step
<1>. QED BY <1>1, <1>2, <1>3, <1>4 DEF Next

\* consumeOnce answers not_found only when each matching tuple that its SELECT saw is gone,
\* was locked by another request, or lies behind CandidateLimit other candidates.
THEOREM NotFoundIsExplained == Spec => []NotFoundExplained
<1>1. Init => ScanInv
  BY InitScan
<1>2. IInv /\ ScanInv => NotFoundExplained
  BY DEF IInv, ReplyInv, NoReply, ScanInv, Scans, Explained, NotFoundExplained, MatchingRows
<1>. QED BY <1>1, <1>2, NextScan, Invariant, PTL DEF Spec

-------------------------------------------------------------------------------
(* What a step does to one session: for the proofs about the service *)

Active == {"called", "inserted", "locking", "matching", "deleting", "commit", "committed"}

\* A row that becomes visible was inserted by the transaction that commits, and has been
\* announced by it (Out).
LEMMA AnnouncedByCommit ==
    ASSUME IInv, NEW s \in Sessions, Step(s), NEW i \in Ids, status[i] # "live", status'[i] = "live"
    PROVE  /\ status[i] = "inserted" /\ tuple' = tuple
           /\ notes[s] = {SpaceOf[tuple[i]]}
<1>1. Commit(s) \/ LateCommit(s)
  <2>1. ~(Notify(s) \/ Read(s) \/ Answer(s))
    BY DEF Notify, Read, Answer, rowVars
  <2>2. ~(SelectForUpdate(s) \/ LockRow(s) \/ SkipRow(s) \/ EndSelect(s) \/ Take(s) \/ NoMatch(s))
    BY DEF SelectForUpdate, LockRow, SkipRow, EndSelect, Take, NoMatch, rowVars
  <2>3. ~(Delete(s) \/ (\E j \in Ids : DeleteRow(s, j)) \/ EndDelete(s) \/ Victim(s))
    BY DEF Delete, DeleteRow, EndDelete, Victim, GiveUp, rowVars
  <2>4. ~Insert(s) /\ ~Reap(s)
    BY DEF IInv, TypeOK, Insert, Reap
  <2>. QED BY <2>1, <2>2, <2>3, <2>4 DEF Step
<1>2. /\ i \in target[s] /\ status[i] = "inserted" /\ pc[s] \in {"commit", "broken_commit"}
      /\ tuple' = tuple
  BY <1>1 DEF IInv, TypeOK, Commit, LateCommit, Apply
<1>3. op[s].kind = "out"
  BY <1>2 DEF IInv, TargetInv, Open
<1>. QED BY <1>2, <1>3 DEF IInv, AskedInv, NotesInv

\* A step of a session that is not over, or of one whose server is still to learn that.
LEMMA OwnStep ==
    ASSUME IInv, NEW s \in Sessions, Step(s)
    PROVE  /\ op'[s] = op[s]
           /\ pc[s] \notin Active => pc'[s] = "idle" /\ UNCHANGED <<reply, scanVars>>
           /\ pc'[s] \in Active => reply'[s] = reply[s]
           /\ pc'[s] \in {"locking", "matching"} =>
                 \/ snap'[s] = CandidateRows(op[s].arg) /\ UNCHANGED rowVars
                 \/ pc[s] \in {"locking", "matching"} /\ snap'[s] = snap[s]
<1>. USE DEF IInv, TypeOK, Goto, Return, ForgetScan, scanVars, Active
<1>1. CASE Insert(s) \/ Notify(s) \/ Read(s)
  BY <1>1 DEF Insert, Notify, Read
<1>2. CASE SelectForUpdate(s) \/ LockRow(s) \/ SkipRow(s)
  BY <1>2 DEF SelectForUpdate, LockRow, SkipRow, MoreRows
<1>3. CASE EndSelect(s) \/ Take(s) \/ NoMatch(s)
  BY <1>3 DEF EndSelect, Take, NoMatch
<1>4. CASE Delete(s) \/ (\E i \in Ids : DeleteRow(s, i)) \/ EndDelete(s)
  BY <1>4 DEF Delete, DeleteRow, EndDelete
<1>5. CASE Victim(s)
  BY <1>5 DEF Victim, GiveUp, PCs
<1>6. CASE Commit(s) \/ Answer(s) \/ Reap(s) \/ LateCommit(s)
  BY <1>6 DEF Commit, Answer, Reap, LateCommit
<1>. QED BY <1>1, <1>2, <1>3, <1>4, <1>5, <1>6 DEF Step

\* An answer not_found is that of an Rd whose SELECT has seen no row that matches among its
\* candidates, or of an In that has come past its candidates.
LEMMA NotFoundStep ==
    ASSUME IInv, NEW s \in Sessions, Step(s), reply[s].res # "not_found",
           reply'[s].res = "not_found"
    PROVE  /\ UNCHANGED <<status, tuple>>
           /\ \/ op[s].kind = "rd"
                 /\ MatchingRows(op[s].arg, Window(CandidateRows(op[s].arg))) = {}
              \/ op[s].kind = "in" /\ pc[s] = "matching" /\ UNCHANGED scanVars
<1>. USE DEF IInv, TypeOK, Return
<1>1. ~(Insert(s) \/ Notify(s))
  BY DEF Insert, Notify
<1>2. ~(SelectForUpdate(s) \/ LockRow(s) \/ SkipRow(s) \/ EndSelect(s) \/ Take(s))
  BY DEF SelectForUpdate, LockRow, SkipRow, EndSelect, Take
<1>3. ~(Delete(s) \/ (\E i \in Ids : DeleteRow(s, i)) \/ EndDelete(s))
  BY DEF Delete, DeleteRow, EndDelete
<1>4. ~(Victim(s) \/ Commit(s) \/ Answer(s) \/ Reap(s) \/ LateCommit(s))
  BY DEF Victim, GiveUp, Commit, Answer, Reap, LateCommit
<1>5. CASE Read(s)
  BY <1>5 DEF Read, rowVars
<1>6. CASE NoMatch(s)
  BY <1>6 DEF NoMatch, OpInv
<1>. QED BY <1>1, <1>2, <1>3, <1>4, <1>5, <1>6 DEF Step

\* A window that hides nothing: the SQL filter lets through only what matches, or there are
\* no more rows than the window holds.
Suffices(p) == Candidates[p] \subseteq Matches[p] \/ CandidateLimit >= MaxId

\* Some of the rows, but not all, are fewer than the window holds when it is that wide.
LEMMA FewRows ==
    ASSUME NEW rows \in SUBSET Ids, NEW i \in Ids \ rows
    PROVE  Cardinality(rows) \in Nat /\ Cardinality(rows) < MaxId
<1>1. IsFiniteSet(1..MaxId) /\ Cardinality(1..MaxId) = MaxId
  <2>1. MaxId >= 1
    BY BoundAssumption DEF Ids
  <2>. QED BY <2>1, FS_Interval, BoundAssumption
<1>2. /\ IsFiniteSet(rows) /\ Cardinality(rows) <= MaxId
      /\ Cardinality(rows) = MaxId => rows = 1..MaxId
  BY <1>1, FS_Subset DEF Ids
<1>3. Cardinality(rows) \in Nat
  BY <1>2, FS_CardinalityType
<1>. QED BY <1>2, <1>3, BoundAssumption DEF Ids

\* It hides nothing from readOnce: some row is the first one, or every row is in it.
LEMMA ExactWindow ==
    ASSUME NEW p \in Templates, Suffices(p), MatchingRows(p, Window(CandidateRows(p))) = {}
    PROVE  MatchingRows(p, Visible) = {}
<1>. DEFINE rows == CandidateRows(p)
<1>1. SUFFICES ASSUME NEW k \in MatchingRows(p, Visible) PROVE FALSE
  OBVIOUS
<1>2. k \in rows /\ rows \in SUBSET Ids /\ rows \subseteq Nat
  BY MatchesAssumption DEF MatchingRows, CandidateRows, Visible, Ids
<1>3. CASE Candidates[p] \subseteq Matches[p]
  <2>1. PICK i \in rows : \A j \in rows : i <= j
    <3>1. \A R \in SUBSET Ids : R # {} => \E i \in R : \A j \in R : i <= j
      BY LeastRow
    <3>. QED BY <1>2, <3>1
  <2>2. {j \in rows : j < i} = {}
    BY <1>2, <2>1
  <2>3. Cardinality({j \in rows : j < i}) = 0
    BY <2>2, FS_EmptySet
  <2>4. i \in Window(rows)
    BY <2>1, <2>3, LimitAssumption DEF Window
  <2>. QED BY <1>3, <2>4 DEF MatchingRows, CandidateRows
<1>4. CASE CandidateLimit >= MaxId
  <2>1. Cardinality({j \in rows : j < k}) < CandidateLimit
    <3>. DEFINE before == {j \in rows : j < k}
    <3>1. before \in SUBSET Ids /\ k \in Ids \ before
      BY <1>2 DEF Ids
    <3>2. Cardinality(before) \in Nat /\ Cardinality(before) < MaxId
      BY <3>1, FewRows
    <3>. QED BY <1>4, <3>2, BoundAssumption, LimitAssumption
  <2>2. k \in Window(rows)
    BY <1>2, <2>1 DEF Window
  <2>. QED BY <2>2 DEF MatchingRows
<1>. QED BY <1>3, <1>4 DEF Suffices

\* Nor from consumeOnce: when none of the rows it holds matches, it has come past every row.
LEMMA NoneLeft ==
    ASSUME NEW p \in Templates, Suffices(p), NEW tuples, NEW rows \in SUBSET Ids,
           NEW got \in SUBSET rows, NEW left \in SUBSET rows,
           \A i \in rows : tuples[i] \in Candidates[p],
           \A i \in got : tuples[i] \notin Matches[p],
           got \cap left = {}, left # {} => Cardinality(got) = CandidateLimit
    PROVE  left = {}
<1>1. SUFFICES ASSUME NEW i \in left PROVE FALSE
  OBVIOUS
<1>2. Cardinality(got) < CandidateLimit
  <2>1. CASE Candidates[p] \subseteq Matches[p]
    <3>1. got = {}
      BY <2>1
    <3>. QED BY <3>1, FS_EmptySet, LimitAssumption
  <2>2. CASE CandidateLimit >= MaxId
    <3>1. Cardinality(got) \in Nat /\ Cardinality(got) < MaxId
      BY <1>1, FewRows
    <3>. QED BY <2>2, <3>1, BoundAssumption, LimitAssumption
  <2>. QED BY <2>1, <2>2 DEF Suffices
<1>. QED BY <1>1, <1>2, LimitAssumption

-------------------------------------------------------------------------------
(* Every step of a transaction is a step of the tuple space, or none. *)

absVars == <<SpaceView, ValueView, op, ChangedView, reply>>

\* The empty store is the empty tuple space.
LEMMA InitRefines == Init => Abstract!Init
  BY DEF Init, Abstract!Init, Abstract!NoRequest, Abstract!NoAnswer, NoOperation, NoReply,
         SpaceView, ValueView, ChangedView

\* Before the commit the space is as it was.
LEMMA Stutters ==
    ASSUME IInv, NEW s \in Sessions,
           \/ Insert(s) \/ Notify(s)
           \/ SelectForUpdate(s) \/ LockRow(s) \/ SkipRow(s) \/ EndSelect(s) \/ Take(s)
           \/ Delete(s) \/ (\E i \in Ids : DeleteRow(s, i)) \/ EndDelete(s) \/ Reap(s)
    PROVE  UNCHANGED absVars
<1>1. UNCHANGED <<op, reply>>
  BY DEF Insert, Notify, SelectForUpdate, LockRow, SkipRow, EndSelect, Take, Delete, DeleteRow,
         EndDelete, Reap
<1>2. UNCHANGED <<SpaceView, ValueView>>
  <2>1. CASE Insert(s)
    BY <2>1 DEF IInv, TypeOK, SequenceInv, Insert, SpaceView, ValueView
  <2>2. CASE Reap(s)
    BY <2>2 DEF IInv, TypeOK, Reap, SpaceView, ValueView
  <2>3. CASE ~Insert(s) /\ ~Reap(s)
    <3>1. UNCHANGED <<status, tuple>>
      BY <2>3 DEF Notify, SelectForUpdate, LockRow, SkipRow, EndSelect, Take, Delete, DeleteRow,
                  EndDelete, rowVars
    <3>. QED BY <3>1 DEF SpaceView, ValueView
  <2>. QED BY <2>1, <2>2, <2>3
<1>3. UNCHANGED ChangedView
  <2>1. \A q \in Sessions \ {s} : pc'[q] = pc[q] /\ target'[q] = target[q]
    BY DEF IInv, TypeOK, Insert, Notify, SelectForUpdate, LockRow, SkipRow, EndSelect, Take, Delete,
           DeleteRow, EndDelete, Reap, Goto
  <2>2. pc[s] \notin {"committed", "idle"}
    BY DEF Insert, Notify, SelectForUpdate, LockRow, SkipRow, MoreRows, EndSelect, Take, Delete,
           DeleteRow, EndDelete, Reap
  <2>3. pc'[s] \in {"committed", "idle"} => target'[s] = {}
    BY <2>2 DEF IInv, TypeOK, Insert, Notify, SelectForUpdate, LockRow, SkipRow, EndSelect, Take,
                Delete, DeleteRow, EndDelete, Reap, Goto
  <2>. QED BY <2>1, <2>2, <2>3 DEF ChangedView
<1>. QED BY <1>1, <1>2, <1>3 DEF absVars

\* A request of the service is a request to the tuple space.
LEMMA CallRefines ==
    ASSUME IInv, NEW s \in Sessions, NEW request \in Requests, Call(s, request)
    PROVE  request \in Abstract!Requests /\ Abstract!Ask(s, request)
<1>1. request \in Abstract!Requests
  BY FilterAssumption DEF Requests, Abstract!Requests
<1>2. ~Abstract!Waiting(s)
  BY DEF IInv, ReplyInv, Call, Abstract!Waiting, Abstract!NoAnswer, NoReply
<1>3. op' = [op EXCEPT ![s] = request] /\ reply' = [reply EXCEPT ![s] = Abstract!NoAnswer]
  BY DEF Call, NoReply, Abstract!NoAnswer
<1>4. ChangedView' = [ChangedView EXCEPT ![s] = {}]
  BY DEF IInv, TypeOK, Call, Goto, ChangedView
<1>5. UNCHANGED <<SpaceView, ValueView>>
  BY DEF Call, rowVars, SpaceView, ValueView
<1>. QED BY <1>1, <1>2, <1>3, <1>4, <1>5 DEF Abstract!Ask

\* A commit, late or not, is what puts or removes tuples.
LEMMA ApplyRefines ==
    ASSUME IInv, NEW s \in Sessions, Commit(s) \/ LateCommit(s)
    PROVE  \/ \E i \in Ids : Abstract!Put(s, i)
           \/ \E S \in SUBSET Ids : Abstract!Remove(s, S)
<1>1. /\ pc[s] \in {"commit", "broken_commit"} /\ pc'[s] \in {"committed", "idle"}
      /\ \A q \in Sessions \ {s} : pc'[q] = pc[q]
      /\ UNCHANGED <<tuple, op, target, reply>>
  BY DEF IInv, TypeOK, Commit, LateCommit, Goto
<1>2. status' = [i \in Ids |-> IF i \notin target[s] THEN status[i]
                              ELSE IF status[i] = "inserted" THEN "live" ELSE "gone"]
  BY DEF Commit, LateCommit, Apply
<1>3. target[s] \in SUBSET Ids
  BY DEF IInv, TypeOK
<1>4. ChangedView[s] = {} /\ ChangedView' = [ChangedView EXCEPT ![s] = target[s]]
  BY <1>1 DEF IInv, TypeOK, ChangedView
<1>5. Abstract!Change(s, target[s])
  BY <1>1, <1>4 DEF Abstract!Change
<1>6. CASE op[s].kind = "out"
  <2>1. \E i \in Ids : target[s] = {i}
    BY <1>1, <1>6 DEF IInv, OutInv
  <2>2. PICK i \in Ids : target[s] = {i}
    BY <2>1
  <2>3. status[i] = "inserted" /\ tuple[i] = op[s].arg
    BY <1>1, <1>6, <2>2 DEF IInv, TargetInv, AskedInv, Open
  <2>4. SpaceView[i] = "new" /\ SpaceView' = [SpaceView EXCEPT ![i] = "present"]
    BY <1>2, <2>2, <2>3 DEF IInv, TypeOK, SpaceView
  <2>5. ValueView' = [ValueView EXCEPT ![i] = op[s].arg]
    BY <1>1, <1>2, <2>2, <2>3 DEF IInv, TypeOK, ValueView
  <2>. QED BY <1>5, <1>6, <2>2, <2>4, <2>5 DEF Abstract!Put
<1>7. CASE op[s].kind # "out"
  <2>1. \A i \in target[s] : status[i] = "live"
    BY <1>1, <1>7 DEF IInv, TargetInv, Open
  <2>2. \A i \in target[s] : SpaceView[i] = "present"
    BY <1>3, <2>1 DEF SpaceView
  <2>3. SpaceView' = [i \in Ids |-> IF i \in target[s] THEN "removed" ELSE SpaceView[i]]
    BY <1>2, <2>1 DEF IInv, TypeOK, SpaceView
  <2>4. UNCHANGED ValueView
    BY <1>1, <1>2, <2>1 DEF IInv, TypeOK, ValueView
  <2>5. \/ /\ op[s].kind = "in"
           /\ \E i \in Ids : target[s] = {i} /\ ValueView[i] \in Matches[op[s].arg]
        \/ op[s].kind = "delete" /\ target[s] \subseteq op[s].arg
    <3>1. CASE op[s].kind = "in"
      <4>1. PICK i \in Ids : target[s] = {i}
        BY <1>1, <3>1 DEF IInv, OutInv
      <4>2. ValueView[i] \in Matches[op[s].arg]
        BY <2>1, <3>1, <4>1 DEF IInv, AskedInv, ValueView
      <4>. QED BY <3>1, <4>1, <4>2
    <3>2. CASE op[s].kind = "delete"
      BY <3>2 DEF IInv, AskedInv
    <3>. QED BY <1>1, <1>7, <3>1, <3>2 DEF IInv, OpInv
  <2>. QED BY <1>3, <1>5, <2>2, <2>3, <2>4, <2>5 DEF Abstract!Remove
<1>. QED BY <1>6, <1>7

\* The steps that end a request change nothing but its answer.
LEMMA SameSpace ==
    ASSUME IInv, NEW s \in Sessions,
           Read(s) \/ NoMatch(s) \/ Answer(s) \/ GiveUp(s)
    PROVE  UNCHANGED <<SpaceView, ValueView, op, ChangedView>> /\ Abstract!Waiting(s)
<1>1. UNCHANGED <<status, tuple, op, target>>
  BY DEF Read, NoMatch, Answer, GiveUp, rowVars
<1>2. Abstract!Waiting(s)
  BY DEF IInv, TypeOK, PCs, ReplyInv, Read, NoMatch, Answer, GiveUp, Abstract!Waiting, Abstract!NoAnswer,
         NoReply
<1>3. \A q \in Sessions \ {s} : pc'[q] = pc[q]
  BY DEF IInv, TypeOK, Read, NoMatch, Answer, GiveUp, Goto
<1>4. \/ pc[s] \in {"committed", "idle"} /\ pc'[s] \in {"committed", "idle"}
      \/ target[s] = {}
      \/ pc[s] \notin {"committed", "idle"} /\ pc'[s] \notin {"committed", "idle"}
  BY DEF IInv, TypeOK, TargetInv, Read, NoMatch, Answer, GiveUp, Goto
<1>5. UNCHANGED ChangedView
  BY <1>1, <1>3, <1>4 DEF ChangedView
<1>. QED BY <1>1, <1>2, <1>5 DEF SpaceView, ValueView

\* readOnce's answer is one the tuple space may give.
LEMMA ReadRefines ==
    ASSUME IInv, NEW s \in Sessions, Read(s)
    PROVE  (\E i \in Ids : Abstract!TellSeen(s, i)) \/ Abstract!TellNotFound(s)
<1>1. UNCHANGED <<SpaceView, ValueView, op, ChangedView>> /\ Abstract!Waiting(s)
  BY SameSpace
<1>2. op[s].kind = "rd" /\ ChangedView[s] = {}
  BY DEF Read, ChangedView
<1>3. CASE reply' = [reply EXCEPT ![s] = [res |-> "not_found", ids |-> {}]]
  BY <1>1, <1>2, <1>3 DEF Abstract!TellNotFound, Abstract!Tell
<1>4. ASSUME NEW i \in Ids, status[i] = "live", tuple[i] \in Matches[op[s].arg],
             reply' = [reply EXCEPT ![s] = [res |-> "found", ids |-> {i}]]
      PROVE  Abstract!TellSeen(s, i)
  <2>1. SpaceView[i] = "present" /\ ValueView[i] = tuple[i]
    BY <1>4 DEF SpaceView, ValueView
  <2>. QED BY <1>1, <1>2, <1>4, <2>1 DEF Abstract!TellSeen, Abstract!Tell
<1>. QED BY <1>3, <1>4, ReadReplies

\* So is the answer after a commit: it names what the request itself changed.
LEMMA AnswerRefines ==
    ASSUME IInv, NEW s \in Sessions, Answer(s)
    PROVE  Abstract!TellChange(s)
<1>1. UNCHANGED <<SpaceView, ValueView, op, ChangedView>> /\ Abstract!Waiting(s)
  BY SameSpace
<1>2. pc[s] = "committed" /\ ChangedView[s] = target[s] /\ op[s].kind \in {"out", "in", "delete"}
  BY DEF IInv, OpInv, Answer, ChangedView
<1>3. reply' = [reply EXCEPT ![s] =
                   [res |-> IF op[s].kind = "in" THEN "found" ELSE "ok", ids |-> ChangedView[s]]]
  BY <1>2 DEF Answer, Return
<1>4. op[s].kind = "in" => ChangedView[s] # {}
  BY <1>2 DEF IInv, OutInv
<1>. QED BY <1>1, <1>2, <1>3, <1>4 DEF Abstract!TellChange, Abstract!Tell

\* So is not_found: consumeOnce has then changed nothing.
LEMMA NoMatchRefines ==
    ASSUME IInv, NEW s \in Sessions, NoMatch(s)
    PROVE  Abstract!TellNotFound(s)
<1>1. op[s].kind = "in" /\ ChangedView[s] = {}
  BY DEF IInv, OpInv, NoMatch, ChangedView
<1>. QED BY <1>1, SameSpace DEF NoMatch, Return, Abstract!TellNotFound, Abstract!Tell

\* So is an error, whatever became of the transaction.
LEMMA GiveUpRefines ==
    ASSUME IInv, NEW s \in Sessions, GiveUp(s)
    PROVE  Abstract!TellError(s)
BY SameSpace DEF GiveUp, Return, Abstract!TellError, Abstract!Tell

\* Every step of the service and of PostgreSQL is a step of the tuple space, or none.
LEMMA StepRefines ==
    ASSUME IInv, NEW s \in Sessions, Step(s)
    PROVE  Abstract!Next \/ UNCHANGED absVars
<1>1. CASE Read(s)
  BY <1>1, ReadRefines DEF Abstract!Next
<1>2. CASE NoMatch(s)
  BY <1>2, NoMatchRefines DEF Abstract!Next
<1>3. CASE Commit(s) \/ LateCommit(s)
  BY <1>3, ApplyRefines DEF Abstract!Next
<1>4. CASE Answer(s)
  BY <1>4, AnswerRefines DEF Abstract!Next
<1>5. CASE Victim(s)
  BY <1>5, GiveUpRefines DEF Victim, Abstract!Next
<1>. QED BY <1>1, <1>2, <1>3, <1>4, <1>5, Stutters DEF Step

\* So is every step of all sessions.
LEMMA NextRefines == ASSUME IInv, [Next]_vars PROVE [Abstract!Next]_(Abstract!vars)
<1>1. CASE UNCHANGED vars
  BY <1>1 DEF vars, rowVars, Abstract!vars, SpaceView, ValueView, ChangedView
<1>2. ASSUME NEW s \in Sessions, NEW request \in Requests, Call(s, request)
      PROVE  Abstract!Next
  BY <1>2, CallRefines DEF Abstract!Next
<1>3. ASSUME NEW s \in Sessions, Step(s) PROVE Abstract!Next \/ UNCHANGED absVars
  BY <1>3, StepRefines
<1>4. ASSUME NEW s \in Sessions, GiveUp(s) PROVE Abstract!Next
  BY <1>4, GiveUpRefines DEF Abstract!Next
<1>. QED BY <1>1, <1>2, <1>3, <1>4 DEF Next, absVars, Abstract!vars

\* The operations of service.go and admin.go on PostgreSQL implement the tuple space: tuples are
\* put and removed at once, each once, by one request that asked for it and is told of no other.
THEOREM ImplementsTupleSpace == Spec => AbstractSpec
<1>1. IInv /\ [Next]_vars => [Abstract!Next]_(Abstract!vars)
  BY NextRefines
<1>. QED BY <1>1, InitRefines, Invariant, PTL DEF AbstractSpec, Abstract!Spec, Spec
===============================================================================
