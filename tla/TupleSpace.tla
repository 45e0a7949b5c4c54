------------------------------ MODULE TupleSpace ------------------------------
(***************************************************************************)
(* What the tuple space promises to its callers: the interface of          *)
(* internal/service/service.go (Out, Rd, In, DeleteTuple, Purge) as atomic *)
(* steps over a set of tuples, with no transactions, locks or messages.    *)
(*                                                                         *)
(* A tuple is put once and removed once, each time by one request that     *)
(* asked for it, and a request changes the space at most once.  Its answer *)
(* comes later, and is about what the request itself did (out, in, delete) *)
(* or saw (rd).  Two promises are weaker than one could wish, because the  *)
(* code makes no stronger one: a request answered "error" may still have   *)
(* changed the space, or do so afterwards, and "not_found" may be answered *)
(* at any time.                                                            *)
(***************************************************************************)

CONSTANTS
    Sessions,     \* the callers; each has one request at a time
    Ids,          \* tuple identities
    Tuples,       \* tuple contents, the space they are in included
    Templates,    \* what rd and in ask for, the space included
    Matches,      \* [Templates -> SUBSET Tuples]
    NoOne         \* the argument of no request, the content of no tuple

VARIABLES
    space,        \* [Ids -> {"new", "present", "removed"}]
    value,        \* the content of each tuple, NoOne before it is put
    asked,        \* [Sessions -> Requests]: the last request
    changed,      \* [Sessions -> SUBSET Ids]: what that request put or removed
    answer        \* [Sessions -> Answers]: its answer, "none" until it has one

vars == <<space, value, asked, changed, answer>>

Requests ==
    [kind : {"none"}, arg : {NoOne}]
        \cup [kind : {"out"}, arg : Tuples]
        \cup [kind : {"rd", "in"}, arg : Templates]
        \cup [kind : {"delete"}, arg : SUBSET Ids]

NoRequest == [kind |-> "none", arg |-> NoOne]
NoAnswer == [res |-> "none", ids |-> {}]

Answers == [res : {"none", "ok", "found", "not_found", "error"}, ids : SUBSET Ids]

Init ==
    /\ space = [i \in Ids |-> "new"]
    /\ value = [i \in Ids |-> NoOne]
    /\ asked = [s \in Sessions |-> NoRequest]
    /\ changed = [s \in Sessions |-> {}]
    /\ answer = [s \in Sessions |-> NoAnswer]

Waiting(s) == asked[s].kind # "none" /\ answer[s] = NoAnswer

Ask(s, request) ==
    /\ ~Waiting(s)
    /\ asked' = [asked EXCEPT ![s] = request]
    /\ changed' = [changed EXCEPT ![s] = {}]
    /\ answer' = [answer EXCEPT ![s] = NoAnswer]
    /\ UNCHANGED <<space, value>>

\* The one change of the space a request makes.
Change(s, S) ==
    /\ changed[s] = {}
    /\ changed' = [changed EXCEPT ![s] = S]
    /\ UNCHANGED <<asked, answer>>

Put(s, i) ==
    /\ asked[s].kind = "out"
    /\ space[i] = "new"
    /\ space' = [space EXCEPT ![i] = "present"]
    /\ value' = [value EXCEPT ![i] = asked[s].arg]
    /\ Change(s, {i})

Remove(s, S) ==
    /\ \/ /\ asked[s].kind = "in"
          /\ \E i \in Ids : S = {i} /\ value[i] \in Matches[asked[s].arg]
       \/ asked[s].kind = "delete" /\ S \subseteq asked[s].arg
    /\ \A i \in S : space[i] = "present"
    /\ space' = [i \in Ids |-> IF i \in S THEN "removed" ELSE space[i]]
    /\ UNCHANGED value
    /\ Change(s, S)

Tell(s, res, ids) ==
    /\ Waiting(s)
    /\ answer' = [answer EXCEPT ![s] = [res |-> res, ids |-> ids]]
    /\ UNCHANGED <<space, value, asked, changed>>

TellChange(s) ==
    \/ asked[s].kind \in {"out", "delete"} /\ Tell(s, "ok", changed[s])
    \/ asked[s].kind = "in" /\ changed[s] # {} /\ Tell(s, "found", changed[s])

TellSeen(s, i) ==
    /\ asked[s].kind = "rd"
    /\ space[i] = "present"
    /\ value[i] \in Matches[asked[s].arg]
    /\ Tell(s, "found", {i})

TellNotFound(s) ==
    /\ asked[s].kind \in {"rd", "in"}
    /\ changed[s] = {}
    /\ Tell(s, "not_found", {})

TellError(s) == Tell(s, "error", {})

Next ==
    \E s \in Sessions :
        \/ \E request \in Requests : Ask(s, request)
        \/ \E i \in Ids : Put(s, i)
        \/ \E S \in SUBSET Ids : Remove(s, S)
        \/ TellChange(s)
        \/ \E i \in Ids : TellSeen(s, i)
        \/ TellNotFound(s)
        \/ TellError(s)

Spec == Init /\ [][Next]_vars
=============================================================================
