-------------------------------- MODULE MCAdmin -------------------------------
(***************************************************************************)
(* Admin for TLC: one operator lists, exports and purges, another deletes. *)
(***************************************************************************)
EXTENDS Admin, TLC

CONSTANTS u, v, alice, bob

Everything == [space |-> AnySpace, created_before |-> None, created_after |-> None,
        limit |-> 0, offset |-> 0]
OldOnes == [Everything EXCEPT !.created_before = 2]

Command(name, f) == [op |-> name, filter |-> f, confirm |-> name = "purge", id |-> None]
ById(name, n) == [Command(name, Everything) EXCEPT !.id = n]

Refused == {[Command("purge", Everything) EXCEPT !.confirm = FALSE],
            Command("purge", [OldOnes EXCEPT !.created_after = 2]),
            Command("dump", [Everything EXCEPT !.limit = 0 - 1]),
            ById("delete", 0)}

Pages == {Command("peek", [Everything EXCEPT !.limit = 1, !.offset = n]) : n \in 0..Cardinality(Outs)}

MCCommands ==
    alice :> {Command("export", OldOnes), Command("purge", OldOnes),
              Command("dump", [Everything EXCEPT !.space = 1]),
              Command("purge", [Everything EXCEPT !.created_after = 1])} \cup Pages
    @@ bob :> {ById("get", 1), ById("delete", 1), ById("delete", 2)} \cup Refused

MCSymmetry == Permutations(Outs)
===============================================================================
