------------------------------- MODULE MCServer -------------------------------
(***************************************************************************)
(* Server for TLC: the repository's migration with a later one beside it,  *)
(* a request that waits for tuples and one that does anything else.        *)
(***************************************************************************)
EXTENDS Server

CONSTANTS waiter, other

MCObjects == Created([creates |-> init_tuplespace]) \cup {"later"}

MCEntries == {
    [name |-> 1, isDir |-> FALSE, isSQL |-> TRUE, creates |-> init_tuplespace],
    [name |-> 2, isDir |-> FALSE, isSQL |-> TRUE, creates |-> <<"later">>],
    [name |-> 3, isDir |-> FALSE, isSQL |-> FALSE, creates |-> <<>>]}

MCMay == [r \in {waiter, other} |-> IF r = waiter THEN {"wait"} ELSE {"stats", "schema"}]
===============================================================================
