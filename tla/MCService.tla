------------------------------ MODULE MCService ------------------------------
(***************************************************************************)
(* Service with one space: a client r1 that waits, one w that does         *)
(* everything else, and a template that the tuple `job' matches.           *)
(***************************************************************************)
EXTENDS Service, TLC

CONSTANTS job, jobs, anyJob, chan, r1, w

MCCandidates == [p \in {anyJob} |-> {job}]
MCMatches == [p \in {anyJob} |-> {job}]
MCSpaceOf == [t \in {job} |-> jobs]
MCSpaceAsked == [p \in {anyJob} |-> jobs]
MCChannelName == [sp \in {jobs} |-> chan]

Out == [kind |-> "out", arg |-> job, wait |-> FALSE]
RdWait == [kind |-> "rd", arg |-> anyJob, wait |-> TRUE]
InWait == [kind |-> "in", arg |-> anyJob, wait |-> TRUE]
Inp == [kind |-> "in", arg |-> anyJob, wait |-> FALSE]
Purge == [kind |-> "delete", arg |-> 1..MaxId, wait |-> FALSE]
NotifyTest == [kind |-> "notify", arg |-> jobs, wait |-> FALSE]

MCFilters == {1..MaxId}

\* A client that waits, and one that does everything else.
Mixed == (r1 :> {RdWait, InWait}) @@ (w :> {Out, Inp, Purge, NotifyTest})

\* A reader that waits, and a writer.
Reader == (r1 :> {RdWait}) @@ (w :> {Out})
===============================================================================
