---------------------------- MODULE MCTupleStore ----------------------------
(***************************************************************************)
(* TupleStore with one space and one template, which the contents `job'    *)
(* and `gap' both pass in SQL and only `job' in match.Match (a formal of   *)
(* another type, say).                                                     *)
(***************************************************************************)
EXTENDS TupleStore

CONSTANTS job, gap, jobs, anyJob

MCTemplates == {anyJob}
MCCandidates == [p \in MCTemplates |-> {job, gap}]
MCMatches == [p \in MCTemplates |-> {job}]
MCSpaceOf == [t \in {job, gap} |-> jobs]

\* DeleteTuple of the first row; Purge.
MCFilters == {{1}, Ids}
=============================================================================
