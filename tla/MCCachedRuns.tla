---------------------------- MODULE MCCachedRuns ----------------------------
(***************************************************************************)
(* Values for the constants of CachedRuns.                                 *)
(***************************************************************************)
EXTENDS CachedRuns

MCStartTime == 0

\* A file no run has written yet, or one that holds a row of an older build or
\* a damaged one.
MCInitialRows ==
    {NoRow,
     [state |-> "stored", payload |-> "empty", expires |-> MCStartTime + 1],
     [state |-> "unparsable", payload |-> "offers", expires |-> 0]}

\* The first task's departure is farther away than the others'.
MCTtl == [t \in Tasks |-> IF t = 1 THEN 2 ELSE 1]
=============================================================================
