----------------------------- MODULE MCExecutor -----------------------------
(***************************************************************************)
(* Values for the constants of Executor: the rows a cache file may hold    *)
(* when a run starts, and the times to live of its tasks.                  *)
(***************************************************************************)
EXTENDS Executor

\* cache_now of the checked run.
MCStartTime == 1

\* No row; a live one of each payload; one that expires at this very instant;
\* one whose expires_at does not parse.
MCInitialRows ==
    {NoRow,
     [state |-> "stored", payload |-> "offers", expires |-> MCStartTime + 1],
     [state |-> "stored", payload |-> "empty", expires |-> MCStartTime + 1],
     [state |-> "stored", payload |-> "malformed", expires |-> MCStartTime + 1],
     [state |-> "stored", payload |-> "offers", expires |-> MCStartTime],
     [state |-> "unparsable", payload |-> "offers", expires |-> 0]}

\* A cold cache.
MCColdCache == {NoRow}

MCTtl == [t \in Tasks |-> 1]
=============================================================================
