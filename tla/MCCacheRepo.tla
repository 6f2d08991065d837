---------------------------- MODULE MCCacheRepo -----------------------------
(***************************************************************************)
(* Two runs over one file are enough for every conflict between instances, *)
(* two keys for every conflict between the threads of one instance.        *)
(***************************************************************************)
EXTENDS CacheRepo

CONSTANTS r1, r2, k1, k2

\* A run with two tasks, and one that shares a key with it.
MCCallers == {<<r1, k1>>, <<r1, k2>>, <<r2, k1>>}

\* Two runs of the same one task.
MCTwoRuns == {<<r1, k1>>, <<r2, k1>>}

\* One run of two tasks.
MCOneRun == {<<r1, k1>>, <<r1, k2>>}
=============================================================================
