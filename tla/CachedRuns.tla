----------------------------- MODULE CachedRuns -----------------------------
(***************************************************************************)
(* A sequence of identical runs over one cache file: each is an            *)
(* execute_plan call (module Executor) that cli.run_all_destinations_      *)
(* pipeline makes with a CacheRepository it opens for that call and its own *)
(* started_at as cache_now.  A run may end in any way before the next one  *)
(* starts: it returned, it raised, or its process was killed at any point. *)
(***************************************************************************)
EXTENDS Executor

CONSTANTS MaxTime,   \* bound: the last instant a run may start at
          MaxRuns    \* bound: how many runs are started

ASSUME CachedRunsAssumption == UseCache /\ MaxTime \in Nat /\ MaxRuns \in Nat

VARIABLES runs,      \* how many runs have been started
          banked     \* history: the last answer an earlier run recorded for a
                     \* task after asking the provider, and that run's cache_now

runVars == <<vars, runs, banked>>

NothingBanked == [state |-> "none", at |-> 0]

Banked == {NothingBanked} \cup [state : {"OK", "NO_OFFERS"}, at : Nat]

\* The tasks this run has answered by asking the provider.
Fetched == {t \in Tasks : /\ outcome[t].cache = "miss"
                          /\ outcome[t].state \in {"OK", "NO_OFFERS"}}

RunsInit == /\ Init
            /\ runs = 1
            /\ banked = [t \in Tasks |-> NothingBanked]

\* A step of the run in progress.
RunStep == Next /\ UNCHANGED <<runs, banked>>

\* Mutant: the retry budget is one object topped up by every run.
FreshRunToppingUp(now) ==
    /\ phase' = "running"
    /\ pc' = [t \in Tasks |-> "queued"]
    /\ attempt' = [t \in Tasks |-> 0]
    /\ answer' = [t \in Tasks |-> "empty"]
    /\ outcome' = [t \in Tasks |-> NoOutcome]
    /\ permits' = MaxConcurrent
    /\ budget' = budget + InitialBudget
    /\ cacheNow' = now

\* Every local variable of execute_plan and its coroutines is new; the rows of
\* the cache file are what the run before left there.
FreshRun(now) ==
    /\ phase' = "running"
    /\ pc' = [t \in Tasks |-> "queued"]
    /\ attempt' = [t \in Tasks |-> 0]
    /\ answer' = [t \in Tasks |-> "empty"]
    /\ outcome' = [t \in Tasks |-> NoOutcome]
    /\ permits' = MaxConcurrent
    /\ budget' = InitialBudget
    /\ cacheNow' = now

\* The next identical run starts.  If the one before was killed, each cache
\* statement it had under way was either committed or not.
StartRun(now) ==
    /\ runs < MaxRuns
    /\ runs' = runs + 1
    /\ banked' = [t \in Tasks |-> IF t \in Fetched
                                  THEN [state |-> outcome[t].state, at |-> cacheNow]
                                  ELSE banked[t]]
    /\ FreshRun(now)
    /\ IF phase = "running"
       THEN \E finished \in SUBSET Tasks :
              store' = [t \in Tasks |-> IF t \in finished THEN StatementResult(t)
                                                          ELSE store[t]]
       ELSE UNCHANGED store

RunsNext == \/ RunStep
            \/ \E now \in cacheNow..MaxTime : StartRun(now)

RunsSpec == RunsInit /\ [][RunsNext]_runVars

-----------------------------------------------------------------------------

\* Every variable keeps to its range, whatever the run before left behind.
RunsTypeOK == /\ TypeOK
              /\ runs \in Nat
              /\ banked \in [Tasks -> Banked]

\* A banked answer whose time to live has not run out at this run's cache_now.
Due(t) == /\ banked[t] # NothingBanked
          /\ cacheNow < banked[t].at + Ttl[t]

\* What an earlier run fetched is not fetched again while it lives: no
\* provider call is made for it, and the task ends as a hit on the state
\* recorded then.  This holds after a run that raised or was killed part-way,
\* which is the point of writing each answer as soon as it is there.
NoRefetch ==
    \A t \in Tasks : Due(t) =>
      /\ pc[t] \notin {"calling", "sleeping", "storing"}
      /\ pc[t] = "done" =>
           outcome[t] = [state |-> banked[t].state, attempts |-> 0, cache |-> "hit"]

\* The row of t is the one put_raw wrote for an answer of this state in a run
\* with this cache_now.
RowKept(t, state, at) == /\ store[t].state = "stored"
                         /\ store[t].expires = at + Ttl[t]
                         /\ store[t].payload \in Answers
                         /\ AnswerState(store[t].payload) = state

\* The row behind an answer, of this run or a banked one that is still due, is
\* in the file unharmed and with the expiry that answer gave it, whatever other
\* tasks, failing statements and killed runs did since.
AnswersKept ==
    \A t \in Tasks :
      /\ t \in Fetched => RowKept(t, outcome[t].state, cacheNow)
      /\ Due(t) => RowKept(t, banked[t].state, banked[t].at)

\* The inductive invariant behind the theorems of CachedRunsProofs.
RunsIInv == IInv /\ RunsTypeOK /\ NoRefetch /\ AnswersKept
=============================================================================
