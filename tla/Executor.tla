------------------------------ MODULE Executor ------------------------------
(***************************************************************************)
(* orchestration/executor.py: one execute_plan call.                       *)
(*                                                                         *)
(* Every task is a coroutine of one asyncio event loop, started in plan    *)
(* order by a TaskGroup.  A coroutine runs without interruption between    *)
(* two awaits, so an action here is what happens from one await to the     *)
(* next: acquiring the semaphore, the cache lookup, the provider's answer  *)
(* or error, the end of a back-off sleep, the cache write.  Shared by the  *)
(* coroutines: the semaphore, the run-wide RetryBudget and the raw layer   *)
(* of the cache.  A plan's tasks have pairwise different raw keys (origin, *)
(* destination and stop mode differ), so the raw row of a task is named by *)
(* the task itself.                                                        *)
(***************************************************************************)
EXTENDS Naturals, FiniteSets

CONSTANTS NumTasks,           \* len(tasks)
          MaxConcurrent,      \* settings.concurrency.max_concurrent_searches
          MaxAttempts,        \* settings.retry.max_attempts
          BudgetNumerator,    \* settings.retry.retry_budget_fraction, as a
          BudgetDenominator,  \* quotient of naturals
          Ttl,                \* the time to live resolve_ttl gives each task
          UseCache,           \* a CacheRepository was supplied
          StartTime,          \* cache_now of the (first) run
          InitialRows         \* what the cache file may hold for a task

Tasks == 1..NumTasks

\* The classes of providers/errors.py, and the two that are TRANSIENT.
Errors == {"ProviderTimeoutError", "ProviderRateLimitedError", "ProviderConfigError"}
Transient == {"ProviderTimeoutError", "ProviderRateLimitedError"}

\* A provider result that has offers, one that has none.
Answers == {"offers", "empty"}

\* A raw_payloads row.  "absent" is no row; "unparsable" is a row whose
\* expires_at is not an ISO instant; the payload of a row may also be text
\* that deserialize_cached_search_result refuses.
Row == [state : {"absent", "stored", "unparsable"},
        payload : Answers \cup {"malformed"},
        expires : Nat]

NoRow == [state |-> "absent", payload |-> "empty", expires |-> 0]

ASSUME ExecutorAssumption ==
    /\ NumTasks \in Nat
    /\ MaxConcurrent \in Nat \ {0}
    /\ MaxAttempts \in Nat \ {0}
    /\ BudgetNumerator \in Nat
    /\ BudgetDenominator \in Nat \ {0}
    /\ Ttl \in [Tasks -> Nat]
    /\ UseCache \in BOOLEAN
    /\ StartTime \in Nat
    /\ InitialRows \subseteq Row

\* RetryBudget(int(len(tasks) * fraction)): truncated, never rounded up.
InitialBudget == (NumTasks * BudgetNumerator) \div BudgetDenominator

Outcomes == [state : {"OK", "NO_OFFERS", "PROVIDER_ERROR", "RATE_LIMITED", "TIMEOUT"},
             attempts : 0..MaxAttempts,
             cache : {"hit", "miss", "bypass"}]

NoOutcome == [state |-> "none", attempts |-> 0, cache |-> "none"]

\* The awaits a coroutine may be suspended at, and the two ways it may end.
Places == {"queued", "lookup", "calling", "sleeping", "storing", "done", "escaped"}

VARIABLES phase,     \* "running", then "returned" or "raised"
          pc,        \* where each coroutine is suspended
          attempt,   \* its local `attempt`, 0 before the first provider call
          answer,    \* its local `search_result`
          outcome,   \* results[index].outcome
          permits,   \* free permits of the semaphore
          budget,    \* RetryBudget._remaining
          store,     \* the raw layer of the cache
          cacheNow   \* the run's cache_now

vars == <<phase, pc, attempt, answer, outcome, permits, budget, store, cacheNow>>

-----------------------------------------------------------------------------

\* _error_state_for
ErrorState(e) == CASE e = "ProviderRateLimitedError" -> "RATE_LIMITED"
                   [] e = "ProviderTimeoutError"     -> "TIMEOUT"
                   [] OTHER                          -> "PROVIDER_ERROR"

AnswerState(a) == IF a = "offers" THEN "OK" ELSE "NO_OFFERS"

\* Mutant: one attempt too many.
RetryPastLastAttempt(t, e) == e \in Transient /\ attempt[t] <= MaxAttempts /\ budget > 0

\* Mutant: max_attempts read as the number of retries minus one.
RetryOneShort(t, e) == e \in Transient /\ attempt[t] + 1 < MaxAttempts /\ budget > 0

\* _should_retry: a permanent error or the last attempt is refused before
\* try_consume is asked.
ShouldRetry(t, e) == /\ e \in Transient
                     /\ attempt[t] < MaxAttempts
                     /\ budget > 0

\* Mutant: a row is given up one instant before it expires.
LiveOneShort(row) == row.state = "stored" /\ cacheNow + 1 < row.expires

\* The row get_raw may serve: it exists, its expires_at parses, and now is
\* before it.
Live(row) == row.state = "stored" /\ cacheNow < row.expires

\* Mutant: the upsert of an existing row leaves its expires_at as it was.
UpsertKeepingExpiry(t, a) ==
    [state |-> "stored", payload |-> a,
     expires |-> IF store[t].state = "stored" THEN store[t].expires ELSE cacheNow + Ttl[t]]

\* The row put_raw writes for a result.
FreshRow(t, a) == [state |-> "stored", payload |-> a, expires |-> cacheNow + Ttl[t]]

CacheState == IF UseCache THEN "miss" ELSE "bypass"

-----------------------------------------------------------------------------

Init == /\ phase = "running"
        /\ pc = [t \in Tasks |-> "queued"]
        /\ attempt = [t \in Tasks |-> 0]
        /\ answer = [t \in Tasks |-> "empty"]
        /\ outcome = [t \in Tasks |-> NoOutcome]
        /\ permits = MaxConcurrent
        /\ budget = InitialBudget
        /\ store \in [Tasks -> InitialRows]
        /\ cacheNow = StartTime

\* A coroutine moves to its next await and nothing is recorded for it.
MoveTo(t, place) == /\ phase = "running"
                    /\ pc' = [pc EXCEPT ![t] = place]
                    /\ UNCHANGED <<phase, cacheNow>>

\* Mutant: the permit is not given back with the outcome.
SettleKeepingPermit(t, state, attempts, cache) ==
    /\ MoveTo(t, "done")
    /\ outcome' = [outcome EXCEPT
                     ![t] = [state |-> state, attempts |-> attempts, cache |-> cache]]
    /\ permits' = permits

\* The coroutine returns its TaskOutcome and leaves `async with semaphore`.
Settle(t, state, attempts, cache) ==
    /\ MoveTo(t, "done")
    /\ outcome' = [outcome EXCEPT
                     ![t] = [state |-> state, attempts |-> attempts, cache |-> cache]]
    /\ permits' = permits + 1

\* Mutant: the permit is lost when an exception leaves the block.
EscapeKeepingPermit(t) == /\ MoveTo(t, "escaped")
                          /\ UNCHANGED <<attempt, answer, outcome, permits, budget>>

\* Something other than a ProviderError leaves the coroutine, and with it the
\* `async with semaphore` block.
Escape(t) == /\ MoveTo(t, "escaped")
             /\ permits' = permits + 1
             /\ UNCHANGED <<attempt, answer, outcome, budget>>

\* What the SQL statement a suspended coroutine waits for makes of its row:
\* put_raw's upsert, or get_raw's eviction of a row it could not parse.
StatementResult(t) ==
    CASE pc[t] = "storing" -> FreshRow(t, answer[t])
      [] pc[t] = "lookup" /\ store[t].state = "unparsable" -> NoRow
      [] OTHER -> store[t]

\* asyncio.Semaphore serves its waiters first in, first out, and the TaskGroup
\* starts the coroutines in plan order.
Acquire(t) ==
    /\ pc[t] = "queued"
    /\ permits > 0
    /\ \A u \in Tasks : u < t => pc[u] # "queued"
    /\ MoveTo(t, IF UseCache THEN "lookup" ELSE "calling")
    /\ attempt' = [attempt EXCEPT ![t] = IF UseCache THEN 0 ELSE 1]
    /\ permits' = permits - 1
    /\ UNCHANGED <<answer, outcome, budget, store>>

\* get_raw finds a live row and _record_cache_hit can read it.
ServeHit(t) ==
    /\ pc[t] = "lookup"
    /\ Live(store[t])
    /\ store[t].payload \in Answers
    /\ Settle(t, AnswerState(store[t].payload), 0, "hit")
    /\ UNCHANGED <<attempt, answer, budget, store>>

\* get_raw finds a live row that deserialize_cached_search_result refuses.
RejectPayload(t) ==
    /\ pc[t] = "lookup"
    /\ Live(store[t])
    /\ store[t].payload = "malformed"
    /\ Escape(t)
    /\ UNCHANGED store

\* get_raw returns None; a row whose expires_at does not parse is evicted.
Miss(t) ==
    /\ pc[t] = "lookup"
    /\ ~Live(store[t])
    /\ MoveTo(t, "calling")
    /\ attempt' = [attempt EXCEPT ![t] = 1]
    /\ store' = [store EXCEPT ![t] = StatementResult(t)]
    /\ UNCHANGED <<answer, outcome, permits, budget>>

\* sqlite3 raises inside get_raw or put_raw.  When it was the commit that
\* failed, the next commit on the shared connection writes the row after all.
CacheFails(t) ==
    /\ pc[t] \in {"lookup", "storing"}
    /\ Escape(t)
    /\ \E row \in {store[t], StatementResult(t)} : store' = [store EXCEPT ![t] = row]

\* provider.search returns.  Without a cache the outcome follows at once.
ProviderAnswers(t, a) ==
    /\ pc[t] = "calling"
    /\ answer' = [answer EXCEPT ![t] = a]
    /\ IF UseCache
       THEN /\ MoveTo(t, "storing")
            /\ UNCHANGED <<outcome, permits>>
       ELSE Settle(t, AnswerState(a), attempt[t], CacheState)
    /\ UNCHANGED <<attempt, budget, store>>

\* Mutant: an empty answer is reported but not written.
StoreOnlyOffers(t) ==
    /\ pc[t] = "storing"
    /\ store' = IF answer[t] = "offers" THEN [store EXCEPT ![t] = FreshRow(t, answer[t])]
                                        ELSE store
    /\ Settle(t, AnswerState(answer[t]), attempt[t], CacheState)
    /\ UNCHANGED <<attempt, answer, budget>>

\* put_raw has committed and the coroutine returns.
StoreAnswer(t) ==
    /\ pc[t] = "storing"
    /\ store' = [store EXCEPT ![t] = FreshRow(t, answer[t])]
    /\ Settle(t, AnswerState(answer[t]), attempt[t], CacheState)
    /\ UNCHANGED <<attempt, answer, budget>>

\* provider.search raises a ProviderError and a retry slot is granted; the
\* coroutine sleeps and keeps its permit.
RetryLater(t, e) ==
    /\ pc[t] = "calling"
    /\ ShouldRetry(t, e)
    /\ MoveTo(t, "sleeping")
    /\ budget' = budget - 1
    /\ UNCHANGED <<attempt, answer, outcome, permits, store>>

\* The back-off is over.
Wake(t) ==
    /\ pc[t] = "sleeping"
    /\ MoveTo(t, "calling")
    /\ attempt' = [attempt EXCEPT ![t] = @ + 1]
    /\ UNCHANGED <<answer, outcome, permits, budget, store>>

\* provider.search raises a ProviderError and no retry is granted.
GiveUp(t, e) ==
    /\ pc[t] = "calling"
    /\ ~ShouldRetry(t, e)
    /\ Settle(t, ErrorState(e), attempt[t], CacheState)
    /\ UNCHANGED <<attempt, answer, budget, store>>

\* provider.search raises something else: a bug, left to propagate.
ProviderBug(t) ==
    /\ pc[t] = "calling"
    /\ Escape(t)
    /\ UNCHANGED store

\* The TaskGroup sees an escaped exception, cancels every other coroutine
\* where it stands and re-raises.  A cache statement whose worker thread is
\* already running finishes although nobody waits for it.
Abort ==
    /\ phase = "running"
    /\ \E t \in Tasks : pc[t] = "escaped"
    /\ phase' = "raised"
    /\ \E finished \in SUBSET Tasks :
         store' = [t \in Tasks |-> IF t \in finished THEN StatementResult(t)
                                                     ELSE store[t]]
    /\ UNCHANGED <<pc, attempt, answer, outcome, permits, budget, cacheNow>>

\* Mutant: an escaped exception counts as a finished task.
ReturnSwallowing ==
    /\ phase = "running"
    /\ \A t \in Tasks : pc[t] \in {"done", "escaped"}
    /\ phase' = "returned"
    /\ UNCHANGED <<pc, attempt, answer, outcome, permits, budget, store, cacheNow>>

\* Every coroutine has returned; execute_plan returns its results.
Return ==
    /\ phase = "running"
    /\ \A t \in Tasks : pc[t] = "done"
    /\ phase' = "returned"
    /\ UNCHANGED <<pc, attempt, answer, outcome, permits, budget, store, cacheNow>>

\* What the coroutine of t does on its own account, and what it may meet.
CoroutineStep(t) == \/ Acquire(t)
                    \/ ServeHit(t)
                    \/ RejectPayload(t)
                    \/ Miss(t)
                    \/ StoreAnswer(t)
                    \/ Wake(t)

ProviderStep(t) == \/ \E a \in Answers : ProviderAnswers(t, a)
                   \/ \E e \in Errors : RetryLater(t, e) \/ GiveUp(t, e)
                   \/ ProviderBug(t)

Next == \/ \E t \in Tasks : CoroutineStep(t) \/ ProviderStep(t) \/ CacheFails(t)
        \/ Abort
        \/ Return

Spec == Init /\ [][Next]_vars

\* The event loop runs what is ready, sleeps end, sqlite answers.
LoopFairness == /\ \A t \in Tasks : WF_vars(CoroutineStep(t))
                /\ WF_vars(Abort)
                /\ WF_vars(Return)

\* provider.search returns or raises; nothing in the executor bounds it.
ProviderFairness == \A t \in Tasks : WF_vars(ProviderStep(t))

LoopFairSpec == Spec /\ LoopFairness

FairSpec == LoopFairSpec /\ ProviderFairness

-----------------------------------------------------------------------------

\* Every variable keeps to its range; in particular no task ever makes more
\* than max_attempts provider calls and the retry budget never goes negative.
TypeOK ==
    /\ phase \in {"running", "returned", "raised"}
    /\ pc \in [Tasks -> Places]
    /\ attempt \in [Tasks -> 0..MaxAttempts]
    /\ answer \in [Tasks -> Answers]
    /\ outcome \in [Tasks -> Outcomes \cup {NoOutcome}]
    /\ permits \in 0..MaxConcurrent
    /\ budget \in 0..InitialBudget
    /\ store \in [Tasks -> Row]
    /\ cacheNow \in Nat

\* The coroutines inside `async with semaphore`, sleeping ones included.
Holders == {t \in Tasks : pc[t] \in {"lookup", "calling", "sleeping", "storing"}}

\* Whatever way a coroutine leaves the semaphore, by its outcome or by an
\* escaping exception, its permit comes back exactly once: so at most
\* max_concurrent_searches searches are ever in flight.
PermitsConserved == permits + Cardinality(Holders) = MaxConcurrent

\* The retries granted so far, as pairs of a task and the attempt that failed.
Retried == {r \in Tasks \X (1..MaxAttempts) :
              \/ r[2] < attempt[r[1]]
              \/ r[2] = attempt[r[1]] /\ pc[r[1]] = "sleeping"}

\* Every retry of any task was paid from the one shared budget, and nothing
\* else was: the run as a whole makes at most InitialBudget provider calls
\* beyond one per task, however the tasks interleave.
RetriesPaid == budget + Cardinality(Retried) = InitialBudget

\* A task that ended in a transient error had no retry left to ask for: it
\* used all its attempts, or the shared budget was (and stays) empty.
NoEarlySurrender ==
    \A t \in Tasks :
      outcome[t].state \in {"RATE_LIMITED", "TIMEOUT"} =>
        outcome[t].attempts = MaxAttempts \/ budget = 0

\* The shared budget goes into retries alone, and is used while it lasts.
BudgetIsSpentOnRetries == RetriesPaid /\ NoEarlySurrender

\* The ledger and the cache agree when a task is done: an answered task left
\* (or was served from) a row that replays the same state, and a failed one
\* left no row that could be served as an answer.
ReplayAgrees ==
    UseCache =>
      \A t \in Tasks : pc[t] = "done" =>
        IF outcome[t].state \in {"OK", "NO_OFFERS"}
        THEN /\ store[t].state = "stored"
             /\ AnswerState(store[t].payload) = outcome[t].state
        ELSE ~Live(store[t])

\* Where a coroutine stands says what it has done: it has counted no attempt
\* before the lookup is over and at least one after, it sleeps only when an
\* attempt is left, it has missed the cache while it talks to the provider, and
\* its ledger entry is there exactly when it is done.
PlaceConsistent ==
    \A t \in Tasks :
      /\ pc[t] \in {"queued", "lookup"} => attempt[t] = 0
      /\ pc[t] \in {"calling", "sleeping", "storing"} => attempt[t] >= 1
      /\ pc[t] = "sleeping" => attempt[t] < MaxAttempts
      /\ UseCache /\ pc[t] \in {"calling", "sleeping"} => ~Live(store[t])
      /\ pc[t] = "storing" => UseCache
      /\ pc[t] = "done" <=> outcome[t] # NoOutcome

\* The inductive invariant behind the theorems of ExecutorProofs.
IInv == TypeOK /\ PlaceConsistent /\ PermitsConserved /\ RetriesPaid

\* The run keeps the promise of TaskLedger: one terminal outcome per task,
\* never revised; a returned result is total; an exception is never turned
\* into a result.
Ledger == INSTANCE TaskLedger WITH ledger <- outcome,
                                   status <- IF phase = "running" THEN "open" ELSE phase
LedgerSpec == Ledger!Spec

\* execute_plan ends, one way or the other.
Terminates == <>(phase # "running")
=============================================================================
