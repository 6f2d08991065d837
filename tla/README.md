# Verification of flight-agent

flight-agent searches flights from a list of origin airports to a list of
destinations, validates and ranks what it finds, and writes a report that a
person may approve. This directory holds TLA+ models of its core, the TLC
configurations that check them, and TLAPS proofs about them. Paths below are
relative to `src/src/flightagent/` of the repository.

Contents: [the system](#the-system), [the modules](#the-modules),
[the runs](#the-runs), [fairness](#fairness), [the proofs](#the-proofs),
[disagreements found](#disagreements-found),
[what is not modelled](#what-is-not-modelled), [what comes next](#what-comes-next).

## The system

One run goes through these parts; the arrows are calls, and every part is
synchronous but the executor and the cache.

    POST /search, flightagent run
      -> configuration, registry           the settings, the airports
      -> plan, ground filter, waves        which tasks, in which order
      -> executor -> cache, provider       the answer of every task
      -> normalize, validate               the valid itineraries, the rejections
      -> run status                        COMPLETE, PARTIAL, NO_RESULTS, FAILED
      -> policies, dedup, score, rank      the tables of the report
      -> rendering                         the facts of both artifacts
      -> report files, run directory       results.json, report.md, run_meta.json
    POST /runs/{id}/approve                approval.json

| Component | State it keeps | Operations | What is hard | What makes it correct |
|---|---|---|---|---|
| Executor (`orchestration/executor.py`) | semaphore, retry budget, a result per task | `execute_plan`, `_run_one_task` | coroutines share the permits and the budget and are suspended at every await; one exception cancels all | permits and budget are conserved, every task gets one outcome or the run raises, the run ends |
| Cache (`persistence/`) | rows of an SQLite file, one connection per run, a lock, an open transaction | `get_raw`, `put_raw`, eviction, `close` | worker threads outlive their coroutines; other processes write the file | one thread inside a connection, what was put is there afterwards, only useless rows are deleted |
| Providers (`providers/`) | none of their own | `search` | may answer late, never, or with any error class; payloads are untrusted | errors stay inside the taxonomy or surface; mapped times mean what the airline meant |
| Domain constructors, validation, normalization (`domain/`, `validation/`, `normalize/`) | none; immutable values | constructors, seven rules, `build_normalized_itinerary`, `deduplicate` | local clocks that repeat or skip an hour; several rejections of one offer | what is accepted keeps the request, what is rejected deserves it |
| Configuration, registries (`config/`, `airports/`) | settings, registry; both immutable once made | `load_config`, the merge of two catalogs | layers in which one value displaces a whole section; checks spread over loops | every setting is that of the highest layer, nothing is ignored but what a later value takes the place of, exactly the unsound files are refused |
| Plan, filter, waves (`orchestration/`) | a list of tasks | the planners of one and of all origins, the filter | order decides the early-stop verdict; excluded origins leave gaps | every origin within the limit is searched once per destination and stop mode, in order; none beyond it is |
| Policies, scoring (`policy/`, `scoring/`) | running minimum, pools, ranks | the early-stop replay, the direct-versus-stop analysis, scoring, ranking, tables | ties, thresholds, missing fares, the order of steps | verdicts are grounded in the fares; the tables agree with each other |
| Run status, command line (`cli.py`, `domain/run.py`) | ledger, status, exit code | `run` with `--all-destinations` or `--dest` | two places decide the status; writes fail midway | the exit code tells the truth about the run |
| Report files, HTTP API (`reporting/`, `api/`) | the shared pair of files, a directory per run | atomic writes, `POST /search`, `GET /runs`, approval | crashes between writes; overlapping runs | readers find whole files of one run; decisions quote their run |
| Rendering (`reporting/markdown.py`, `json_report.py`, `view.py`) | none | a section or an array per table | the same facts are stated by several sections from different inputs | no section contradicts another; nothing that failed is hidden |
| Observability, tools, identifiers | output only, or hashes | | | not modelled, see below |

`PROJECT.json` lists the components with their sources, and the hazards of the
code at the lines where they bite, each with the property that would notice it
or the reason why none does.

## The modules

Every definition that models code is mapped to its lines in `PROJECT.json`.
Definitions marked *Mutant* are not part of the model: each is a plausible bug of
the definition after it, put in its place to see that a property notices.

**Config** is `load_config`: `ReadOverride`, then `ParseVariable` per environment
variable in the order of `os.environ`, then `Validate`; a tree is a function from
paths to values, and `DeepMerge` says that the upper leaves displace whatever they
collide with. **Registry** is the merge of `airports.yaml` and
`ground_access.yaml`, one row per action (`ReadGroundRow`, `ReadAirportRow`), with
each check of the code at its place as a `Refuse...` action. **Planning** extends
both: `FilterOrigin` and `PlanOrigin` are the rounds of the two loops behind
`--all-origins`, `PlanSingle` is the other planner; a plan is the tuple of tasks
that the rest of the system starts from.

**TaskLedger** is what the executor promises its caller: a ledger with an entry
per task, each written once and never revised; the run returns a total ledger or
raises and returns none.

**Executor** is one `execute_plan`. An action is what a coroutine does between
two awaits: `Acquire` the semaphore and look into the cache, `ServeHit`,
`RejectPayload`, `Miss`, then the provider's answer (`ProviderAnswers`,
`RetryLater`, `GiveUp`, `ProviderBug`), `Wake` after the back-off, `StoreAnswer`;
`CacheFails` is an exception of the cache at any of its awaits. `pc` is the await
a task is suspended at; `permits` and `budget` are the semaphore and the
`RetryBudget`; `store` is the raw layer of the cache. `Abort` is the TaskGroup
cancelling the siblings of a coroutine that raised, `Return` the end of the group.
It implements TaskLedger (property `LedgerSpec`).

**CachedRuns** composes runs of Executor over one file: a run may end in any way,
killed included, and the next one starts later with a new budget and new permits.
`banked` remembers what earlier runs fetched.

**CacheRepo** goes below Executor's cache: instances of `CacheRepository` on one
file, a coroutine per raw key, a job for a worker thread per statement (`Enter`
the lock, `Select`, or `Write` and `Commit`; `ExecuteRaises`, `CommitRaises`),
and `Cancel`, `Return` and `Close` of the run, which do not wait for the jobs.
`pending` is the open transaction of a connection, which a failed commit leaves
open. A row is absent, unparsable, expired or live, which is all `get_raw` tells
apart.

**RunStatus** holds the operators that decide a status from a ledger, once as
`_compute_run_status` does and once as the validator of `RunEnvelope` does.
**CliRun** is one `flightagent run` from the answers to the exit code:
`FinalizeTask` per task in plan order, `Envelop`, then `Report`, four `WriteFile`
steps and `Succeed`, or `NoResults` or `Failed`; an exception may come from the
search, from an offer in a foreign currency (`BadOffer`), from the envelope and
from each write. `plan` is the origin of each task and may be empty; `report` has
the two sections that are made of the ledger, the failed searches and the reasons
why origins have no fare.

**RunStore** is the disk: the fixed pair of paths, a directory per run, the three
steps of every atomic write (`MakeTemp`, `Sync`, `Replace`), a failure or a kill
between any two. Command-line runs are processes; the HTTP handlers share one
event loop (`loop`) and hold it between their writes, as the code does not await
there. Approvals read the run's files and write `approval.json`.

**Selection** is `run_all_destinations_pipeline` between the answers and the
document: `CollectTask` per task, `AnalyseDestination` per destination, the
early-stop loop one origin at a time (`SkipOrigin`, `PassOrigin`,
`TriggerAtOrigin`, `EndOfWalk`), `Deduplicate`, `RankAndCut`. A flight stands for
the shape of an itinerary; lists that the code sorts by a total order are sets.
`JourneyScore` is the ground overlay.

**Report** extends Selection by the two artifacts: `Render` the Markdown report and
`BuildResults` the JSON document, each a record of the sections with the facts
their rows state. **MCReport** gives both their instance.

**Offers** is the way from a payload to a verdict: `MapOffer` resolves local
readings with fold 0, as both mappers do, and applies the validators of Segment,
Layover and Leg (`MappingRaises` when they refuse); `JudgeOffer` is one turn of
the loop of `_normalize_and_validate`, `CurrencyRaises` an offer that is not in
EUR. A zone is the instant of its clock change and the offsets before and after
it; the resolution of a reading by fold is that of PEP 495, which `zoneinfo`
implements (external). The adapters' own `search()` refuses for want of
credentials in this commit, so their mappers run on recorded payloads only; the
rules run in every search. A payload may set `is_self_transfer` through another
implementation of the provider protocol, as the fixtures of the tests do.

The modules compose by what they share: Planning extends Config and Registry,
CachedRuns extends Executor, Executor implements TaskLedger, CliRun builds on
RunStatus, Report extends Selection, CacheRepo opens up
what Executor takes for one atomic cache statement. Executor and CacheRepo stay apart
because their product is beyond what TLC enumerates; the interface is that a
lookup returns a row as it was at one instant and a put is visible once it has
returned, and PutIsDurable and OneThreadPerConnection are the facts that make it
so.

## The runs

| Run | Instance | States | Question |
|---|---|---|---|
| `executor_run` | 3 tasks, 2 permits, 2 attempts, a budget of 2 retries, six kinds of row per task | 252,352 | one `execute_plan`: invariants, refinement, termination |
| `executor_hang` | 2 tasks, 1 permit, no fairness of the provider | | *violated*: the run ends whatever the provider does |
| `cached_runs` | 2 tasks, 3 runs, instants 0 to 2 | 122,516 | what a killed or failed run leaves for the next |
| `cache_repo` | 2 instances, 2 keys, 3 coroutines | 1,068,291 | threads, locks and transactions; ends |
| `cli_run` | plans of 0 to 3 tasks from 2 origins, up to 2 offers a task, 2 codes | 212,290 | status, envelope, sections of the ledger, messages and exit codes |
| `run_store` | 2 command-line runs, 1 search, 2 approvals | 346,236 | files and run directories under crashes |
| `planning` | 5 override files, up to 2 of 9 variables, 4 airport files, 8 ground files, 4 requests | 293,372 | layers, refusals of the registry, the plan |
| `ground_limit` | the same | | *violated*: no task starts at an origin beyond the ground limit |
| `selection` | 5 origins (one beyond the ground limit), 2 destinations, 12 offers of which at most 5 are valid | 170,361 | pools, verdicts, duplicates, ranks, tables, the final summary |
| `journey_rank` | at most 3 valid | | *violated*: the rank by total journey score follows that score |
| `report_cheapest` | at most 3 valid | | *violated*: the cheapest fare of an origin is its cheapest |
| `offers` | 29 payloads around two clock changes, batches of 2 | 28,083 | clocks, layovers, rejections, the appendix |

Why the bounds are enough:

- *executor_run*: two permits and three tasks give a task that waits, one that
  sleeps with its permit and one that runs; the budget (3/4 of three tasks,
  rounded down) is smaller than the retries the tasks ask for, so it runs out
  while others want it. `InitialRows` has every kind of row the lookup tells
  apart, one that expires at this very instant included.
- *cached_runs*: three runs let an answer be fetched, served while it lives, and
  fetched again; the first task lives two units and the second one, so that both
  sides of an expiry occur. A budget of 1/2 of two tasks is one retry.
- *cache_repo*: two instances are enough for every conflict between processes and
  two keys for every conflict between the threads of one connection; statements
  touch one row each.
- *cli_run*: two tasks of one origin and one of another give every combination of
  the outcomes that the status and an origin's row depend on; the four plans are
  those the ground filter can leave of two origins. Two codes, the later of which
  is a layover code, give ties within and across the tasks.
- *run_store*: two command-line runs can interleave their pairs, and two
  approvals can race each other and a search. Jobs of a kind are interchangeable,
  and no property names one, so the symmetry is sound.
- *planning*: the variables are two values of a field, one that does not fit, a key
  below the field and the section above it, so that either can meet another in
  both orders; the files of layer 2 collide with each. Four origins put one beyond
  the three of wave 1, and the limits 60, 90 and 150 against 30, 60, 90 and 120
  minutes exclude none, a primary one or several, one of them at equality. Each
  bad catalog has one fault.
- *selection*: the rule of early stop needs two earlier fares and one more; a
  fourth origin makes one of them missing and the fifth is filtered. Prices are
  chosen for every side of every threshold: differences of 9, 16 and 25 against
  8, 15 and 25, equal prices of two flights and of two carriers. `MaxValid` = 5
  bounds the valid itineraries of a run: three origins with a fare, a duplicate
  and a direct flight.
- *offers*: the repeated hour is entered in its first and in its second pass at
  one end and at both; layovers are 4 to 13 half hours against a window of 6 to
  12, with and without the change of the hub's clock inside; two offers suffice
  for what a loop that keeps lists may confuse. 121 instants cover all readings.

CHECK_DEADLOCK is off in every run: in each of them the modelled computation ends
(a run returns or raises, a command exits, a pipeline is done).

The properties, each stated with its comment in its module:

- *Executor*: `PermitsConserved` (permits plus the tasks inside the semaphore is
  the limit), `BudgetIsSpentOnRetries` (`RetriesPaid`, every attempt after the
  first was paid from the budget, and `NoEarlySurrender`, a task that gave up on
  a transient error had no attempt or no budget left), `ReplayAgrees` (a ledger
  entry and the row stored for it are about the same answer), `LedgerSpec`,
  `Terminates`.
- *CachedRuns*: `NoRefetch` (what was fetched and has not expired is not asked
  for again), `AnswersKept` (a later run reports the same answer).
- *CacheRepo*: `OneThreadPerConnection`, `PutIsDurable`, `ReturnLeavesNoJob`
  (a run that returned has no statement under way when it closes),
  `GoodRowsAreLostOnlyToRaces` (a live row is deleted only by an eviction that
  had read another), `AllEnd`.
- *CliRun*: `EnvelopeNeverRefuses`, `ExitTellsTruth`, `ReportShowsFailures` (the
  failed searches are listed, and an origin without a fare shows a true reason),
  `ReasonIsMostFrequent`.
- *RunStore*: `ReadersGetWholeFiles`, `RunsAreKnownWhole` (a run that can be found
  has what its metadata announces, and one that was answered can be found),
  `DecisionsAreGrounded`, `LoneRunOwnsThePair`.
- *Config*: `SettingsFollowTheLayers` (field by field the value of the highest
  layer that sets it, against the variable-by-variable folding of the code; and
  nothing set is ignored but what another setting collides with).
- *Registry*: `CatalogsAreRefusedForCause` (the checks in the loops add up to a
  definition of sound catalogs by quantifiers; accepted ones partition).
- *Planning*: `PlanCoversEveryPair` (a plan of all origins has every pair of an origin
  within the limit and a destination once per mode, nothing else, in the order of priority, mode and destination, in waves that do not fall).
- *Selection*: `VerdictsAreGrounded` (the loop with its running minimum against
  a definition by quantifiers), `NoDuplicateOutranks`, `AnalysesQuoteTheRanking`,
  `DivergenceAgreesWithRanking`, `TablesAgree` (places are 1, 2, ... with none
  shared, and the three tables are cuts of one ranking).
- *Report*: `SummaryFitsTheRanking` (where the final summary favours the other kind
  of flight than the recommended one, a note under the table says so).
- *Offers*: `AcceptedReadsOneWay` (each reading of an accepted flight is shown
  by its clock at one instant, the one it was taken for),
  `AcceptedConnectionsHold` (the window holds between any instants the readings
  can mean), `RejectionsAreDeserved` (the rules against a definition that only
  looks at when clocks show what), `TransfersAreKept`.

Each run's module but CachedRuns has one type invariant besides; that of Executor is
proved for every run of CachedRuns (`EachRunIsSound`).

## Fairness

- Executor: weak fairness of every coroutine's own steps, of `Abort` and of
  `Return` (`LoopFairSpec`): the event loop of asyncio runs every ready callback in
  turn, sleeps end, and SQLite answers or times out. `FairSpec` adds that
  `provider.search` returns or raises; the code does not enforce this, which is
  what `executor_hang` shows. Nothing is assumed of *how* a provider answers.
- CacheRepo: threads are scheduled and a statement ends; a run with an escaped
  exception is cancelled; `Return` and `Close` happen. Nothing is assumed about
  who gets a contended lock.
- The other modules claim safety only.

## The proofs

TLAPS proves, for every value of the constants that satisfies the module's named
assumption. These are ranges, distinctness of names and finiteness; for Executor at
least one permit and one attempt; for CliRun that no rejection code is one of the
words the CLI prints in its place; for Offers that the instants considered include
every one at which a clock may show a reading that a payload has:

- **ExecutorProofs**: `TypeCorrect`, `PermitsAreConserved`, `BudgetIsWellSpent`,
  `CacheAgreesWithLedger`, and `ImplementsLedger`, that
  every Executor run is a run of TaskLedger. Permits are counted, so the proof
  works with the cardinality of the set of tasks inside the semaphore and with
  how it changes when one task enters or leaves. The invariant ties each task's
  `pc` to its attempt, outcome and row; without it nothing forbids that a task
  records an outcome twice, which is what the refinement needs.
- **CachedRunsProofs**: `SecondRunIsServed`, `AnswersAreKept` and `EachRunIsSound`
  for any number of runs and any kills. The invariant says of a task whose banked
  answer is still alive that it has a live row with that answer and is at no
  place from which the provider is asked.
- **CacheRepoProofs**: `TypeCorrect`, `LockExcludes`, `PutsAreDurable`, `QuietClose`
  and `LossesAreRaces` for any number of instances, coroutines and keys. The
  invariant relates where a coroutine is, the state of its job and who holds the
  lock. For the last one, an action property, a second part (`WritesInv`) says what
  of a row may be uncommitted where its coroutine is, also after a failed commit
  left a deletion behind, and that a readable row which may yet be deleted was put
  there by another instance.
- **CliRunProofs**: `StatusFitsEnvelope` (the two definitions of the status agree
  on every non-empty ledger), `EnvelopeIsAccepted`, `ExitCodesAreTrue`,
  `ReportsAreHonest`, `ReasonsAreMostFrequent`, `TypeCorrect`. The sums over tasks
  and offers are handled by `SumsUp`: the code's running sum of each task's counts
  is the number of pairs of task and offer with the code. Its proof, and that of
  `FirstExists` (the code's order has a first code among the most frequent ones),
  is an induction over a finite set in the form TLAPS accepts: of the subsets for
  which the claim fails, `MinimalSubset` takes one that is no longer bad when any
  element is taken out, and that one contradicts itself.
- **RunStoreProofs**: `TypeCorrect`, `FilesAreWhole`, `RunsAreWhole`,
  `DecisionsQuoteTheirRun`, `LoneRunsOwnThePair` for any number of runs and
  requests. The invariant says for each job at each of its writes which files are
  already on disk.
- **PlanningProofs**: `TypeCorrect`, `LayersAreRespected`, `CatalogsAreJudged`,
  `PlansAreComplete` for every schema, every files and every environment. The
  invariant has three parts: each leaf of the environment's tree is the last
  variable that names it, and each variable parsed so far is a leaf or was
  displaced by a later one; the loops of the registry have taken over what they
  have read, without a repetition; the tasks planned so far are the product of the
  origins planned so far, in order. That the sorted origins exist, and that the
  i-th has priority i, follows from the check that the priorities are 1 to n: n
  rows with n different priorities are a permutation, and an increasing map of
  1..n to itself is the identity. `PlansAreSelections` joins the module to Selection:
  the blocks of two modes and all destinations that each round appends are
  addressed by division and remainder, so a built plan is exactly the list that
  Selection's `Task(k)` names, with the origins within the limit, or the one asked for,
  in order as its `planned`. `FilterIsHard` is the true half of what `ground_limit`
  violates: with `--all-origins` no task starts beyond the limit.
- **SelectionProofs**: `TypeCorrect`, `VerdictsAreSound`, `DivergenceIsTrue`,
  `OnlyTiesMislead`, `DuplicatesAreOutranked`, `AnalysesAreOfTheRanking`,
  `TablesAreOneRanking` of Selection, and of Report `SummariesFit`,
  `DocumentsAreNeverRefused` and `DocumentsOnlyRead` (every run of Report is one of
  Selection). For
  the verdicts the invariant of the loop says that `prior` lists, in order, the
  earlier origins with a fare, that the running minimum is attained and a lower
  bound, and that no earlier origin triggered. The divergence theorem has a
  hypothesis of its own, `DirectIsNotMuchSlower`: no direct flight is as much
  slower than a one-stop flight to the same place as the bonus is worth. The
  analysis compares prices and scores, and with such a flight the two may order
  the pool differently; `OnlyTiesMislead` says without it that equal scores are the
  only such case.
  The other results share one invariant, `KeptInvariance`: what has been computed
  (analyses, survivors, tables) is in every later state what its definition makes
  of all that was found, and what was found fits its task. From there the argument
  is about orders. `CheaperOrders` and `PrecedesOrders` show that both keys, which
  end in the itinerary_id, order all itineraries strictly; `PlacesFollow`,
  `PlacesAreAll` and `CutPlaces` say of any strict order of a finite set that
  counting the predecessors numbers it 1 to n in order and that a cut at k leaves
  the first min(k, n); the first itinerary and the cheapest one of a pool are those
  with number 1. `OneFlightOneOrder` (two offers of one flight are scored in the
  order of their prices) is why deduplication by the price agrees with the ranking,
  and `PoolIsFound` and `TaskShape` (the arithmetic of the task list) why a pool is
  all that was found to its destination. For `SummariesFit`: the recommended flight
  is first of all that was found, a tie of scores then goes to the lower fare, and
  for a direct fare that is not the higher one the ladder always answers
  "recommended".
- **OffersProofs**: `TypeCorrect`, `ReadingsAreUnambiguous`, `ConnectionsHold`,
  `RejectionsHaveReasons`, `TransfersReachTheAppendix`, for every set of zones whose clocks change at most
  once in the days of a search. The core is the lemma `NormalReadsOneWay`: a
  reading that `classify_local_time` calls normal is shown at the instant that
  fold 0 resolves it to, and at no other; `ClassifyCounts` says that an ambiguous
  one is shown twice and a nonexistent one never. The invariant says that verdicts
  follow from the rules and legs have passed the constructors.

What is model-checked only: liveness (`Terminates`, `AllEnd`), which needs ENABLED
under fairness. Every other property of a passing run is stated by a theorem; the
ones of the runs that expect a violation are false and stay with TLC. The induction
theorems of the library are not used, as they take an operator; where a proof needs
induction, over a set or over the steps of a walk, it is in an invariant or in a
minimal counterexample.

## Disagreements found

Each is shown by a run whose one property the model violates, and quoted in
`PROJECT.json`.

1. `executor_hang`: the per-task `asyncio.timeout(20)` that the docstrings of
   `providers/errors.py` and `orchestration/executor.py` describe does not exist; a
   provider that does not answer holds the run for ever.
2. `ground_limit`: D7 (`DECISIONS.md`) and `orchestration/ground_filter.py` have a hard
   limit that is evaluated per origin before any of its tasks is planned; a run of
   one origin (`cli.py:860`) is planned without it. The trace plans an origin of 90
   minutes under a limit of 60. With `--all-origins` the limit holds
   (`FilterIsHard`).
3. `journey_rank`: `rank_by_total_journey_score` is a copy of the rank by adjusted
   score although the ground overlay makes the two scores differ. The trace has
   two origins: the itinerary from the one that is dearer to get to has the better
   adjusted score, the worse total journey score, and the first place by both.
4. `report_cheapest`: the "Cheapest Fare" of an origin is the fare of the itinerary
   with the best score.

Observations without a run of their own:

- With `--dest`, an outage of the provider leaves the command as a traceback with
  exit code 1 (`cli.py:411`), the code of "nothing validated", which the comment at
  `cli.py:132` says must never look alike. In CliRun this is `ProviderRaises`;
  `ExitTellsTruth` is about exits without a traceback.
- `results.json` publishes the placeholder rank 1 for every entry of
  `top_itineraries_by_destination`: `cli.py:981` cuts that table from the itineraries
  `rank_itineraries` has not touched, against `scoring/ranking.py:154`, by which each
  "keeps whatever its caller already computed for it globally". In Selection
  `TopOfDestination` holds `Scored` records, not `Ranked` ones.
- Where the direct search of a destination failed and its one-stop search
  returned a direct flight, the destination is NOT_AVAILABLE ("reserved for 'no
  direct service'") beside that ranked direct flight (`cli.py:711`).
- An offer in another currency ends the whole run (`normalize/builder.py:142`), and
  so does a direct itinerary under the configurable `proportional` bonus
  (`scoring/score.py:78`), because `cli.py:954` passes no reference price.
- The sentence about layovers (`cli.py:1127`) appears when a layover code is the
  most frequent, while its comment speaks of the case where it "happens to be
  true".
- A run whose `run_meta.json` could not be written has a report that is served and
  a `GET /runs/{id}` that answers 404; command-line runs in the same directory
  never have one (`api/routes_runs.py:74`).
- "Wave 1 is always the three primary airports together" does not hold when the
  ground filter excludes one of them (`orchestration/plan.py:213`).
- A flight in the second pass of a repeated hour is refused by the constructor
  with a ValueError (mappers and the mock generator drop the fold) unless both
  of its ends lie in it; only in the latter case is it rejected with
  AMBIGUOUS_LOCAL_TIME.
- An empty plan is refused by `RunEnvelope` (`domain/run.py:187`) instead of
  becoming NO_RESULTS.
- `close()` (`cache_repo.py:169`) takes no lock, though `cache_repo.py:135` speaks of a lock that
  "serializes every actual `self._connection` call": after a run that raised it may
  close a connection under a statement of an abandoned thread. After a run that
  returned there is none (`ReturnLeavesNoJob`).
- An eviction deletes by key after an await (`cache_repo.py:212`), so that it may
  delete the row another process has just put there; this is the only way to lose a
  readable row (`GoodRowsAreLostOnlyToRaces`).
- A misspelt variable is an error, unless a later one takes the place of its
  section: then it disappears silently. The same two variables in the other order
  are an error (`config/loader.py:145`).
- `layover_min_minutes` above `layover_max_minutes` is refused only when the first
  request is made (`domain/run.py:42`), and `top_n_global = 0` only when the report
  of a finished search is rendered (`reporting/markdown.py:641`).
- An origin that the ground filter excluded is shown as "origin not searched in this
  run", without the reason.
- The early-stop row says "not triggered" where exactly two fares were found and no
  comparison could be made (`reporting/markdown.py`, `_early_stop_row`).
- The final summary may favour the kind of flight that the recommended one is not,
  without a note, when the recommended flight is neither of the two fares the
  direct-flight table compares.

## What is not modelled

- Reading and parsing of files in Config and Registry: a file is the tree or the
  rows it holds. Of the settings only the kinds "number" and "text" are told apart.
- Of rendering (`reporting/`): wording, layout, clock times, door-to-door hours and
  booking links. Observability and tools: output of finished data.
- The seeded mock generator and the hashes of `domain/ids.py` and
  `persistence/keys.py`: the models have any answer of a provider, and name a key
  by its arguments.
- `get_normalized` and `put_normalized`: nothing calls them.
- Time inside a run: sleeps and searches take steps, not seconds; the tiers of
  `resolve_ttl` are a constant per task.
- The proportional bonus, FX, several legs per offer, fare brands and codeshares.
- Authentication and the schemas of the HTTP API.

## What comes next

The order of the plan so far was: executor and its ledger, cached runs, cache
threads, run status and exit codes, run store, selection, offers; then
configuration, registry and planning, the report. Next:

1. A module of operators for the pure rules at boundaries (tiers of
   `resolve_ttl`, penalty bands of layovers) against reference definitions.
2. The HTTP pipeline: authentication before any effect, the approval prompt
   against a changed run directory.
3. Proofs: an abstract specification of the cache (a row per key, lost at most to
   a race) that CacheRepo implements.
4. Planning composed with Executor: the plan it builds as the tasks of a run.
