-------------------------- MODULE CachedRunsProofs --------------------------
(***************************************************************************)
(* Theorems about CachedRuns for every number of tasks and runs, every     *)
(* setting of a run and every content the cache file had at first.         *)
(***************************************************************************)
EXTENDS CachedRuns, ExecutorProofs

\* NoRefetch and AnswersKept of one task.
Replays(u) ==
    /\ u \in Fetched => RowKept(u, outcome[u].state, cacheNow)
    /\ Due(u) => /\ RowKept(u, banked[u].state, banked[u].at)
                 /\ pc[u] \notin {"calling", "sleeping", "storing"}
                 /\ pc[u] = "done" =>
                      outcome[u] = [state |-> banked[u].state, attempts |-> 0,
                                    cache |-> "hit"]

\* NoRefetch and AnswersKept, gathered per task.
LEMMA ReplaysForm == NoRefetch /\ AnswersKept <=> \A u \in Tasks : Replays(u)
  BY DEF NoRefetch, AnswersKept, Replays

\* A statement under way for a task never touches the row of an answer: the
\* task of a fetched answer is done, and one that is due only looks its row up.
LEMMA StatementsHarmless ==
    ASSUME IInv, NEW u \in Tasks, Replays(u), u \in Fetched \/ Due(u)
    PROVE  StatementResult(u) = store[u]
  <1>1. TypeOK /\ PlaceConsistent
    BY DEF IInv
  <1>2. u \in Fetched => pc[u] = "done"
    BY <1>1 DEF PlaceConsistent, Fetched, NoOutcome
  <1>. QED
    BY <1>2 DEF Replays, RowKept, StatementResult

\* A step that leaves a task's own entries alone, its row apart, and its row
\* too unless a statement is under way for it.
LEMMA ReplaysFrame ==
    ASSUME IInv, NEW u \in Tasks, Replays(u),
           cacheNow' = cacheNow, banked' = banked, outcome'[u] = outcome[u],
           pc'[u] = pc[u] \/ pc'[u] = "escaped" \/ (pc[u] = "queued" /\ pc'[u] = "lookup"),
           store'[u] = store[u] \/ store'[u] = StatementResult(u)
    PROVE  Replays(u)'
  <1>1. u \in Fetched \/ Due(u) => store'[u] = store[u]
    BY StatementsHarmless
  <1>2. u \in Fetched' <=> u \in Fetched
    BY DEF Fetched
  <1>3. Due(u)' <=> Due(u)
    BY DEF Due
  <1>. QED
    BY <1>1, <1>2, <1>3 DEF Replays, RowKept

\* A step of the run in progress.
LEMMA ReplaysStep ==
    ASSUME IInv, NEW u \in Tasks, Replays(u), [Next]_vars, banked' = banked
    PROVE  Replays(u)'
  <1>. USE DEF MoveTo, Settle, Escape
  <1>1. /\ UseCache /\ TypeOK
        /\ pc \in [Tasks -> Places] /\ store \in [Tasks -> Row]
        /\ outcome \in [Tasks -> Outcomes \cup {NoOutcome}]
        /\ answer \in [Tasks -> Answers]
    BY CachedRunsAssumption DEF IInv, TypeOK
  <1>2. ASSUME NEW t \in Tasks, Acquire(t) \/ RejectPayload(t) \/ ProviderBug(t)
        PROVE  Replays(u)'
    BY <1>1, <1>2, ReplaysFrame DEF Acquire, RejectPayload, ProviderBug
  <1>3. ASSUME NEW t \in Tasks, CacheFails(t)
        PROVE  Replays(u)'
    BY <1>1, <1>3, ReplaysFrame DEF CacheFails
  <1>4. CASE Abort
    BY <1>1, <1>4, ReplaysFrame DEF Abort
  <1>5. CASE Return \/ UNCHANGED vars
    BY <1>5, ReplaysFrame DEF Return, vars
  <1>6. ASSUME NEW t \in Tasks, t # u,
               \/ ServeHit(t) \/ Miss(t) \/ StoreAnswer(t) \/ Wake(t)
               \/ \E a \in Answers : ProviderAnswers(t, a)
               \/ \E e \in Errors : RetryLater(t, e) \/ GiveUp(t, e)
        PROVE  Replays(u)'
    BY <1>1, <1>6, ReplaysFrame
       DEF ServeHit, Miss, StoreAnswer, Wake, ProviderAnswers, RetryLater, GiveUp
  <1>7. CASE ServeHit(u)
    <2>1. /\ cacheNow' = cacheNow /\ store' = store /\ pc'[u] = "done"
          /\ outcome'[u] = [state |-> AnswerState(store[u].payload), attempts |-> 0,
                            cache |-> "hit"]
      BY <1>1, <1>7 DEF ServeHit
    <2>2. u \notin Fetched'
      BY <2>1 DEF Fetched
    <2>. QED
      BY <2>1, <2>2 DEF Replays, Due, RowKept
  <1>8. CASE StoreAnswer(u)
    <2>1. /\ cacheNow' = cacheNow /\ pc[u] = "storing"
          /\ store'[u] = FreshRow(u, answer[u])
          /\ outcome'[u].state = AnswerState(answer[u])
      BY <1>1, <1>8 DEF StoreAnswer
    <2>2. ~Due(u)' /\ (u \in Fetched' => RowKept(u, outcome[u].state, cacheNow)')
      BY <1>1, <2>1 DEF Replays, Due, RowKept, FreshRow
    <2>. QED
      BY <2>2 DEF Replays
  <1>9. ASSUME NEW e \in Errors, GiveUp(u, e)
        PROVE  Replays(u)'
    <2>1. /\ cacheNow' = cacheNow /\ pc[u] = "calling"
          /\ outcome'[u].state = ErrorState(e)
      BY <1>1, <1>9 DEF GiveUp
    <2>2. ~Due(u)' /\ u \notin Fetched'
      BY <2>1, StateTypes DEF Replays, Due, Fetched
    <2>. QED
      BY <2>2 DEF Replays
  <1>10. CASE \/ Miss(u) \/ Wake(u)
              \/ \E a \in Answers : ProviderAnswers(u, a)
              \/ \E e \in Errors : RetryLater(u, e)
    <2>1. ~Due(u)
      BY <1>10 DEF Miss, Wake, ProviderAnswers, RetryLater, Live, Due, Replays, RowKept
    <2>2. /\ cacheNow' = cacheNow /\ outcome' = outcome
          /\ pc[u] \in {"lookup", "calling", "sleeping"}
      BY <1>1, <1>10 DEF Miss, Wake, ProviderAnswers, RetryLater
    <2>3. u \notin Fetched'
      BY <2>2 DEF Fetched, IInv, PlaceConsistent, NoOutcome
    <2>. QED
      BY <2>1, <2>2, <2>3 DEF Replays, Due
  <1>. QED
    BY <1>2, <1>3, <1>4, <1>5, <1>6, <1>7, <1>8, <1>9, <1>10, NextCases

-----------------------------------------------------------------------------
\* The next run starts in a state of Executor's Init but for the rows.

LEMMA StartRunTypes ==
    ASSUME RunsIInv, NEW now \in cacheNow..MaxTime, StartRun(now)
    PROVE  /\ IInv'
           /\ RunsTypeOK'
           /\ \A u \in Tasks : store'[u] = store[u] \/ store'[u] = StatementResult(u)
  <1>1. /\ TypeOK /\ cacheNow \in Nat /\ store \in [Tasks -> Row]
        /\ banked \in [Tasks -> Banked] /\ runs \in Nat
    BY DEF RunsIInv, RunsTypeOK, TypeOK
  <1>2. now \in Nat
    BY <1>1
  <1>3. \A u \in Tasks : StatementResult(u) \in Row
    BY <1>1, StatementResultType
  <1>4. /\ store' \in [Tasks -> Row]
        /\ \A u \in Tasks : store'[u] = store[u] \/ store'[u] = StatementResult(u)
    <2>1. CASE phase = "running"
      BY <1>1, <1>3, <2>1 DEF StartRun
    <2>2. CASE phase # "running"
      BY <1>1, <2>2 DEF StartRun
    <2>. QED
      BY <2>1, <2>2
  <1>5. TypeOK'
    BY <1>2, <1>4, ExecutorAssumption, BudgetType
       DEF StartRun, FreshRun, TypeOK, Places, Answers
  <1>6. PlaceConsistent'
    BY DEF StartRun, FreshRun, PlaceConsistent
  <1>7. Holders' = {} /\ Retried' = {}
    BY ExecutorAssumption DEF StartRun, FreshRun, Holders, Retried
  <1>8. PermitsConserved' /\ RetriesPaid'
    BY <1>7, FS_EmptySet, ExecutorAssumption, BudgetType
       DEF StartRun, FreshRun, PermitsConserved, RetriesPaid
  <1>9. banked' \in [Tasks -> Banked]
    BY <1>1 DEF StartRun, Banked, Fetched
  <1>10. runs' \in Nat
    BY <1>1 DEF StartRun
  <1>. QED
    BY <1>4, <1>5, <1>6, <1>8, <1>9, <1>10 DEF IInv, RunsTypeOK

\* An answer of the run before becomes a banked one, and its row is the same.
LEMMA StartRunReplays ==
    ASSUME RunsIInv, NEW now \in cacheNow..MaxTime, StartRun(now), NEW u \in Tasks
    PROVE  Replays(u)'
  <1>1. /\ IInv /\ Replays(u)
        /\ cacheNow \in Nat /\ Ttl[u] \in Nat /\ now \in Nat /\ now >= cacheNow
        /\ banked[u] \in Banked
    BY ReplaysForm, ExecutorAssumption DEF RunsIInv, RunsTypeOK, TypeOK
  <1>2. /\ pc'[u] = "queued" /\ outcome'[u] = NoOutcome /\ cacheNow' = now
        /\ store'[u] = store[u] \/ store'[u] = StatementResult(u)
    BY StartRunTypes DEF StartRun, FreshRun
  <1>3. u \notin Fetched'
    BY <1>2 DEF Fetched, NoOutcome
  <1>4. ASSUME Due(u)'
        PROVE  RowKept(u, banked[u].state, banked[u].at)'
    <2>1. CASE u \in Fetched
      <3>1. store'[u] = store[u]
        BY <1>1, <1>2, <2>1, StatementsHarmless
      <3>2. banked'[u] = [state |-> outcome[u].state, at |-> cacheNow]
        BY <2>1 DEF StartRun
      <3>. QED
        BY <1>1, <2>1, <3>1, <3>2 DEF Replays, RowKept
    <2>2. CASE u \notin Fetched
      <3>1. banked'[u] = banked[u]
        BY <2>2 DEF StartRun
      <3>2. Due(u)
        BY <1>1, <1>2, <1>4, <3>1 DEF Due, Banked, NothingBanked
      <3>3. store'[u] = store[u]
        BY <1>1, <1>2, <3>2, StatementsHarmless
      <3>. QED
        BY <1>1, <3>1, <3>2, <3>3 DEF Replays, RowKept
    <2>. QED
      BY <2>1, <2>2
  <1>. QED
    BY <1>2, <1>3, <1>4 DEF Replays

\* The first run starts with nothing recorded and an empty cache.
LEMMA RunsInitIInv == RunsInit => RunsIInv
  <1>. SUFFICES ASSUME RunsInit PROVE RunsIInv
    OBVIOUS
  <1>1. IInv
    BY InitIInv DEF RunsInit
  <1>2. RunsTypeOK
    BY <1>1 DEF RunsInit, RunsTypeOK, IInv, Banked
  <1>3. \A u \in Tasks : Replays(u)
    BY DEF RunsInit, Init, Replays, Fetched, Due, NoOutcome
  <1>. QED
    BY <1>1, <1>2, <1>3, ReplaysForm DEF RunsIInv

\* A step of a run and the start of the next one both keep the invariant.
LEMMA RunsNextIInv == RunsIInv /\ [RunsNext]_runVars => RunsIInv'
  <1>. SUFFICES ASSUME RunsIInv, [RunsNext]_runVars PROVE RunsIInv'
    OBVIOUS
  <1>1. ASSUME [Next]_vars, UNCHANGED <<runs, banked>>
        PROVE  RunsIInv'
    <2>1. IInv'
      BY <1>1, NextIInv DEF RunsIInv
    <2>2. RunsTypeOK'
      BY <1>1, <2>1 DEF RunsIInv, RunsTypeOK, IInv
    <2>3. \A u \in Tasks : Replays(u)'
      BY <1>1, ReplaysStep, ReplaysForm DEF RunsIInv
    <2>. QED
      BY <2>1, <2>2, <2>3, ReplaysForm DEF RunsIInv, NoRefetch, AnswersKept, Replays
  <1>2. ASSUME NEW now \in cacheNow..MaxTime, StartRun(now)
        PROVE  RunsIInv'
    BY <1>2, StartRunTypes, StartRunReplays
       DEF RunsIInv, NoRefetch, AnswersKept, Replays
  <1>. QED
    BY <1>1, <1>2 DEF RunsNext, RunStep, runVars

\* Through any sequence of runs, finished or not, the invariant holds.
THEOREM RunsInvariance == RunsSpec => []RunsIInv
  BY RunsInitIInv, RunsNextIInv, PTL DEF RunsSpec

\* No run asks the provider for an answer that an earlier run fetched and that
\* is still alive: "second identical run issues 0 provider calls" task by task.
THEOREM SecondRunIsServed == RunsSpec => []NoRefetch
  <1>1. RunsIInv => NoRefetch
    BY DEF RunsIInv
  <1>. QED
    BY <1>1, RunsInvariance, PTL

\* An answer's row outlives the run that wrote it, however that run ended.
THEOREM AnswersAreKept == RunsSpec => []AnswersKept
  <1>1. RunsIInv => AnswersKept
    BY DEF RunsIInv
  <1>. QED
    BY <1>1, RunsInvariance, PTL

\* Within each run of the sequence the executor's own invariant still holds.
THEOREM EachRunIsSound == RunsSpec => [](RunsTypeOK /\ PermitsConserved /\ RetriesPaid)
  <1>1. RunsIInv => RunsTypeOK /\ PermitsConserved /\ RetriesPaid
    BY DEF RunsIInv, IInv
  <1>. QED
    BY <1>1, RunsInvariance, PTL
=============================================================================
