--------------------------- MODULE ExecutorProofs ---------------------------
(***************************************************************************)
(* Theorems about Executor for every number of tasks, permits and          *)
(* attempts, every budget fraction and every content of the cache.         *)
(***************************************************************************)
EXTENDS Executor, FiniteSetTheorems, TLAPS

\* The budget int(len(tasks) * fraction) is a natural number.
LEMMA BudgetType == InitialBudget \in Nat
  <1>1. NumTasks * BudgetNumerator \in Nat
    BY ExecutorAssumption
  <1>2. \A n \in Nat, d \in Nat \ {0} : n \div d \in Nat
    OBVIOUS
  <1>. QED
    BY <1>1, <1>2, ExecutorAssumption DEF InitialBudget

\* The tasks, a range of integers, are a finite set.
LEMMA TasksFinite == IsFiniteSet(Tasks)
  BY FS_Interval, ExecutorAssumption DEF Tasks

-----------------------------------------------------------------------------
\* How Holders and Retried change with a step of one coroutine.

Inside == {"lookup", "calling", "sleeping", "storing"}

\* A coroutine that enters, leaves or stays within the semaphore's block
\* changes the number of permits in use by one, minus one or nothing.
LEMMA HoldersStep ==
    ASSUME NEW t \in Tasks, NEW place, pc \in [Tasks -> Places],
           pc' = [pc EXCEPT ![t] = place]
    PROVE  /\ Cardinality(Holders) \in Nat
           /\ pc[t] \notin Inside /\ place \in Inside =>
                Cardinality(Holders') = Cardinality(Holders) + 1
           /\ pc[t] \in Inside /\ place \notin Inside =>
                Cardinality(Holders') = Cardinality(Holders) - 1
           /\ (pc[t] \in Inside <=> place \in Inside) => Holders' = Holders
  <1>. USE DEF Holders, Inside
  <1>1. IsFiniteSet(Holders)
    BY TasksFinite, FS_Subset
  <1>2. Cardinality(Holders) \in Nat
    BY <1>1, FS_CardinalityType
  <1>3. ASSUME pc[t] \notin Inside, place \in Inside
        PROVE  Cardinality(Holders') = Cardinality(Holders) + 1
    <2>1. Holders' = Holders \cup {t} /\ t \notin Holders
      BY <1>3
    <2>. QED
      BY <2>1, <1>1, FS_AddElement
  <1>4. ASSUME pc[t] \in Inside, place \notin Inside
        PROVE  Cardinality(Holders') = Cardinality(Holders) - 1
    <2>1. Holders' = Holders \ {t} /\ t \in Holders
      BY <1>4
    <2>. QED
      BY <2>1, <1>1, FS_RemoveElement
  <1>5. (pc[t] \in Inside <=> place \in Inside) => Holders' = Holders
    OBVIOUS
  <1>. QED
    BY <1>2, <1>3, <1>4, <1>5

\* So are the retries that were paid for, whose number is what the budget counts.
LEMMA RetriedFinite == IsFiniteSet(Retried) /\ Cardinality(Retried) \in Nat
  <1>1. IsFiniteSet(1..MaxAttempts)
    BY FS_Interval, ExecutorAssumption
  <1>2. IsFiniteSet(Tasks \X (1..MaxAttempts))
    BY <1>1, TasksFinite, FS_Product
  <1>3. IsFiniteSet(Retried)
    BY <1>2, FS_Subset DEF Retried
  <1>. QED
    BY <1>3, FS_CardinalityType

\* A step that starts attempt number attempt[t] + 1 of a sleeping task, or the
\* first of a task that had none, or that moves a task that neither slept nor
\* goes to sleep, grants no retry.
LEMMA RetriedSame ==
    ASSUME NEW t \in Tasks, NEW place,
           TypeOK, PlaceConsistent,
           pc' = [pc EXCEPT ![t] = place], place # "sleeping",
           \/ pc[t] # "sleeping" /\ attempt' = attempt
           \/ pc[t] \in {"queued", "lookup"} /\ attempt' = [attempt EXCEPT ![t] = 1]
           \/ pc[t] = "sleeping" /\ attempt' = [attempt EXCEPT ![t] = @ + 1]
    PROVE  Retried' = Retried
  <1>1. attempt \in [Tasks -> 0..MaxAttempts] /\ pc \in [Tasks -> Places]
    BY DEF TypeOK
  <1>2. attempt' \in [Tasks -> Nat]
    BY <1>1, ExecutorAssumption
  <1>3. ASSUME NEW u \in Tasks, NEW k \in 1..MaxAttempts
        PROVE  (k < attempt'[u] \/ (k = attempt'[u] /\ pc'[u] = "sleeping"))
               <=> (k < attempt[u] \/ (k = attempt[u] /\ pc[u] = "sleeping"))
    <2>1. CASE u # t
      BY <2>1, <1>1
    <2>2. CASE u = t
      <3>1. pc[t] \in {"queued", "lookup"} => attempt[t] = 0
        BY DEF PlaceConsistent
      <3>. QED
        BY <2>2, <3>1, <1>1, ExecutorAssumption
    <2>. QED
      BY <2>1, <2>2
  <1>. QED
    BY <1>3 DEF Retried

\* Going to sleep grants exactly one more retry.
LEMMA RetriedMore ==
    ASSUME NEW t \in Tasks, TypeOK, PlaceConsistent, pc[t] = "calling",
           pc' = [pc EXCEPT ![t] = "sleeping"], attempt' = attempt
    PROVE  Cardinality(Retried') = Cardinality(Retried) + 1
  <1>1. attempt \in [Tasks -> 0..MaxAttempts] /\ pc \in [Tasks -> Places]
    BY DEF TypeOK
  <1>2. attempt[t] \in 1..MaxAttempts
    BY <1>1, ExecutorAssumption DEF PlaceConsistent
  <1>3. <<t, attempt[t]>> \notin Retried
    BY <1>1, <1>2 DEF Retried
  <1>4. Retried' = Retried \cup {<<t, attempt[t]>>}
    <2>1. ASSUME NEW u \in Tasks, NEW k \in 1..MaxAttempts
          PROVE  <<u, k>> \in Retried' <=>
                   <<u, k>> \in Retried \/ <<u, k>> = <<t, attempt[t]>>
      BY <1>1, <1>2 DEF Retried
    <2>. QED
      BY <2>1, <1>2 DEF Retried
  <1>. QED
    BY <1>3, <1>4, RetriedFinite, FS_AddElement

-----------------------------------------------------------------------------
\* The inductive step of IInv, one lemma per conjunct.

\* Either one coroutine moves, and only its own entries and the shared
\* counters change, or the whole run ends.
LEMMA NextCases ==
    ASSUME [Next]_vars
    PROVE  \/ \E t \in Tasks : \/ Acquire(t) \/ ServeHit(t) \/ RejectPayload(t)
                               \/ Miss(t) \/ StoreAnswer(t) \/ Wake(t)
                               \/ ProviderBug(t) \/ CacheFails(t)
                               \/ \E a \in Answers : ProviderAnswers(t, a)
                               \/ \E e \in Errors : RetryLater(t, e) \/ GiveUp(t, e)
           \/ Abort
           \/ Return
           \/ UNCHANGED vars
  BY DEF Next, CoroutineStep, ProviderStep

\* A permit is taken by Acquire, given back by an outcome or an escape, and
\* kept through every other step.
LEMMA PermitsStep ==
    ASSUME TypeOK, PermitsConserved, [Next]_vars
    PROVE  PermitsConserved' /\ permits' \in 0..MaxConcurrent
  <1>. USE DEF MoveTo, Settle, Escape, Inside
  <1>1. pc \in [Tasks -> Places] /\ permits \in 0..MaxConcurrent
    BY DEF TypeOK
  <1>2. ASSUME NEW t \in Tasks, NEW place,
               pc' = [pc EXCEPT ![t] = place],
               \/ pc[t] \notin Inside /\ place \in Inside
                    /\ permits > 0 /\ permits' = permits - 1
               \/ pc[t] \in Inside /\ place \notin Inside /\ permits' = permits + 1
               \/ pc[t] \in Inside /\ place \in Inside /\ permits' = permits
        PROVE  PermitsConserved' /\ permits' \in 0..MaxConcurrent
    <2>1. Cardinality(Holders) \in Nat /\ Cardinality(Holders') \in Nat
      BY <1>1, TasksFinite, FS_Subset, FS_CardinalityType DEF Holders
    <2>2. /\ pc[t] \notin Inside /\ place \in Inside =>
               Cardinality(Holders') = Cardinality(Holders) + 1
          /\ pc[t] \in Inside /\ place \notin Inside =>
               Cardinality(Holders') = Cardinality(Holders) - 1
          /\ pc[t] \in Inside /\ place \in Inside =>
               Cardinality(Holders') = Cardinality(Holders)
      BY <1>1, <1>2, HoldersStep
    <2>3. /\ permits + Cardinality(Holders) = MaxConcurrent
          /\ MaxConcurrent \in Nat
      BY ExecutorAssumption DEF PermitsConserved
    <2>4. permits' + Cardinality(Holders') = MaxConcurrent /\ permits' \in Nat
      BY <1>1, <1>2, <2>1, <2>2, <2>3
    <2>. QED
      BY <2>1, <2>3, <2>4 DEF PermitsConserved
  <1>3. ASSUME pc' = pc, permits' = permits
        PROVE  PermitsConserved' /\ permits' \in 0..MaxConcurrent
    BY <1>1, <1>3 DEF PermitsConserved, Holders
  <1>4. ASSUME NEW t \in Tasks, Acquire(t)
        PROVE  PermitsConserved' /\ permits' \in 0..MaxConcurrent
    BY <1>2, <1>4 DEF Acquire
  <1>5. ASSUME NEW t \in Tasks, ServeHit(t) \/ StoreAnswer(t)
        PROVE  PermitsConserved' /\ permits' \in 0..MaxConcurrent
    BY <1>2, <1>5 DEF ServeHit, StoreAnswer
  <1>6. ASSUME NEW t \in Tasks, RejectPayload(t) \/ CacheFails(t) \/ ProviderBug(t)
        PROVE  PermitsConserved' /\ permits' \in 0..MaxConcurrent
    BY <1>2, <1>6 DEF RejectPayload, CacheFails, ProviderBug
  <1>7. ASSUME NEW t \in Tasks, Miss(t) \/ Wake(t)
        PROVE  PermitsConserved' /\ permits' \in 0..MaxConcurrent
    BY <1>2, <1>7 DEF Miss, Wake
  <1>8. ASSUME NEW t \in Tasks, NEW a \in Answers, ProviderAnswers(t, a)
        PROVE  PermitsConserved' /\ permits' \in 0..MaxConcurrent
    BY <1>2, <1>8 DEF ProviderAnswers
  <1>9. ASSUME NEW t \in Tasks, NEW e \in Errors, RetryLater(t, e) \/ GiveUp(t, e)
        PROVE  PermitsConserved' /\ permits' \in 0..MaxConcurrent
    BY <1>2, <1>9 DEF RetryLater, GiveUp
  <1>10. CASE Abort \/ Return \/ UNCHANGED vars
    BY <1>3, <1>10 DEF Abort, Return, vars
  <1>. QED
    BY <1>4, <1>5, <1>6, <1>7, <1>8, <1>9, <1>10, NextCases

\* A retry slot is spent by RetryLater, together with the retry it pays for,
\* and by no other step.
LEMMA RetriesStep ==
    ASSUME IInv, [Next]_vars
    PROVE  RetriesPaid' /\ budget' \in 0..InitialBudget
  <1>. USE DEF MoveTo, Settle, Escape
  <1>1. /\ TypeOK /\ PlaceConsistent /\ RetriesPaid
        /\ pc \in [Tasks -> Places] /\ attempt \in [Tasks -> 0..MaxAttempts]
        /\ budget \in 0..InitialBudget
    BY DEF IInv, TypeOK
  <1>2. ASSUME Retried' = Retried, budget' = budget
        PROVE  RetriesPaid' /\ budget' \in 0..InitialBudget
    BY <1>1, <1>2 DEF RetriesPaid
  <1>3. ASSUME NEW t \in Tasks, Acquire(t)
        PROVE  RetriesPaid' /\ budget' \in 0..InitialBudget
    <2>1. attempt[t] = 0
      BY <1>1, <1>3 DEF PlaceConsistent, Acquire
    <2>2. attempt' = attempt \/ attempt' = [attempt EXCEPT ![t] = 1]
      BY <1>1, <1>3, <2>1, ExecutorAssumption DEF Acquire
    <2>3. Retried' = Retried
      BY <1>1, <1>3, <2>2, RetriedSame DEF Acquire
    <2>. QED
      BY <1>2, <1>3, <2>3 DEF Acquire
  <1>4. ASSUME NEW t \in Tasks,
               \/ ServeHit(t) \/ StoreAnswer(t) \/ RejectPayload(t)
               \/ CacheFails(t) \/ ProviderBug(t)
        PROVE  RetriesPaid' /\ budget' \in 0..InitialBudget
    BY <1>1, <1>2, <1>4, RetriedSame
       DEF ServeHit, StoreAnswer, RejectPayload, CacheFails, ProviderBug
  <1>5. ASSUME NEW t \in Tasks, Miss(t) \/ Wake(t)
        PROVE  RetriesPaid' /\ budget' \in 0..InitialBudget
    BY <1>1, <1>2, <1>5, RetriedSame DEF Miss, Wake
  <1>6. ASSUME NEW t \in Tasks, NEW a \in Answers, ProviderAnswers(t, a)
        PROVE  RetriesPaid' /\ budget' \in 0..InitialBudget
    BY <1>1, <1>2, <1>6, RetriedSame DEF ProviderAnswers
  <1>7. ASSUME NEW t \in Tasks, NEW e \in Errors, GiveUp(t, e)
        PROVE  RetriesPaid' /\ budget' \in 0..InitialBudget
    BY <1>1, <1>2, <1>7, RetriedSame DEF GiveUp
  <1>8. ASSUME NEW t \in Tasks, NEW e \in Errors, RetryLater(t, e)
        PROVE  RetriesPaid' /\ budget' \in 0..InitialBudget
    <2>1. Cardinality(Retried') = Cardinality(Retried) + 1
      BY <1>1, <1>8, RetriedMore DEF RetryLater
    <2>2. budget' = budget - 1 /\ budget > 0
      BY <1>8 DEF RetryLater, ShouldRetry
    <2>. QED
      BY <1>1, <2>1, <2>2, RetriedFinite, BudgetType DEF RetriesPaid
  <1>9. CASE Abort \/ Return \/ UNCHANGED vars
    BY <1>2, <1>9 DEF Abort, Return, vars, Retried
  <1>. QED
    BY <1>3, <1>4, <1>5, <1>6, <1>7, <1>8, <1>9, NextCases

\* The rows a statement may leave are rows.
LEMMA StatementResultType ==
    ASSUME TypeOK, NEW t \in Tasks
    PROVE  /\ StatementResult(t) \in Row
           /\ FreshRow(t, answer[t]) \in Row
           /\ pc[t] \notin {"lookup", "storing"} => StatementResult(t) = store[t]
  <1>1. /\ answer[t] \in Answers /\ store[t] \in Row
        /\ cacheNow \in Nat /\ Ttl[t] \in Nat
    BY ExecutorAssumption DEF TypeOK
  <1>2. FreshRow(t, answer[t]) \in Row
    BY <1>1 DEF FreshRow, Row
  <1>3. NoRow \in Row
    BY DEF NoRow, Row, Answers
  <1>. QED
    BY <1>1, <1>2, <1>3 DEF StatementResult

\* An outcome the code builds is one of TaskLedger's outcomes.
LEMMA OutcomeType ==
    ASSUME NEW state \in {"OK", "NO_OFFERS", "PROVIDER_ERROR", "RATE_LIMITED", "TIMEOUT"},
           NEW attempts \in 0..MaxAttempts, NEW cache \in {"hit", "miss", "bypass"}
    PROVE  [state |-> state, attempts |-> attempts, cache |-> cache] \in Outcomes
  BY DEF Outcomes

\* What TypeOK says of one task, in the form the steps use it.
LEMMA StateTypes ==
    /\ \A a : AnswerState(a) \in {"OK", "NO_OFFERS"}
    /\ \A e : ErrorState(e) \in {"PROVIDER_ERROR", "RATE_LIMITED", "TIMEOUT"}
    /\ CacheState \in {"miss", "bypass"}
    /\ NoOutcome \notin Outcomes
  BY DEF AnswerState, ErrorState, CacheState, NoOutcome, Outcomes

\* Types, except for the two counters, which PermitsStep and RetriesStep bound.
LEMMA TypeStep ==
    ASSUME IInv, [Next]_vars
    PROVE  TypeOK'
  <1>. USE DEF MoveTo, Settle, Escape
  <1>1. TypeOK /\ PlaceConsistent /\ PermitsConserved
    BY DEF IInv
  <1>2. permits' \in 0..MaxConcurrent /\ budget' \in 0..InitialBudget
    BY <1>1, PermitsStep, RetriesStep
  <1>3. 0 \in 0..MaxAttempts /\ 1 \in 0..MaxAttempts
    BY ExecutorAssumption
  <1>4. ASSUME NEW t \in Tasks, Acquire(t)
        PROVE  TypeOK'
    BY <1>1, <1>2, <1>3, <1>4 DEF Acquire, TypeOK, Places
  <1>5. ASSUME NEW t \in Tasks, ServeHit(t) \/ StoreAnswer(t)
        PROVE  TypeOK'
    <2>1. PICK state \in {"OK", "NO_OFFERS"}, attempts \in 0..MaxAttempts,
               cache \in {"hit", "miss", "bypass"} :
             outcome' = [outcome EXCEPT
                 ![t] = [state |-> state, attempts |-> attempts, cache |-> cache]]
      BY <1>1, <1>3, <1>5, StateTypes DEF ServeHit, StoreAnswer, TypeOK
    <2>2. outcome' \in [Tasks -> Outcomes \cup {NoOutcome}]
      BY <1>1, <2>1, OutcomeType DEF TypeOK
    <2>3. store' \in [Tasks -> Row]
      BY <1>1, <1>5, StatementResultType DEF ServeHit, StoreAnswer, TypeOK
    <2>. QED
      BY <1>1, <1>2, <1>5, <2>2, <2>3 DEF ServeHit, StoreAnswer, TypeOK, Places
  <1>6. ASSUME NEW t \in Tasks, RejectPayload(t) \/ CacheFails(t) \/ ProviderBug(t)
        PROVE  TypeOK'
    <2>1. store' \in [Tasks -> Row]
      BY <1>1, <1>6, StatementResultType
         DEF RejectPayload, CacheFails, ProviderBug, TypeOK
    <2>. QED
      BY <1>1, <1>2, <1>6, <2>1 DEF RejectPayload, CacheFails, ProviderBug, TypeOK, Places
  <1>7. ASSUME NEW t \in Tasks, Miss(t)
        PROVE  TypeOK'
    BY <1>1, <1>2, <1>3, <1>7, StatementResultType DEF Miss, TypeOK, Places
  <1>8. ASSUME NEW t \in Tasks, Wake(t)
        PROVE  TypeOK'
    <2>1. attempt[t] \in 0..MaxAttempts /\ attempt[t] < MaxAttempts
      BY <1>1, <1>8 DEF Wake, TypeOK, PlaceConsistent
    <2>2. attempt[t] + 1 \in 0..MaxAttempts
      BY <2>1, ExecutorAssumption
    <2>. QED
      BY <1>1, <1>2, <1>8, <2>2 DEF Wake, TypeOK, Places
  <1>9. ASSUME NEW t \in Tasks, NEW a \in Answers, ProviderAnswers(t, a)
        PROVE  TypeOK'
    <2>1. attempt[t] \in 0..MaxAttempts
      BY <1>1 DEF TypeOK
    <2>2. [state |-> AnswerState(a), attempts |-> attempt[t], cache |-> CacheState]
            \in Outcomes
      BY <2>1, StateTypes, OutcomeType
    <2>3. outcome' \in [Tasks -> Outcomes \cup {NoOutcome}]
      BY <1>1, <1>9, <2>2 DEF ProviderAnswers, TypeOK
    <2>. QED
      BY <1>1, <1>2, <1>9, <2>3 DEF ProviderAnswers, TypeOK, Places
  <1>10. ASSUME NEW t \in Tasks, NEW e \in Errors, RetryLater(t, e)
         PROVE  TypeOK'
    BY <1>1, <1>2, <1>10 DEF RetryLater, TypeOK, Places
  <1>11. ASSUME NEW t \in Tasks, NEW e \in Errors, GiveUp(t, e)
         PROVE  TypeOK'
    <2>1. attempt[t] \in 0..MaxAttempts
      BY <1>1 DEF TypeOK
    <2>2. [state |-> ErrorState(e), attempts |-> attempt[t], cache |-> CacheState]
            \in Outcomes
      BY <2>1, StateTypes, OutcomeType
    <2>. QED
      BY <1>1, <1>2, <1>11, <2>2 DEF GiveUp, TypeOK, Places
  <1>12. CASE Abort
    <2>1. store' \in [Tasks -> Row]
      BY <1>1, <1>12, StatementResultType DEF Abort, TypeOK
    <2>. QED
      BY <1>1, <1>2, <1>12, <2>1 DEF Abort, TypeOK
  <1>13. CASE Return \/ UNCHANGED vars
    BY <1>1, <1>2, <1>13 DEF Return, vars, TypeOK
  <1>. QED
    BY <1>4, <1>5, <1>6, <1>7, <1>8, <1>9, <1>10, <1>11, <1>12, <1>13, NextCases

\* PlaceConsistent, one task at a time.
PlaceOf(t) ==
    /\ pc[t] \in {"queued", "lookup"} => attempt[t] = 0
    /\ pc[t] \in {"calling", "sleeping", "storing"} => attempt[t] >= 1
    /\ pc[t] = "sleeping" => attempt[t] < MaxAttempts
    /\ UseCache /\ pc[t] \in {"calling", "sleeping"} => ~Live(store[t])
    /\ pc[t] = "storing" => UseCache
    /\ pc[t] = "done" <=> outcome[t] # NoOutcome

\* A step that leaves a task's own entries alone leaves PlaceOf alone.
LEMMA PlaceFrame ==
    ASSUME NEW u \in Tasks, PlaceOf(u), cacheNow' = cacheNow,
           pc'[u] = pc[u], attempt'[u] = attempt[u],
           store'[u] = store[u] \/ pc[u] \in {"lookup", "storing"},
           outcome'[u] = outcome[u]
    PROVE  PlaceOf(u)'
  BY DEF PlaceOf, Live

\* Where a coroutine stands and what it has done stay in agreement.
LEMMA PlaceStep ==
    ASSUME IInv, [Next]_vars
    PROVE  PlaceConsistent'
  <1>. USE DEF MoveTo, Settle, Escape
  <1>1. /\ TypeOK /\ \A u \in Tasks : PlaceOf(u)
        /\ pc \in [Tasks -> Places] /\ attempt \in [Tasks -> 0..MaxAttempts]
        /\ outcome \in [Tasks -> Outcomes \cup {NoOutcome}] /\ store \in [Tasks -> Row]
    BY DEF IInv, TypeOK, PlaceConsistent, PlaceOf
  <1>2. NoRow.state # "stored"
    BY DEF NoRow
  <1>3. SUFFICES ASSUME NEW u \in Tasks
                 PROVE  PlaceOf(u)'
    BY DEF PlaceConsistent, PlaceOf
  <1>4. ASSUME NEW t \in Tasks, Acquire(t)
        PROVE  PlaceOf(u)'
    <2>1. CASE u # t
      BY <1>1, <1>4, <2>1, PlaceFrame DEF Acquire
    <2>2. CASE u = t
      BY <1>1, <1>4, <2>2, ExecutorAssumption DEF Acquire, PlaceOf
    <2>. QED
      BY <2>1, <2>2
  <1>5. ASSUME NEW t \in Tasks, ServeHit(t) \/ StoreAnswer(t)
        PROVE  PlaceOf(u)'
    <2>1. CASE u # t
      BY <1>1, <1>5, <2>1, PlaceFrame DEF ServeHit, StoreAnswer
    <2>2. CASE u = t
      BY <1>1, <1>5, <2>2 DEF ServeHit, StoreAnswer, PlaceOf, NoOutcome, AnswerState
    <2>. QED
      BY <2>1, <2>2
  <1>6. ASSUME NEW t \in Tasks, RejectPayload(t) \/ CacheFails(t) \/ ProviderBug(t)
        PROVE  PlaceOf(u)'
    <2>1. CASE u # t
      BY <1>1, <1>6, <2>1, PlaceFrame DEF RejectPayload, CacheFails, ProviderBug
    <2>2. CASE u = t
      BY <1>1, <1>6, <2>2 DEF RejectPayload, CacheFails, ProviderBug, PlaceOf
    <2>. QED
      BY <2>1, <2>2
  <1>7. ASSUME NEW t \in Tasks, Miss(t)
        PROVE  PlaceOf(u)'
    <2>1. CASE u # t
      BY <1>1, <1>7, <2>1, PlaceFrame DEF Miss
    <2>2. CASE u = t
      BY <1>1, <1>2, <1>7, <2>2 DEF Miss, PlaceOf, Live, StatementResult
    <2>. QED
      BY <2>1, <2>2
  <1>8. ASSUME NEW t \in Tasks, Wake(t)
        PROVE  PlaceOf(u)'
    <2>1. CASE u # t
      BY <1>1, <1>8, <2>1, PlaceFrame DEF Wake
    <2>2. CASE u = t
      BY <1>1, <1>8, <2>2, ExecutorAssumption DEF Wake, PlaceOf, Live
    <2>. QED
      BY <2>1, <2>2
  <1>9. ASSUME NEW t \in Tasks, NEW a \in Answers, ProviderAnswers(t, a)
        PROVE  PlaceOf(u)'
    <2>1. CASE u # t
      BY <1>1, <1>9, <2>1, PlaceFrame DEF ProviderAnswers
    <2>2. CASE u = t
      BY <1>1, <1>9, <2>2 DEF ProviderAnswers, PlaceOf, NoOutcome, AnswerState
    <2>. QED
      BY <2>1, <2>2
  <1>10. ASSUME NEW t \in Tasks, NEW e \in Errors, RetryLater(t, e)
         PROVE  PlaceOf(u)'
    <2>1. CASE u # t
      BY <1>1, <1>10, <2>1, PlaceFrame DEF RetryLater
    <2>2. CASE u = t
      BY <1>1, <1>10, <2>2 DEF RetryLater, ShouldRetry, PlaceOf, Live
    <2>. QED
      BY <2>1, <2>2
  <1>11. ASSUME NEW t \in Tasks, NEW e \in Errors, GiveUp(t, e)
         PROVE  PlaceOf(u)'
    <2>1. CASE u # t
      BY <1>1, <1>11, <2>1, PlaceFrame DEF GiveUp
    <2>2. CASE u = t
      BY <1>1, <1>11, <2>2 DEF GiveUp, PlaceOf, NoOutcome, ErrorState
    <2>. QED
      BY <2>1, <2>2
  <1>12. CASE Abort
    <2>1. store'[u] = store[u] \/ pc[u] \in {"lookup", "storing"}
      BY <1>1, <1>12, StatementResultType DEF Abort
    <2>. QED
      BY <1>1, <1>12, <2>1, PlaceFrame DEF Abort
  <1>13. CASE Return \/ UNCHANGED vars
    BY <1>1, <1>13, PlaceFrame DEF Return, vars
  <1>. QED
    BY <1>4, <1>5, <1>6, <1>7, <1>8, <1>9, <1>10, <1>11, <1>12, <1>13, NextCases

\* A call of execute_plan starts sound.
LEMMA InitIInv == Init => IInv
  <1>. SUFFICES ASSUME Init PROVE IInv
    OBVIOUS
  <1>1. TypeOK
    BY ExecutorAssumption, BudgetType DEF Init, TypeOK, Places, Answers
  <1>2. PlaceConsistent
    BY DEF Init, PlaceConsistent
  <1>3. Holders = {} /\ Retried = {}
    BY ExecutorAssumption DEF Init, Holders, Retried
  <1>4. PermitsConserved /\ RetriesPaid
    BY <1>3, FS_EmptySet, ExecutorAssumption, BudgetType
       DEF Init, PermitsConserved, RetriesPaid
  <1>. QED
    BY <1>1, <1>2, <1>4 DEF IInv

\* Every step of a call, of any task, keeps the invariant.
LEMMA NextIInv == IInv /\ [Next]_vars => IInv'
  BY TypeStep, PlaceStep, PermitsStep, RetriesStep DEF IInv

\* The inductive invariant.
THEOREM Invariance == Spec => []IInv
  BY InitIInv, NextIInv, PTL DEF Spec

-----------------------------------------------------------------------------
\* The properties.

\* No task makes more than max_attempts provider calls, the retry budget never
\* goes negative, and every variable keeps to its range.
THEOREM TypeCorrect == Spec => []TypeOK
  <1>1. IInv => TypeOK
    BY DEF IInv
  <1>. QED
    BY <1>1, Invariance, PTL

\* Every way out of the semaphore gives its permit back exactly once.
THEOREM PermitsAreConserved == Spec => []PermitsConserved
  <1>1. IInv => PermitsConserved
    BY DEF IInv
  <1>. QED
    BY <1>1, Invariance, PTL

\* The run-wide retry cap: every retry of any task is paid for once.
LEMMA RetriesArePaid == Spec => []RetriesPaid
  <1>1. IInv => RetriesPaid
    BY DEF IInv
  <1>. QED
    BY <1>1, Invariance, PTL

\* A task gives up on a transient error only with its attempts used up or the
\* shared budget empty, and an empty budget stays empty.
LEMMA SurrenderOnlyWhenSpent == Spec => []NoEarlySurrender
  <1>. USE DEF MoveTo, Settle, Escape
  <1>1. Init => NoEarlySurrender
    BY DEF Init, NoEarlySurrender, NoOutcome
  <1>2. ASSUME IInv, NoEarlySurrender, [Next]_vars
        PROVE  NoEarlySurrender'
    <2>1. /\ budget \in Nat /\ attempt \in [Tasks -> 0..MaxAttempts]
          /\ outcome \in [Tasks -> Outcomes \cup {NoOutcome}]
      BY <1>2, BudgetType DEF IInv, TypeOK
    <2>2. ASSUME budget' = budget \/ (budget > 0 /\ budget' = budget - 1),
                 NEW t \in Tasks, \A u \in Tasks \ {t} : outcome'[u] = outcome[u],
                 outcome'[t].state \in {"RATE_LIMITED", "TIMEOUT"} =>
                   \/ outcome'[t] = outcome[t]
                   \/ outcome'[t].attempts = MaxAttempts \/ budget' = 0
          PROVE  NoEarlySurrender'
      BY <1>2, <2>1, <2>2 DEF NoEarlySurrender
    <2>3. ASSUME budget' = budget, outcome' = outcome
          PROVE  NoEarlySurrender'
      BY <1>2, <2>3 DEF NoEarlySurrender
    <2>4. ASSUME NEW t \in Tasks, ServeHit(t) \/ StoreAnswer(t)
          PROVE  NoEarlySurrender'
      BY <2>1, <2>2, <2>4 DEF ServeHit, StoreAnswer, AnswerState
    <2>5. ASSUME NEW t \in Tasks, NEW a \in Answers, ProviderAnswers(t, a)
          PROVE  NoEarlySurrender'
      BY <2>1, <2>2, <2>5 DEF ProviderAnswers, AnswerState
    <2>6. ASSUME NEW t \in Tasks, NEW e \in Errors, RetryLater(t, e)
          PROVE  NoEarlySurrender'
      BY <2>1, <2>2, <2>6 DEF RetryLater, ShouldRetry
    <2>7. ASSUME NEW t \in Tasks, NEW e \in Errors, GiveUp(t, e)
          PROVE  NoEarlySurrender'
      <3>1. attempt[t] \in 0..MaxAttempts
        BY <2>1
      <3>2. ErrorState(e) \in {"RATE_LIMITED", "TIMEOUT"} =>
              attempt[t] = MaxAttempts \/ budget = 0
        BY <2>1, <2>7, <3>1, ExecutorAssumption
           DEF GiveUp, ShouldRetry, ErrorState, Transient, Errors
      <3>3. /\ budget' = budget
            /\ \A u \in Tasks \ {t} : outcome'[u] = outcome[u]
            /\ outcome'[t].state = ErrorState(e)
            /\ outcome'[t].attempts = attempt[t]
        BY <2>1, <2>7 DEF GiveUp
      <3>. QED
        BY <2>2, <3>2, <3>3
    <2>8. ASSUME NEW t \in Tasks,
                 \/ Acquire(t) \/ RejectPayload(t) \/ Miss(t) \/ Wake(t)
                 \/ ProviderBug(t) \/ CacheFails(t)
          PROVE  NoEarlySurrender'
      BY <2>3, <2>8 DEF Acquire, RejectPayload, Miss, Wake, ProviderBug, CacheFails
    <2>9. CASE Abort \/ Return \/ UNCHANGED vars
      BY <2>3, <2>9 DEF Abort, Return, vars
    <2>. QED
      BY <1>2, <2>4, <2>5, <2>6, <2>7, <2>8, <2>9, NextCases
  <1>. QED
    BY <1>1, <1>2, Invariance, PTL DEF Spec

\* The shared budget pays every retry of any task and nothing else, and no task
\* gives up on a transient error while it and its own attempts last.
THEOREM BudgetIsWellSpent == Spec => []BudgetIsSpentOnRetries
  <1>1. RetriesPaid /\ NoEarlySurrender => BudgetIsSpentOnRetries
    BY DEF BudgetIsSpentOnRetries
  <1>. QED
    BY <1>1, RetriesArePaid, SurrenderOnlyWhenSpent, PTL

\* A done task's row replays its answer, and a failed task left no live row.
THEOREM CacheAgreesWithLedger == Spec => []ReplayAgrees
  <1>. USE DEF MoveTo, Settle, Escape
  <1>1. Init => ReplayAgrees
    BY DEF Init, ReplayAgrees
  <1>2. ASSUME IInv, ReplayAgrees, [Next]_vars
        PROVE  ReplayAgrees'
    <2>. DEFINE Agrees(u) == pc[u] = "done" =>
                               IF outcome[u].state \in {"OK", "NO_OFFERS"}
                               THEN /\ store[u].state = "stored"
                                    /\ AnswerState(store[u].payload) = outcome[u].state
                               ELSE ~Live(store[u])
    <2>1. /\ pc \in [Tasks -> Places] /\ store \in [Tasks -> Row]
          /\ outcome \in [Tasks -> Outcomes \cup {NoOutcome}]
          /\ UseCache => \A u \in Tasks : pc[u] \in {"calling", "sleeping"} => ~Live(store[u])
          /\ UseCache => \A u \in Tasks : Agrees(u)
      BY <1>2 DEF IInv, TypeOK, PlaceConsistent, ReplayAgrees
    <2>2. SUFFICES ASSUME UseCache, NEW u \in Tasks
                   PROVE  Agrees(u)'
      BY DEF ReplayAgrees
    <2>3. cacheNow' = cacheNow
      BY <1>2, NextCases DEF Acquire, ServeHit, RejectPayload, Miss, StoreAnswer, Wake,
         ProviderBug, CacheFails, ProviderAnswers, RetryLater, GiveUp, Abort, Return, vars
    <2>4. ASSUME pc'[u] = pc[u], outcome'[u] = outcome[u],
                 store'[u] = store[u] \/ pc[u] # "done"
          PROVE  Agrees(u)'
      BY <2>1, <2>2, <2>3, <2>4 DEF Live
    <2>5. ASSUME pc'[u] # "done"
          PROVE  Agrees(u)'
      BY <2>5
    <2>6. ASSUME NEW t \in Tasks, ServeHit(t) \/ StoreAnswer(t)
          PROVE  Agrees(u)'
      <3>1. CASE u # t
        BY <2>1, <2>4, <2>6, <3>1 DEF ServeHit, StoreAnswer
      <3>2. CASE u = t
        BY <2>1, <2>6, <3>2 DEF ServeHit, StoreAnswer, Live, FreshRow, AnswerState
      <3>. QED
        BY <3>1, <3>2
    <2>7. ASSUME NEW t \in Tasks, NEW e \in Errors, GiveUp(t, e)
          PROVE  Agrees(u)'
      <3>1. CASE u # t
        BY <2>1, <2>4, <2>7, <3>1 DEF GiveUp
      <3>2. CASE u = t
        BY <2>1, <2>2, <2>7, <3>2 DEF GiveUp, Live, ErrorState
      <3>. QED
        BY <3>1, <3>2
    <2>8. ASSUME NEW t \in Tasks,
                 \/ Acquire(t) \/ RejectPayload(t) \/ Miss(t) \/ Wake(t)
                 \/ ProviderBug(t) \/ CacheFails(t)
                 \/ \E a \in Answers : ProviderAnswers(t, a)
                 \/ \E e \in Errors : RetryLater(t, e)
          PROVE  Agrees(u)'
      <3>1. CASE u # t
        BY <2>1, <2>2, <2>4, <2>8, <3>1
           DEF Acquire, RejectPayload, Miss, Wake, ProviderBug, CacheFails,
               ProviderAnswers, RetryLater
      <3>2. CASE u = t
        BY <2>1, <2>2, <2>5, <2>8, <3>2
           DEF Acquire, RejectPayload, Miss, Wake, ProviderBug, CacheFails,
               ProviderAnswers, RetryLater
      <3>. QED
        BY <3>1, <3>2
    <2>9. CASE Abort
      <3>1. store'[u] = store[u] \/ pc[u] # "done"
        BY <1>2, <2>9, StatementResultType DEF Abort, IInv
      <3>. QED
        BY <2>4, <2>9, <3>1 DEF Abort
    <2>10. CASE Return \/ UNCHANGED vars
      BY <2>4, <2>10 DEF Return, vars
    <2>. QED
      BY <1>2, <2>6, <2>7, <2>8, <2>9, <2>10, NextCases
  <1>. QED
    BY <1>1, <1>2, Invariance, PTL DEF Spec

\* execute_plan implements TaskLedger: each task's outcome is recorded once
\* and never revised, a returned ledger is total, and an escaped exception
\* yields no ledger.
THEOREM ImplementsLedger == Spec => LedgerSpec
  <1>. USE DEF MoveTo, Settle, Escape
  <1>1. Init => Ledger!Init
    BY DEF Init, Ledger!Init
  <1>2. ASSUME IInv, [Next]_vars
        PROVE  [Ledger!Next]_(Ledger!ledgerVars)
    <2>. USE DEF Ledger!Next, Ledger!ledgerVars
    <2>1. /\ outcome \in [Tasks -> Outcomes \cup {NoOutcome}]
          /\ outcome' \in [Tasks -> Outcomes \cup {NoOutcome}]
          /\ phase \in {"running", "returned", "raised"}
          /\ \A t \in Tasks : pc[t] = "done" <=> outcome[t] # NoOutcome
          /\ \A t \in Tasks : pc'[t] = "done" <=> outcome'[t] # NoOutcome
          /\ pc \in [Tasks -> Places]
      BY <1>2, NextIInv DEF IInv, TypeOK, PlaceConsistent
    <2>2. ASSUME NEW t \in Tasks, NEW o, phase = "running", phase' = phase,
                 pc[t] # "done", pc' = [pc EXCEPT ![t] = "done"],
                 outcome' = [outcome EXCEPT ![t] = o]
          PROVE  Ledger!Record(t)
      <3>1. outcome'[t] \in Outcomes /\ outcome'[t] = o
        BY <2>1, <2>2
      <3>. QED
        BY <2>1, <2>2, <3>1 DEF Ledger!Record
    <2>3. ASSUME phase' = phase, outcome' = outcome
          PROVE  UNCHANGED Ledger!ledgerVars
      BY <2>3
    <2>4. ASSUME NEW t \in Tasks, ServeHit(t) \/ StoreAnswer(t)
          PROVE  Ledger!Record(t)
      BY <2>2, <2>4 DEF ServeHit, StoreAnswer
    <2>5. ASSUME NEW t \in Tasks, NEW a \in Answers, ProviderAnswers(t, a)
          PROVE  Ledger!Record(t) \/ UNCHANGED Ledger!ledgerVars
      BY <2>2, <2>3, <2>5 DEF ProviderAnswers
    <2>6. ASSUME NEW t \in Tasks, NEW e \in Errors, GiveUp(t, e)
          PROVE  Ledger!Record(t)
      BY <2>2, <2>6 DEF GiveUp
    <2>7. ASSUME NEW t \in Tasks,
                 \/ Acquire(t) \/ RejectPayload(t) \/ Miss(t) \/ Wake(t)
                 \/ ProviderBug(t) \/ CacheFails(t)
                 \/ \E e \in Errors : RetryLater(t, e)
          PROVE  UNCHANGED Ledger!ledgerVars
      BY <2>3, <2>7
         DEF Acquire, RejectPayload, Miss, Wake, ProviderBug, CacheFails, RetryLater
    <2>8. CASE Abort
      BY <2>8 DEF Abort, Ledger!Raise
    <2>9. CASE Return
      BY <2>1, <2>9 DEF Return, Ledger!Return
    <2>10. CASE UNCHANGED vars
      BY <2>3, <2>10 DEF vars
    <2>. QED
      BY <1>2, <2>4, <2>5, <2>6, <2>7, <2>8, <2>9, <2>10, NextCases
  <1>. QED
    BY <1>1, <1>2, Invariance, PTL DEF Spec, LedgerSpec, Ledger!Spec
=============================================================================
