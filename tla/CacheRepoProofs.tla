-------------------------- MODULE CacheRepoProofs ---------------------------
(***************************************************************************)
(* Theorems about CacheRepo for any number of instances, keys and worker   *)
(* threads and any content of the file.                                    *)
(***************************************************************************)
EXTENDS CacheRepo, TLAPS

\* What TypeOK says of one caller, conjunct by conjunct.
LEMMA CallerParts ==
    \A c \in Callers : RepoOf(c) \in Repos /\ KeyOf(c) \in Keys /\ c # Free
  BY CacheRepoAssumption DEF RepoOf, KeyOf, Free

\* What a connection reads of a key is a row.
LEMMA ViewType ==
    ASSUME TypeOK, NEW r \in Repos, NEW k \in Keys
    PROVE  View(r, k) \in Rows
  <1>1. pending[r][k] \in Writes /\ rows[k] \in Rows
    BY DEF TypeOK
  <1>. QED
    BY <1>1 DEF View, Writes

\* The entries of one coroutine or one instance are all a step changes.
LEMMA NextCases ==
    ASSUME [Next]_vars
    PROVE  \/ \E c \in Callers : \/ Enter(c) \/ Select(c) \/ Write(c) \/ Commit(c)
                                 \/ ExecuteRaises(c) \/ CommitRaises(c)
                                 \/ Coroutine(c)
           \/ \E r \in Repos : Cancel(r) \/ Return(r) \/ Close(r)
           \/ UNCHANGED vars
  BY DEF Next, Worker

\* What every step of a coroutine on the event loop has in common.
LEMMA CoroutineCases ==
    ASSUME NEW c \in Callers, Coroutine(c)
    PROVE  \E next \in Places, submitted \in {"none", "submitted"} :
             /\ GoesTo(c, next, submitted)
             /\ submitted = "submitted" => next \in {"selecting", "evicting", "upserting"}
             /\ next = "stored" => place[c] = "upserting" /\ job[c] = "ok"
  <1>1. CASE Lookup(c) \/ Evict(c) \/ Put(c)
    BY <1>1 DEF Lookup, Evict, Put, Places
  <1>2. CASE Hit(c) \/ Miss(c) \/ Evicted(c) \/ Fail(c) \/ Escape(c)
    BY <1>2 DEF Hit, Miss, Evicted, Fail, Escape, Places
  <1>3. CASE Stored(c)
    BY <1>3 DEF Stored, Places
  <1>. QED
    BY <1>1, <1>2, <1>3 DEF Coroutine

\* Every step of the repository keeps the types.
LEMMA TypeStep ==
    ASSUME TypeOK, [Next]_vars
    PROVE  TypeOK'
  <1>. USE DEF TypeOK, JobMovesTo
  <1>1. ASSUME NEW c \in Callers, Enter(c) \/ ExecuteRaises(c)
        PROVE  TypeOK'
    <2>1. lock' \in [Repos -> Callers \cup {Free}]
      BY <1>1 DEF Enter, ExecuteRaises
    <2>2. job' \in [Callers -> JobStates]
      BY <1>1 DEF Enter, ExecuteRaises, JobStates
    <2>. QED
      BY <1>1, <2>1, <2>2 DEF Enter, ExecuteRaises
  <1>9. ASSUME NEW c \in Callers, Select(c)
        PROVE  TypeOK'
    <2>1. View(RepoOf(c), KeyOf(c)) \in Rows
      BY CallerParts, ViewType
    <2>. QED
      BY <1>9, <2>1, CallerParts DEF Select, JobStates
  <1>2. ASSUME NEW c \in Callers, Write(c)
        PROVE  TypeOK'
    <2>1. Written(c) \in Writes
      BY DEF Written, Writes, Rows
    <2>2. pending' \in [Repos -> [Keys -> Writes]]
      BY <1>2, <2>1, CallerParts DEF Write
    <2>. QED
      BY <1>2, <2>2 DEF Write, JobStates
  <1>3. ASSUME NEW c \in Callers, Commit(c)
        PROVE  TypeOK'
    <2>1. NoWrites \in [Keys -> Writes]
      BY DEF NoWrites, Writes
    <2>2. rows' \in [Keys -> Rows]
      BY <1>3, CallerParts, ViewType DEF Commit
    <2>. QED
      BY <1>3, <2>1, <2>2, CallerParts DEF Commit, JobStates
  <1>4. ASSUME NEW c \in Callers, CommitRaises(c)
        PROVE  TypeOK'
    <2>1. NoWrites \in [Keys -> Writes]
      BY DEF NoWrites, Writes
    <2>2. pending' \in [Repos -> [Keys -> Writes]]
      BY <1>4, <2>1, CallerParts DEF CommitRaises
    <2>. QED
      BY <1>4, <2>2, CallerParts DEF CommitRaises, JobStates
  <1>5. ASSUME NEW c \in Callers, Coroutine(c)
        PROVE  TypeOK'
    <2>1. PICK next \in Places, submitted \in {"none", "submitted"} :
            GoesTo(c, next, submitted)
      BY <1>5, CoroutineCases
    <2>. QED
      BY <2>1 DEF GoesTo, JobStates
  <1>6. ASSUME NEW r \in Repos, Cancel(r)
        PROVE  TypeOK'
    BY <1>6 DEF Cancel, JobStates
  <1>7. ASSUME NEW r \in Repos, Return(r) \/ Close(r)
        PROVE  TypeOK'
    <2>1. NoWrites \in [Keys -> Writes]
      BY DEF NoWrites, Writes
    <2>. QED
      BY <1>7, <2>1 DEF Return, Close
  <1>8. CASE UNCHANGED vars
    BY <1>8 DEF vars
  <1>. QED
    BY <1>1, <1>2, <1>3, <1>4, <1>5, <1>6, <1>7, <1>8, <1>9, NextCases

\* The conjuncts of IInv about the statement of one coroutine.
JobSound(c) ==
    /\ job[c] \in {"inside", "executed"} => lock[RepoOf(c)] = c
    /\ place[c] = "stored" => c \in durable
    /\ place[c] \notin {"selecting", "evicting", "upserting"} => job[c] = "none"
    /\ job[c] = "executed" => place[c] \in {"evicting", "upserting"}
    /\ place[c] = "upserting" /\ job[c] = "ok" => c \in durable
    /\ run[RepoOf(c)] = "returned" => place[c] \in {"hit", "stored", "failed"}

\* IInv, with its quantified parts gathered per caller.
LEMMA IInvForm == IInv <=> TypeOK /\ \A c \in Callers : JobSound(c)
  <1>1. OneThreadPerConnection <=>
          \A c \in Callers : job[c] \in {"inside", "executed"} => lock[RepoOf(c)] = c
    BY CallerParts DEF OneThreadPerConnection, InConnection
  <1>. QED
    BY <1>1 DEF IInv, PutIsDurable, JobsConsistent, JobSound

\* What holds of one caller's worker-thread job survives every step, its own and the others'.
LEMMA JobSoundStep ==
    ASSUME IInv, [Next]_vars, NEW d \in Callers
    PROVE  JobSound(d)'
  <1>. USE DEF JobMovesTo
  <1>1. /\ TypeOK /\ \A c \in Callers : JobSound(c)
        /\ job \in [Callers -> JobStates] /\ place \in [Callers -> Places]
        /\ lock \in [Repos -> Callers \cup {Free}]
        /\ run \in [Repos -> {"running", "returned", "raised"}]
    BY IInvForm DEF TypeOK
  <1>2. RepoOf(d) \in Repos /\ d # Free
    BY CallerParts
  <1>3. ASSUME NEW c \in Callers, Enter(c)
        PROVE  JobSound(d)'
    <2>1. CASE d = c
      BY <1>1, <1>2, <1>3, <2>1 DEF Enter, JobSound
    <2>2. CASE d # c
      BY <1>1, <1>2, <1>3, <2>2 DEF Enter, JobSound
    <2>. QED
      BY <2>1, <2>2
  <1>4. ASSUME NEW c \in Callers,
               Select(c) \/ Write(c) \/ Commit(c) \/ ExecuteRaises(c) \/ CommitRaises(c)
        PROVE  JobSound(d)'
    <2>1. job[c] \in {"inside", "executed"} /\ lock[RepoOf(c)] = c
      BY <1>1, <1>4 DEF Select, Write, Commit, ExecuteRaises, CommitRaises, JobSound
    <2>2. CASE d = c
      BY <1>1, <1>2, <1>4, <2>1, <2>2
         DEF Select, Write, Commit, ExecuteRaises, CommitRaises, JobSound
    <2>3. CASE d # c
      BY <1>1, <1>2, <1>4, <2>1, <2>3
         DEF Select, Write, Commit, ExecuteRaises, CommitRaises, JobSound
    <2>. QED
      BY <2>2, <2>3
  <1>5. ASSUME NEW c \in Callers, Coroutine(c)
        PROVE  JobSound(d)'
    <2>1. PICK next \in Places, submitted \in {"none", "submitted"} :
            /\ GoesTo(c, next, submitted)
            /\ submitted = "submitted" => next \in {"selecting", "evicting", "upserting"}
            /\ next = "stored" => place[c] = "upserting" /\ job[c] = "ok"
      BY <1>5, CoroutineCases
    <2>2. CASE d = c
      BY <1>1, <1>2, <2>1, <2>2 DEF GoesTo, JobSound
    <2>3. CASE d # c
      BY <1>1, <1>2, <2>1, <2>3 DEF GoesTo, JobSound
    <2>. QED
      BY <2>2, <2>3
  <1>6. ASSUME NEW r \in Repos, Cancel(r)
        PROVE  JobSound(d)'
    <2>1. job'[d] = job[d] \/ job'[d] = "none"
      BY <1>1, <1>6 DEF Cancel
    <2>2. run'[RepoOf(d)] = run[RepoOf(d)] \/ run'[RepoOf(d)] = "raised"
      BY <1>1, <1>2, <1>6 DEF Cancel
    <2>. QED
      BY <1>1, <1>6, <2>1, <2>2 DEF Cancel, JobSound
  <1>7. ASSUME NEW r \in Repos, Return(r) \/ Close(r)
        PROVE  JobSound(d)'
    BY <1>1, <1>2, <1>7 DEF Return, Close, JobSound
  <1>8. CASE UNCHANGED vars
    BY <1>1, <1>8 DEF vars, JobSound
  <1>. QED
    BY <1>3, <1>4, <1>5, <1>6, <1>7, <1>8, NextCases

\* IInv, from which the safety theorems follow, holds in every reachable state.
THEOREM Invariance == Spec => []IInv
  <1>1. Init => IInv
    <2>. SUFFICES ASSUME Init PROVE IInv
      OBVIOUS
    <2>1. TypeOK
      BY CacheRepoAssumption
         DEF Init, TypeOK, Places, JobStates, Rows, Writes, NoWrites
    <2>2. \A c \in Callers : JobSound(c)
      BY CallerParts DEF Init, JobSound
    <2>. QED
      BY <2>1, <2>2, IInvForm
  <1>2. IInv /\ [Next]_vars => IInv'
    <2>. SUFFICES ASSUME IInv, [Next]_vars PROVE IInv'
      OBVIOUS
    <2>1. TypeOK'
      BY TypeStep DEF IInv
    <2>2. \A c \in Callers : JobSound(c)'
      BY JobSoundStep
    <2>. QED
      BY <2>1, <2>2, CallerParts
         DEF IInv, OneThreadPerConnection, InConnection, PutIsDurable, JobsConsistent,
             JobSound
  <1>. QED
    BY <1>1, <1>2, PTL DEF Spec

\* Coroutines, worker threads, connections and rows keep to their ranges.
THEOREM TypeCorrect == Spec => []TypeOK
  <1>1. IInv => TypeOK
    BY DEF IInv
  <1>. QED
    BY <1>1, Invariance, PTL

\* However many coroutines, runs and abandoned jobs there are, the lock keeps
\* the worker threads of an instance out of each other's connection calls.
THEOREM LockExcludes == Spec => []OneThreadPerConnection
  <1>1. IInv => OneThreadPerConnection
    BY DEF IInv
  <1>. QED
    BY <1>1, Invariance, PTL

\* What put_raw reported as written is in the file.
THEOREM PutsAreDurable == Spec => []PutIsDurable
  <1>1. IInv => PutIsDurable
    BY DEF IInv
  <1>. QED
    BY <1>1, Invariance, PTL

\* close() after a run that returned finds no worker thread at work; only a
\* cancelled run can be closed under one.
THEOREM QuietClose == Spec => []ReturnLeavesNoJob
  <1>1. IInv => ReturnLeavesNoJob
    BY IInvForm DEF JobSound, ReturnLeavesNoJob
  <1>. QED
    BY <1>1, Invariance, PTL
-----------------------------------------------------------------------------

\* A caller is the pair of its instance and its key, so that two of one key are
\* of different instances.
LEMMA CallerIsPair ==
    \A c \in Callers : c = <<RepoOf(c), KeyOf(c)>>
  BY CacheRepoAssumption DEF RepoOf, KeyOf

\* An uncommitted write is of a row some coroutine writes, after every step.
LEMMA OwnedStep ==
    ASSUME IInv, WritesInv, [Next]_vars, NEW r \in Repos, NEW k \in Keys,
           pending'[r][k] # "none"
    PROVE  <<r, k>> \in Callers
  <1>. USE DEF JobMovesTo
  <1>1. /\ pending \in [Repos -> [Keys -> Writes]]
        /\ pending[r][k] # "none" => <<r, k>> \in Callers
    BY DEF IInv, TypeOK, WritesInv
  <1>2. ASSUME NEW c \in Callers, Write(c)
        PROVE  <<r, k>> \in Callers
    <2>1. CASE r = RepoOf(c) /\ k = KeyOf(c)
      BY <2>1, CallerIsPair
    <2>2. CASE ~(r = RepoOf(c) /\ k = KeyOf(c))
      <3>1. pending'[r][k] = pending[r][k]
        BY <1>1, <1>2, <2>2, CallerParts DEF Write
      <3>. QED
        BY <1>1, <3>1
    <2>. QED
      BY <2>1, <2>2
  <1>3. ASSUME NEW c \in Callers, Commit(c) \/ CommitRaises(c)
        PROVE  <<r, k>> \in Callers
    <2>1. pending'[r] = pending[r] \/ pending'[r] = NoWrites
      BY <1>1, <1>3, CallerParts DEF Commit, CommitRaises
    <2>. QED
      BY <1>1, <2>1 DEF NoWrites
  <1>4. ASSUME NEW s \in Repos, Close(s)
        PROVE  <<r, k>> \in Callers
    <2>1. pending'[r] = pending[r] \/ pending'[r] = NoWrites
      BY <1>1, <1>4 DEF Close
    <2>. QED
      BY <1>1, <2>1 DEF NoWrites
  <1>5. ASSUME NEW c \in Callers, Enter(c) \/ Select(c) \/ ExecuteRaises(c)
        PROVE  <<r, k>> \in Callers
    BY <1>1, <1>5 DEF Enter, Select, ExecuteRaises
  <1>6. ASSUME NEW c \in Callers, Coroutine(c)
        PROVE  <<r, k>> \in Callers
    BY <1>1, <1>6, CoroutineCases DEF GoesTo
  <1>7. ASSUME NEW s \in Repos, Cancel(s) \/ Return(s)
        PROVE  <<r, k>> \in Callers
    BY <1>1, <1>7 DEF Cancel, Return
  <1>8. CASE UNCHANGED vars
    BY <1>1, <1>8 DEF vars
  <1>. QED
    BY <1>2, <1>3, <1>4, <1>5, <1>6, <1>7, <1>8, NextCases

\* PendingSound of a coroutine survives every step, its own and the others'.
LEMMA PendingStep ==
    ASSUME IInv, WritesInv, [Next]_vars, NEW d \in Callers
    PROVE  PendingSound(d)'
  <1>. USE DEF JobMovesTo, PendingOf, HasPut
  <1>1. /\ job \in [Callers -> JobStates] /\ place \in [Callers -> Places]
        /\ pending \in [Repos -> [Keys -> Writes]]
        /\ seen \in [Callers -> Rows]
        /\ JobSound(d) /\ PendingSound(d)
        /\ RepoOf(d) \in Repos /\ KeyOf(d) \in Keys
    BY IInvForm, CallerParts DEF TypeOK, WritesInv
  <1>2. ASSUME NEW c \in Callers, Enter(c) \/ ExecuteRaises(c)
        PROVE  PendingSound(d)'
    <2>1. job'[d] = job[d] \/ job'[d] \in {"inside", "raised"}
      BY <1>1, <1>2 DEF Enter, ExecuteRaises
    <2>. QED
      BY <1>1, <1>2, <2>1 DEF Enter, ExecuteRaises, PendingSound
  <1>3. ASSUME NEW c \in Callers, Select(c)
        PROVE  PendingSound(d)'
    <2>1. CASE d = c
      BY <1>1, <1>3, <2>1 DEF Select, PendingSound
    <2>2. CASE d # c
      BY <1>1, <1>3, <2>2 DEF Select, PendingSound
    <2>. QED
      BY <2>1, <2>2
  <1>4. ASSUME NEW c \in Callers, Write(c)
        PROVE  PendingSound(d)'
    <2>1. CASE d = c
      <3>1. pending'[RepoOf(d)][KeyOf(d)] = Written(d)
        BY <1>1, <1>4, <2>1 DEF Write
      <3>2. job'[d] = "executed" /\ place[d] \in {"evicting", "upserting"}
        BY <1>1, <1>4, <2>1 DEF Write
      <3>. QED
        BY <1>1, <1>4, <2>1, <3>1, <3>2 DEF Write, Written, PendingSound
    <2>2. CASE d # c
      <3>1. pending'[RepoOf(d)][KeyOf(d)] = pending[RepoOf(d)][KeyOf(d)]
        BY <1>1, <1>4, <2>2, CallerParts, CallerIsPair DEF Write
      <3>. QED
        BY <1>1, <1>4, <2>2, <3>1 DEF Write, PendingSound
    <2>. QED
      BY <2>1, <2>2
  <1>5. ASSUME NEW c \in Callers, Commit(c) \/ CommitRaises(c)
        PROVE  PendingSound(d)'
    <2>1. \/ pending'[RepoOf(d)][KeyOf(d)] = pending[RepoOf(d)][KeyOf(d)]
          \/ pending'[RepoOf(d)][KeyOf(d)] = "none"
      BY <1>1, <1>5, CallerParts DEF Commit, CommitRaises, NoWrites
    <2>2. CASE d = c
      <3>1. \/ job'[d] = "raised"
            \/ job'[d] = "ok" /\ pending'[RepoOf(d)][KeyOf(d)] = "none"
        BY <1>1, <1>5, <2>2 DEF Commit, CommitRaises, NoWrites
      <3>. QED
        BY <1>1, <1>5, <2>1, <3>1 DEF Commit, CommitRaises, PendingSound
    <2>3. CASE d # c
      <3>1. job'[d] = job[d]
        BY <1>1, <1>5, <2>3 DEF Commit, CommitRaises
      <3>. QED
        BY <1>1, <1>5, <2>1, <3>1 DEF Commit, CommitRaises, PendingSound
    <2>. QED
      BY <2>2, <2>3
  <1>6. ASSUME NEW c \in Callers, Coroutine(c)
        PROVE  PendingSound(d)'
    <2>1. PICK next \in Places, submitted \in {"none", "submitted"} : GoesTo(c, next, submitted)
      BY <1>6, CoroutineCases
    <2>2. CASE d # c
      BY <1>1, <2>1, <2>2 DEF GoesTo, PendingSound
    <2>3. CASE d = c
      <3>1. CASE Lookup(c) \/ Hit(c) \/ Miss(c) \/ Evict(c) \/ Evicted(c)
        BY <1>1, <2>3, <3>1
           DEF Lookup, Hit, Miss, Evict, Evicted, Selected, GoesTo, PendingSound
      <3>2. CASE Put(c) \/ Stored(c) \/ Fail(c) \/ Escape(c)
        BY <1>1, <2>3, <3>2 DEF Put, Stored, Fail, Escape, GoesTo, PendingSound
      <3>. QED
        BY <1>6, <3>1, <3>2 DEF Coroutine
    <2>. QED
      BY <2>2, <2>3
  <1>7. ASSUME NEW r \in Repos, Cancel(r) \/ Return(r)
        PROVE  PendingSound(d)'
    <2>1. job'[d] = job[d] \/ job'[d] = "none"
      BY <1>1, <1>7 DEF Cancel, Return
    <2>. QED
      BY <1>1, <1>7, <2>1 DEF Cancel, Return, PendingSound
  <1>8. ASSUME NEW r \in Repos, Close(r)
        PROVE  PendingSound(d)'
    <2>1. \/ pending'[RepoOf(d)][KeyOf(d)] = pending[RepoOf(d)][KeyOf(d)]
          \/ pending'[RepoOf(d)][KeyOf(d)] = "none"
      BY <1>1, <1>8 DEF Close, NoWrites
    <2>. QED
      BY <1>1, <1>8, <2>1 DEF Close, PendingSound
  <1>9. CASE UNCHANGED vars
    BY <1>1, <1>9 DEF vars, PendingSound
  <1>. QED
    BY <1>2, <1>3, <1>4, <1>5, <1>6, <1>7, <1>8, <1>9, NextCases

\* A coroutine that called put_raw stays one.
LEMMA HasPutStays ==
    ASSUME IInv, [Next]_vars, NEW d \in Callers, HasPut(d)
    PROVE  HasPut(d)'
  <1>1. place \in [Callers -> Places] /\ JobSound(d)
    BY IInvForm DEF TypeOK
  <1>2. ASSUME NEW c \in Callers, Coroutine(c)
        PROVE  HasPut(d)'
    <2>1. CASE Lookup(c) \/ Hit(c) \/ Miss(c) \/ Evict(c) \/ Evicted(c)
      BY <1>1, <2>1 DEF Lookup, Hit, Miss, Evict, Evicted, Selected, GoesTo, HasPut
    <2>2. CASE Put(c) \/ Stored(c) \/ Fail(c) \/ Escape(c)
      BY <1>1, <2>2 DEF Put, Stored, Fail, Escape, GoesTo, HasPut
    <2>. QED
      BY <1>2, <2>1, <2>2 DEF Coroutine
  <1>3. ASSUME place' = place
        PROVE  HasPut(d)'
    BY <1>3 DEF HasPut
  <1>. QED
    BY <1>2, <1>3, NextCases
       DEF Enter, Select, Write, Commit, ExecuteRaises, CommitRaises, JobMovesTo,
           Cancel, Return, Close, vars

\* Who may delete its row after a step might before it, or has just read it.
LEMMA MayDeleteBefore ==
    ASSUME IInv, WritesInv, [Next]_vars, NEW d \in Callers,
           seen'[d] = "unparsable", MayDelete(d)'
    PROVE  \/ seen[d] = "unparsable" /\ MayDelete(d)
           \/ rows[KeyOf(d)] = "unparsable" /\ rows' = rows
  <1>. USE DEF JobMovesTo, MayDelete, PendingOf
  <1>1. /\ job \in [Callers -> JobStates] /\ place \in [Callers -> Places]
        /\ pending \in [Repos -> [Keys -> Writes]]
        /\ seen \in [Callers -> Rows]
        /\ PendingSound(d)
        /\ RepoOf(d) \in Repos /\ KeyOf(d) \in Keys
    BY CallerParts DEF IInv, TypeOK, WritesInv
  <1>2. ASSUME NEW c \in Callers, Select(c)
        PROVE  \/ seen[d] = "unparsable" /\ MayDelete(d)
               \/ rows[KeyOf(d)] = "unparsable" /\ rows' = rows
    <2>1. CASE d = c
      BY <1>1, <1>2, <2>1 DEF Select, View, PendingSound
    <2>2. CASE d # c
      BY <1>1, <1>2, <2>2 DEF Select
    <2>. QED
      BY <2>1, <2>2
  <1>3. ASSUME NEW c \in Callers, Write(c)
        PROVE  seen[d] = "unparsable" /\ MayDelete(d)
    <2>1. CASE d = c
      BY <1>1, <1>3, <2>1 DEF Write, Written
    <2>2. CASE d # c
      <3>1. pending'[RepoOf(d)][KeyOf(d)] = pending[RepoOf(d)][KeyOf(d)]
        BY <1>1, <1>3, <2>2, CallerParts, CallerIsPair DEF Write
      <3>. QED
        BY <1>1, <1>3, <3>1 DEF Write
    <2>. QED
      BY <2>1, <2>2
  <1>4. ASSUME /\ seen' = seen /\ place' = place
               /\ \/ pending'[RepoOf(d)] = pending[RepoOf(d)]
                  \/ pending'[RepoOf(d)] = NoWrites
        PROVE  seen[d] = "unparsable" /\ MayDelete(d)
    BY <1>1, <1>4 DEF NoWrites
  <1>5. ASSUME NEW c \in Callers, Coroutine(c)
        PROVE  seen[d] = "unparsable" /\ MayDelete(d)
    <2>1. CASE Lookup(c) \/ Hit(c) \/ Miss(c) \/ Evict(c) \/ Evicted(c)
      BY <1>1, <2>1
         DEF Lookup, Hit, Miss, Evict, Evicted, Selected, GoesTo, PendingSound
    <2>2. CASE Put(c) \/ Stored(c) \/ Fail(c) \/ Escape(c)
      BY <1>1, <2>2 DEF Put, Stored, Fail, Escape, GoesTo
    <2>. QED
      BY <1>5, <2>1, <2>2 DEF Coroutine
  <1>6. ASSUME NEW c \in Callers,
               Enter(c) \/ ExecuteRaises(c) \/ Commit(c) \/ CommitRaises(c)
        PROVE  seen[d] = "unparsable" /\ MayDelete(d)
    <2>1. \/ pending'[RepoOf(d)] = pending[RepoOf(d)]
          \/ pending'[RepoOf(d)] = NoWrites
      BY <1>1, <1>6, CallerParts DEF Enter, ExecuteRaises, Commit, CommitRaises
    <2>. QED
      BY <1>4, <1>6, <2>1 DEF Enter, ExecuteRaises, Commit, CommitRaises
  <1>7. ASSUME NEW r \in Repos, Cancel(r) \/ Return(r) \/ Close(r)
        PROVE  seen[d] = "unparsable" /\ MayDelete(d)
    <2>1. \/ pending'[RepoOf(d)] = pending[RepoOf(d)]
          \/ pending'[RepoOf(d)] = NoWrites
      BY <1>1, <1>7 DEF Cancel, Return, Close
    <2>. QED
      BY <1>4, <1>7, <2>1 DEF Cancel, Return, Close
  <1>8. CASE UNCHANGED vars
    BY <1>4, <1>8 DEF vars
  <1>. QED
    BY <1>2, <1>3, <1>5, <1>6, <1>7, <1>8, NextCases

\* Only a commit changes the committed rows.
LEMMA RowsChangeByCommit ==
    ASSUME [Next]_vars, rows' # rows
    PROVE  \E c \in Callers : Commit(c)
  BY CoroutineCases, NextCases
     DEF Enter, Select, Write, ExecuteRaises, CommitRaises, JobMovesTo, GoesTo,
         Cancel, Return, Close, vars

\* A readable row that may be deleted after a step was put by another instance.
LEMMA LossStep ==
    ASSUME IInv, WritesInv, [Next]_vars, NEW d \in Callers
    PROVE  LossExplained(d)'
  <1>. SUFFICES ASSUME seen'[d] = "unparsable", MayDelete(d)',
                       rows'[KeyOf(d)] \notin {"absent", "unparsable"}
                PROVE  \E e \in Callers : e # d /\ KeyOf(e) = KeyOf(d) /\ HasPut(e)'
    BY DEF LossExplained, KeyOf
  <1>1. /\ LossExplained(d)
        /\ pending \in [Repos -> [Keys -> Writes]] /\ rows \in [Keys -> Rows]
        /\ RepoOf(d) \in Repos /\ KeyOf(d) \in Keys
    BY CallerParts DEF IInv, TypeOK, WritesInv
  <1>2. CASE rows'[KeyOf(d)] = rows[KeyOf(d)]
    <2>1. seen[d] = "unparsable" /\ MayDelete(d)
      BY <1>2, MayDeleteBefore
    <2>2. PICK e \in Callers : e # d /\ KeyOf(e) = KeyOf(d) /\ HasPut(e)
      BY <1>1, <1>2, <2>1 DEF LossExplained
    <2>3. HasPut(e)'
      BY <2>2, HasPutStays
    <2>. QED
      BY <2>2, <2>3
  <1>3. CASE rows'[KeyOf(d)] # rows[KeyOf(d)]
    <2>1. PICK c \in Callers : Commit(c)
      BY <1>3, RowsChangeByCommit
    <2>. DEFINE r == RepoOf(c)
                k == KeyOf(d)
    <2>2. r \in Repos
      BY CallerParts
    <2>3. /\ rows'[k] = pending[r][k] /\ pending[r][k] # "none"
          /\ pending'[r] = NoWrites /\ place' = place
      BY <1>1, <1>3, <2>1, <2>2 DEF Commit, View, JobMovesTo
    <2>4. <<r, k>> \in Callers
      BY <1>1, <2>2, <2>3 DEF WritesInv
    <2>5. PICK e \in Callers : e = <<r, k>>
      BY <2>4
    <2>6. RepoOf(e) = r /\ KeyOf(e) = k
      BY <2>5 DEF RepoOf, KeyOf
    <2>7. PendingSound(e)
      BY DEF WritesInv
    <2>8. HasPut(e)
      BY <2>3, <2>6, <2>7 DEF PendingSound, PendingOf
    <2>9. HasPut(e)'
      BY <2>8, HasPutStays
    <2>10. e # d
      <3>1. SUFFICES ASSUME e = d PROVE FALSE
        OBVIOUS
      <3>2. pending'[RepoOf(d)][KeyOf(d)] = "none"
        BY <1>1, <2>3, <2>6, <3>1 DEF NoWrites
      <3>3. place'[d] \notin {"selecting", "evicting"}
        BY <2>9, <3>1 DEF HasPut
      <3>. QED
        BY <3>2, <3>3 DEF MayDelete, PendingOf
    <2>. QED
      BY <2>6, <2>9, <2>10
  <1>. QED
    BY <1>2, <1>3

\* A row that could be read is deleted only after two instances raced for it,
\* whatever else raises, is cancelled or left behind.
THEOREM LossesAreRaces == Spec => GoodRowsAreLostOnlyToRaces
  <1>1. Init => WritesInv
    <2>. SUFFICES ASSUME Init PROVE WritesInv
      OBVIOUS
    <2>1. \A r \in Repos : \A k \in Keys : pending[r][k] = "none"
      BY DEF Init, NoWrites
    <2>2. \A c \in Callers : PendingSound(c) /\ LossExplained(c)
      BY <2>1, CallerParts DEF Init, PendingSound, PendingOf, LossExplained
    <2>. QED
      BY <2>1, <2>2 DEF WritesInv
  <1>2. IInv /\ WritesInv /\ [Next]_vars => WritesInv'
    BY OwnedStep, PendingStep, LossStep DEF WritesInv
  <1>3. IInv /\ WritesInv /\ [Next]_vars =>
          [\A k \in Keys :
             rows[k] \notin {"absent", "unparsable"} /\ rows'[k] = "absent" =>
               \E c, d \in Callers : /\ KeyOf(c) = k /\ KeyOf(d) = k /\ RepoOf(c) # RepoOf(d)
                                     /\ seen[c] = "unparsable"
                                     /\ place[d] \in {"upserting", "stored", "escaped"}]_vars
    <2>. SUFFICES ASSUME IInv, WritesInv, [Next]_vars, NEW k \in Keys,
                         rows[k] \notin {"absent", "unparsable"}, rows'[k] = "absent"
                  PROVE  \E c, d \in Callers :
                           /\ KeyOf(c) = k /\ KeyOf(d) = k /\ RepoOf(c) # RepoOf(d)
                           /\ seen[c] = "unparsable"
                           /\ place[d] \in {"upserting", "stored", "escaped"}
      OBVIOUS
    <2>1. PICK b \in Callers : Commit(b)
      BY RowsChangeByCommit
    <2>2. RepoOf(b) \in Repos /\ pending[RepoOf(b)][k] = "absent"
      BY <2>1, CallerParts DEF Commit, View
    <2>3. PICK c \in Callers : c = <<RepoOf(b), k>>
      BY <2>2 DEF WritesInv
    <2>4. RepoOf(c) = RepoOf(b) /\ KeyOf(c) = k
      BY <2>3 DEF RepoOf, KeyOf
    <2>5. PendingSound(c) /\ LossExplained(c)
      BY DEF WritesInv
    <2>6. seen[c] = "unparsable" /\ MayDelete(c)
      BY <2>2, <2>4, <2>5 DEF PendingSound, PendingOf, MayDelete
    <2>7. PICK d \in Callers : d # c /\ KeyOf(d) = KeyOf(c) /\ HasPut(d)
      BY <2>4, <2>5, <2>6 DEF LossExplained
    <2>8. RepoOf(d) # RepoOf(c)
      BY <2>7, CallerIsPair
    <2>. QED
      BY <2>4, <2>6, <2>7, <2>8 DEF HasPut
  <1>. QED
    BY <1>1, <1>2, <1>3, Invariance, PTL DEF Spec, GoodRowsAreLostOnlyToRaces
=============================================================================
