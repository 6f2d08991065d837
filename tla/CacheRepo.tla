----------------------------- MODULE CacheRepo ------------------------------
(***************************************************************************)
(* persistence/cache_repo.py and persistence/db.py at the level of         *)
(* threads: several CacheRepository instances over one database file, each *)
(* opened and closed by a run of its own (two requests of the API, two     *)
(* processes).  A run has one coroutine per raw key, which calls get_raw   *)
(* and after a miss put_raw.  Every statement is a job for a worker thread *)
(* (asyncio.to_thread) that runs it under the instance's threading.Lock;   *)
(* a coroutine that is cancelled leaves its job behind.                    *)
(***************************************************************************)
EXTENDS Naturals, FiniteSets

CONSTANTS Repos,       \* the CacheRepository instances
          Keys,        \* the raw keys the runs look up
          Callers,     \* the coroutines: an instance and a key of its run's plan
          InitialRows  \* what the file may hold for a key at first

RepoOf(c) == c[1]
KeyOf(c) == c[2]

\* What a lock holds that no thread holds.
Free == <<>>

\* No row; one whose expires_at does not parse; one past it; one before it.
Rows == {"absent", "unparsable", "expired", "live"}

ASSUME CacheRepoAssumption == /\ Callers \subseteq Repos \X Keys
                              /\ InitialRows \subseteq Rows

\* A transaction's pending write of a key: a row (deleted is "absent") or none.
Writes == Rows \cup {"none"}

\* Where a coroutine is suspended, and how it ended.
Places == {"start", "selecting", "evicting", "calling", "upserting",
           "hit", "stored", "failed", "escaped"}

\* Where the statement of a coroutine is: not there; submitted to the pool,
\* which is in its queue or blocked on the lock; in the connection's execute;
\* between execute and commit; finished.
JobStates == {"none", "submitted", "inside", "executed", "ok", "raised"}

VARIABLES run,      \* of an instance: "running", "returned" or "raised"
          conn,     \* its connection: "open" or "closed"
          lock,     \* its _lock: the coroutine whose worker holds it, or Free
          pending,  \* its open transaction: the writes not yet committed
          place,    \* where each coroutine is
          job,      \* where its current statement is
          seen,     \* the row its SELECT returned
          rows,     \* raw_payloads, as committed
          durable   \* history: the coroutines whose upsert has been committed

vars == <<run, conn, lock, pending, place, job, seen, rows, durable>>

NoWrites == [k \in Keys |-> "none"]

Init == /\ run = [r \in Repos |-> "running"]
        /\ conn = [r \in Repos |-> "open"]
        /\ lock = [r \in Repos |-> Free]
        /\ pending = [r \in Repos |-> NoWrites]
        /\ place = [c \in Callers |-> "start"]
        /\ job = [c \in Callers |-> "none"]
        /\ seen = [c \in Callers |-> "absent"]
        /\ rows \in [Keys -> InitialRows]
        /\ durable = {}

-----------------------------------------------------------------------------
\* The worker threads.

\* What the statement of a coroutine writes: _upsert_raw or _delete_raw.
Written(c) == IF place[c] = "upserting" THEN "live" ELSE "absent"

\* Mutant: a read sees only its own transaction.
ViewPendingOnly(r, k) == pending[r][k]

\* What instance r reads: its own pending writes over the committed rows.
View(r, k) == IF pending[r][k] # "none" THEN pending[r][k] ELSE rows[k]

\* SQLite lets one connection at a time write.
MayWrite(r) == \A s \in Repos \ {r} : pending[s] = NoWrites

JobMovesTo(c, state) == /\ job' = [job EXCEPT ![c] = state]
                        /\ UNCHANGED <<run, conn, place>>

\* Mutant: the DELETE runs without the lock.
EnterUnlockedToDelete(c) ==
    /\ job[c] = "submitted"
    /\ lock[RepoOf(c)] = Free \/ place[c] = "evicting"
    /\ lock' = [lock EXCEPT ![RepoOf(c)] = c]
    /\ JobMovesTo(c, "inside")
    /\ UNCHANGED <<pending, seen, rows, durable>>

\* `with self._lock:`
Enter(c) == /\ job[c] = "submitted"
            /\ lock[RepoOf(c)] = Free
            /\ lock' = [lock EXCEPT ![RepoOf(c)] = c]
            /\ JobMovesTo(c, "inside")
            /\ UNCHANGED <<pending, seen, rows, durable>>

\* _select_raw: execute, fetchone, and the lock is released.
Select(c) == /\ job[c] = "inside"
             /\ place[c] = "selecting"
             /\ conn[RepoOf(c)] = "open"
             /\ seen' = [seen EXCEPT ![c] = View(RepoOf(c), KeyOf(c))]
             /\ lock' = [lock EXCEPT ![RepoOf(c)] = Free]
             /\ JobMovesTo(c, "ok")
             /\ UNCHANGED <<pending, rows, durable>>

\* Mutant: _upsert_raw and _delete_raw do not commit.
WriteOnly(c) == /\ job[c] = "inside"
                /\ place[c] \in {"evicting", "upserting"}
                /\ conn[RepoOf(c)] = "open"
                /\ MayWrite(RepoOf(c))
                /\ pending' = [pending EXCEPT ![RepoOf(c)][KeyOf(c)] = Written(c)]
                /\ lock' = [lock EXCEPT ![RepoOf(c)] = Free]
                /\ JobMovesTo(c, "ok")
                /\ UNCHANGED <<seen, rows, durable>>

\* The execute of _upsert_raw or _delete_raw, in a transaction it opens.
Write(c) == /\ job[c] = "inside"
            /\ place[c] \in {"evicting", "upserting"}
            /\ conn[RepoOf(c)] = "open"
            /\ MayWrite(RepoOf(c))
            /\ pending' = [pending EXCEPT ![RepoOf(c)][KeyOf(c)] = Written(c)]
            /\ JobMovesTo(c, "executed")
            /\ UNCHANGED <<lock, seen, rows, durable>>

\* Its commit, which commits whatever the connection has pending.
Commit(c) == /\ job[c] = "executed"
             /\ conn[RepoOf(c)] = "open"
             /\ rows' = [k \in Keys |-> View(RepoOf(c), k)]
             /\ pending' = [pending EXCEPT ![RepoOf(c)] = NoWrites]
             /\ durable' = IF place[c] = "upserting" THEN durable \cup {c} ELSE durable
             /\ lock' = [lock EXCEPT ![RepoOf(c)] = Free]
             /\ JobMovesTo(c, "ok")
             /\ UNCHANGED seen

\* Mutant: an exception leaves the lock held (acquire and release by hand).
ExecuteRaisesLocked(c) == /\ job[c] = "inside"
                          /\ JobMovesTo(c, "raised")
                          /\ UNCHANGED <<lock, pending, seen, rows, durable>>

\* execute raises: the connection is closed, another one holds the write lock
\* beyond the busy timeout, or the file cannot be used.
ExecuteRaises(c) == /\ job[c] = "inside"
                    /\ lock' = [lock EXCEPT ![RepoOf(c)] = Free]
                    /\ JobMovesTo(c, "raised")
                    /\ UNCHANGED <<pending, seen, rows, durable>>

\* commit raises.  SQLite may have rolled the transaction back; if not it stays
\* open on the connection, for the next commit to write.
CommitRaises(c) == /\ job[c] = "executed"
                   /\ lock' = [lock EXCEPT ![RepoOf(c)] = Free]
                   /\ JobMovesTo(c, "raised")
                   /\ \E left \in {pending[RepoOf(c)], NoWrites} :
                        pending' = [pending EXCEPT ![RepoOf(c)] = left]
                   /\ UNCHANGED <<seen, rows, durable>>

-----------------------------------------------------------------------------
\* The coroutines, on the event loop.

\* The coroutine goes on, with its next statement submitted or none.
GoesTo(c, next, submitted) ==
    /\ run[RepoOf(c)] = "running"
    /\ place' = [place EXCEPT ![c] = next]
    /\ job' = [job EXCEPT ![c] = submitted]
    /\ UNCHANGED <<run, conn, lock, pending, seen, rows, durable>>

\* get_raw is called.
Lookup(c) == place[c] = "start" /\ GoesTo(c, "selecting", "submitted")

Selected(c) == place[c] = "selecting" /\ job[c] = "ok"

Hit(c) == Selected(c) /\ seen[c] = "live" /\ GoesTo(c, "hit", "none")

Miss(c) == Selected(c) /\ seen[c] \in {"absent", "expired"} /\ GoesTo(c, "calling", "none")

\* Mutant: an expired row is deleted as well.
EvictExpired(c) ==
    Selected(c) /\ seen[c] \in {"unparsable", "expired"} /\ GoesTo(c, "evicting", "submitted")

Evict(c) == Selected(c) /\ seen[c] = "unparsable" /\ GoesTo(c, "evicting", "submitted")

Evicted(c) == place[c] = "evicting" /\ job[c] = "ok" /\ GoesTo(c, "calling", "none")

\* The provider answers and put_raw is called.
Put(c) == place[c] = "calling" /\ GoesTo(c, "upserting", "submitted")

\* put_raw returns.
Stored(c) == place[c] = "upserting" /\ job[c] = "ok" /\ GoesTo(c, "stored", "none")

\* The provider's error ends the task without a put_raw.
Fail(c) == place[c] = "calling" /\ GoesTo(c, "failed", "none")

\* A statement's exception, or a bug of the provider, leaves the coroutine.
Escape(c) == /\ job[c] = "raised" \/ place[c] = "calling"
             /\ GoesTo(c, "escaped", "none")

Submitted(r) == {c \in Callers : RepoOf(c) = r /\ job[c] = "submitted"}

\* execute_plan raises: a coroutine let an exception escape, or the process got
\* a SIGINT.  Cancelling a coroutine takes its job out of the pool's queue; a
\* job that a worker has begun, blocked on the lock or past it, goes on alone.
Cancel(r) ==
    /\ run[r] = "running"
    /\ run' = [run EXCEPT ![r] = "raised"]
    /\ \E queued \in SUBSET Submitted(r) :
         job' = [c \in Callers |-> IF c \in queued THEN "none" ELSE job[c]]
    /\ UNCHANGED <<conn, lock, pending, place, seen, rows, durable>>

\* Mutant: put_raw is started and not awaited.
ReturnBeforePut(r) ==
    /\ run[r] = "running"
    /\ \A c \in Callers : RepoOf(c) = r =>
         place[c] \in {"hit", "stored", "failed", "upserting"}
    /\ run' = [run EXCEPT ![r] = "returned"]
    /\ UNCHANGED <<conn, lock, pending, place, job, seen, rows, durable>>

\* execute_plan returns.
Return(r) ==
    /\ run[r] = "running"
    /\ \A c \in Callers : RepoOf(c) = r => place[c] \in {"hit", "stored", "failed"}
    /\ run' = [run EXCEPT ![r] = "returned"]
    /\ UNCHANGED <<conn, lock, pending, place, job, seen, rows, durable>>

\* `finally: cache_repository.close()`, which does not take the lock; what the
\* connection has pending is rolled back.
Close(r) ==
    /\ run[r] \in {"returned", "raised"}
    /\ conn[r] = "open"
    /\ conn' = [conn EXCEPT ![r] = "closed"]
    /\ pending' = [pending EXCEPT ![r] = NoWrites]
    /\ UNCHANGED <<run, lock, place, job, seen, rows, durable>>

Worker(c) == \/ Enter(c) \/ Select(c) \/ Write(c) \/ Commit(c)
             \/ ExecuteRaises(c) \/ CommitRaises(c)

Coroutine(c) == \/ Lookup(c) \/ Hit(c) \/ Miss(c) \/ Evict(c) \/ Evicted(c)
                \/ Put(c) \/ Stored(c) \/ Fail(c) \/ Escape(c)

Next == \/ \E c \in Callers : Worker(c) \/ Coroutine(c)
        \/ \E r \in Repos : Cancel(r) \/ Return(r) \/ Close(r)

Spec == Init /\ [][Next]_vars

\* Threads are scheduled, sqlite answers or its busy timeout ends, the provider
\* answers, the event loop runs what is ready, and a run whose coroutine raised
\* is cancelled.  Nothing is assumed about who gets a contended lock.
FairSpec ==
    /\ Spec
    /\ \A c \in Callers : WF_vars(Worker(c)) /\ WF_vars(Coroutine(c))
    /\ \A r \in Repos :
         /\ WF_vars(Return(r))
         /\ WF_vars(Close(r))
         /\ WF_vars((\E c \in Callers : RepoOf(c) = r /\ place[c] = "escaped") /\ Cancel(r))

-----------------------------------------------------------------------------

\* Every variable keeps to its range.
TypeOK == /\ run \in [Repos -> {"running", "returned", "raised"}]
          /\ conn \in [Repos -> {"open", "closed"}]
          /\ lock \in [Repos -> Callers \cup {Free}]
          /\ pending \in [Repos -> [Keys -> Writes]]
          /\ place \in [Callers -> Places]
          /\ job \in [Callers -> JobStates]
          /\ seen \in [Callers -> Rows]
          /\ rows \in [Keys -> Rows]
          /\ durable \subseteq Callers

\* The workers in a call of the connection of r.
InConnection(r) == {c \in Callers : RepoOf(c) = r /\ job[c] \in {"inside", "executed"}}

\* No two worker threads are ever in a call of the same connection, the crash
\* the lock was added for, and none is while the lock is free: also when
\* statements raise and when cancelled coroutines leave their jobs behind.
OneThreadPerConnection ==
    \A r \in Repos : \A c \in Callers :
      c \in InConnection(r) => lock[r] = c

\* When put_raw returned to its caller the row had been committed, so the
\* answer outlives the process from then on.
PutIsDurable == \A c \in Callers : place[c] = "stored" => c \in durable

\* A run that returned left no statement under way, so closing its connection
\* then disturbs nobody.
ReturnLeavesNoJob ==
    \A c \in Callers : run[RepoOf(c)] = "returned" => job[c] = "none"

\* A row that could be read is lost only to a race of two runs: one has called
\* put_raw after the other found an unparsable row, and the other then deletes
\* by key.  The coroutines of one run never delete each other's rows.
GoodRowsAreLostOnlyToRaces ==
    [][\A k \in Keys :
         rows[k] \notin {"absent", "unparsable"} /\ rows'[k] = "absent" =>
           \E c, d \in Callers : /\ KeyOf(c) = k /\ KeyOf(d) = k /\ RepoOf(c) # RepoOf(d)
                                 /\ seen[c] = "unparsable"
                                 /\ place[d] \in {"upserting", "stored", "escaped"}]_vars

\* A coroutine waits for its statement and for nothing else, a statement that
\* is past execute is a write, and one that is finished has done its work.
JobsConsistent ==
    \A c \in Callers :
      /\ place[c] \notin {"selecting", "evicting", "upserting"} => job[c] = "none"
      /\ job[c] = "executed" => place[c] \in {"evicting", "upserting"}
      /\ place[c] = "upserting" /\ job[c] = "ok" => c \in durable
      /\ run[RepoOf(c)] = "returned" => place[c] \in {"hit", "stored", "failed"}

\* The inductive invariant behind the theorems of CacheRepoProofs.
IInv == TypeOK /\ OneThreadPerConnection /\ PutIsDurable /\ JobsConsistent

\* The uncommitted write of the coroutine's own row.
PendingOf(c) == pending[RepoOf(c)][KeyOf(c)]

HasPut(c) == place[c] \in {"upserting", "stored", "escaped"}

\* It may delete its row yet, or has an uncommitted deletion of it.
MayDelete(c) == place[c] \in {"selecting", "evicting"} \/ PendingOf(c) = "absent"

\* What is uncommitted of a row fits where the one coroutine that writes it is.
PendingSound(c) ==
    /\ PendingOf(c) \in {"none", "absent", "live"}
    /\ place[c] = "start" => seen[c] = "absent"
    /\ place[c] \in {"start", "selecting", "hit", "calling", "failed"} => PendingOf(c) = "none"
    /\ place[c] = "evicting" => seen[c] = "unparsable" /\ PendingOf(c) # "live"
    /\ place[c] = "evicting" /\ job[c] = "ok" => PendingOf(c) = "none"
    /\ place[c] \in {"upserting", "stored"} => PendingOf(c) # "absent"
    /\ PendingOf(c) = "absent" => seen[c] = "unparsable"
    /\ PendingOf(c) = "live" => HasPut(c)

\* A readable row that may yet be deleted was put there by another instance.
LossExplained(c) ==
    seen[c] = "unparsable" /\ MayDelete(c) /\ rows[KeyOf(c)] \notin {"absent", "unparsable"} =>
      \E d \in Callers : d # c /\ KeyOf(d) = KeyOf(c) /\ HasPut(d)

\* The part of the inductive invariant behind GoodRowsAreLostOnlyToRaces.
WritesInv ==
    /\ \A r \in Repos : \A k \in Keys : pending[r][k] # "none" => <<r, k>> \in Callers
    /\ \A c \in Callers : PendingSound(c) /\ LossExplained(c)

\* Every repository is closed in the end and its lock free: no lock, write
\* transaction or abandoned job of one run keeps another from ending.
AllEnd == <>[](\A r \in Repos : conn[r] = "closed" /\ lock[r] = Free)
=============================================================================
