----------------------------- MODULE TaskLedger -----------------------------
(***************************************************************************)
(* What orchestration/executor.py promises its caller, with every detail   *)
(* of semaphore, cache and retry removed: a run keeps one ledger entry per *)
(* task, an entry is written at most once and never revised, and the run   *)
(* either returns a ledger that is total or raises and returns none.       *)
(***************************************************************************)
CONSTANTS Tasks,       \* the planned tasks
          Outcomes,    \* the terminal outcomes a task may record
          NoOutcome    \* the entry of a task that has recorded nothing, no Outcome

VARIABLES ledger,      \* the entry of every task
          status       \* "open", "returned" or "raised"

ledgerVars == <<ledger, status>>

Init == /\ ledger = [t \in Tasks |-> NoOutcome]
        /\ status = "open"

\* One task records its one terminal outcome.
Record(t) == /\ status = "open"
             /\ ledger[t] = NoOutcome
             /\ \E o \in Outcomes : ledger' = [ledger EXCEPT ![t] = o]
             /\ UNCHANGED status

\* The run returns; only a total ledger may be returned.
Return == /\ status = "open"
          /\ \A t \in Tasks : ledger[t] # NoOutcome
          /\ status' = "returned"
          /\ UNCHANGED ledger

\* An exception escapes: the caller gets no ledger at all.
Raise == /\ status = "open"
         /\ status' = "raised"
         /\ UNCHANGED ledger

Next == \/ \E t \in Tasks : Record(t)
        \/ Return
        \/ Raise

Spec == Init /\ [][Next]_ledgerVars
=============================================================================
