----------------------------- MODULE RunStatus ------------------------------
(***************************************************************************)
(* The status of a run as two places of the code decide it: the CLI layer  *)
(* computes one from the finalized task ledger (cli._compute_run_status),  *)
(* and the RunEnvelope model refuses one that does not fit the ledger      *)
(* (domain/run.py).  A ledger maps each task to its outcome; accepted is   *)
(* its accepted_count.  Sums of counts are compared with zero only, so     *)
(* "the sum is at least 1" is "some count is at least 1".                  *)
(***************************************************************************)
EXTENDS Naturals

ErrorStates == {"PROVIDER_ERROR", "RATE_LIMITED", "TIMEOUT"}
AnsweredStates == {"OK", "NO_OFFERS", "ALL_REJECTED"}

\* The states a finalized outcome of a run may have; TaskState has two more,
\* which no code assigns.
TaskStates == ErrorStates \cup AnsweredStates

Statuses == {"COMPLETE", "PARTIAL", "NO_RESULTS", "FAILED"}

AnyAccepted(ledger) == \E t \in DOMAIN ledger : ledger[t].accepted >= 1

HasErrors(ledger) == \E t \in DOMAIN ledger : ledger[t].state \in ErrorStates
AllErrored(ledger) == \A t \in DOMAIN ledger : ledger[t].state \in ErrorStates

\* _finalize_task_outcome: the upgrade of OK with nothing accepted.
FinalState(state, accepted) ==
    IF state = "OK" /\ accepted = 0 THEN "ALL_REJECTED" ELSE state

\* _compute_run_status
StatusOf(ledger) ==
    CASE AnyAccepted(ledger) /\ HasErrors(ledger)   -> "PARTIAL"
      [] AnyAccepted(ledger) /\ ~HasErrors(ledger)  -> "COMPLETE"
      [] ~AnyAccepted(ledger) /\ AllErrored(ledger) -> "FAILED"
      [] OTHER                                      -> "NO_RESULTS"

\* Mutant: ALL_REJECTED does not count as an answer.
EnvelopeIgnoringRejected(status, ledger) ==
    /\ DOMAIN ledger # {}
    /\ status = "NO_RESULTS" => /\ ~AnyAccepted(ledger)
                                /\ \E t \in DOMAIN ledger :
                                     ledger[t].state \in {"OK", "NO_OFFERS"}

\* RunEnvelope: task_outcomes is not empty, and _validate_status.
EnvelopeAccepts(status, ledger) ==
    /\ DOMAIN ledger # {}
    /\ status = "COMPLETE" => ~HasErrors(ledger) /\ AnyAccepted(ledger)
    /\ status = "PARTIAL" => HasErrors(ledger) /\ AnyAccepted(ledger)
    /\ status = "NO_RESULTS" => /\ ~AnyAccepted(ledger)
                                /\ \E t \in DOMAIN ledger :
                                     ledger[t].state \in AnsweredStates
    /\ status = "FAILED" => ~AnyAccepted(ledger) /\ AllErrored(ledger)
=============================================================================
