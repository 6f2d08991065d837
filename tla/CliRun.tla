------------------------------- MODULE CliRun -------------------------------
(***************************************************************************)
(* cli.py: one `flightagent run`, from the answers of the search to the    *)
(* exit code.  With --all-destinations the tasks are executed by           *)
(* execute_plan, every outcome is finalized in plan order by validating    *)
(* the task's offers, the RunEnvelope is built, and the status decides     *)
(* between four files with exit code 0 and a message with another code.    *)
(* With --dest there is one search, no envelope and no retry.              *)
(*                                                                         *)
(* Of the report this module has the sections that are made of the task    *)
(* ledger: the failed searches, and for every origin its fare or the       *)
(* reason for its absence.  The others are in Report.                      *)
(***************************************************************************)
EXTENDS RunStatus, Sequences, FiniteSets, FiniteSetsExt

CONSTANTS Plans,         \* what --all-destinations may plan: the origin of every
                         \* task, in plan order
          Origins,       \* the registry's origins; ground time may leave some of
                         \* them, or all, out of the plan
          MaxOffers,     \* bound: offers of one task
          Codes,         \* the RejectionCodes validation gives here, in the
                         \* ascending order of their values
          LayoverCodes   \* _LAYOVER_REJECTION_CODES

CodeSet == {Codes[i] : i \in DOMAIN Codes}

\* What a message or a row of the report says when it names no code; none of them
\* is the value of a RejectionCode.
Phrases == {"none", "layover", "no_offers", "fare", "not_searched", "search_failed"}

ASSUME CliRunAssumption == /\ Plans \subseteq Seq(Origins)
                           /\ MaxOffers \in Nat
                           /\ Codes \in Seq(CodeSet)
                           /\ CodeSet \cap Phrases = {}
                           /\ LayoverCodes \subseteq CodeSet

\* The verdict on an offer: the codes it was rejected for, none if it is valid.
Verdicts == SUBSET CodeSet

Offers == UNION {[1..n -> Verdicts] : n \in 0..MaxOffers}

\* What execute_plan returns for a task.
Answers == {[state |-> "OK", offers |-> o] : o \in Offers \ {<<>>}}
             \cup {[state |-> s, offers |-> <<>>] : s \in ErrorStates \cup {"NO_OFFERS"}}

\* The files of a run, in the order they are written: the D15 pair and the
\* run's own copy.
Files == <<"out_report", "out_results", "run_report", "run_results">>

VARIABLES mode,      \* "all" or "single"
          plan,      \* the origins of the tasks
          stage,     \* "searching", "finalizing", "enveloped", "writing", "exited"
          answers,   \* execution_results, the offers with their verdicts
          ledger,    \* finalized_outcomes, in plan order
          status,    \* envelope.status
          report,    \* the two sections of the report
          message,   \* "none", "layover" (the spec's sentence) or a code or "no_offers"
          written,   \* how many of Files have been written
          exit,      \* the exit code
          raised     \* where an exception came from that nobody caught

vars == <<mode, plan, stage, answers, ledger, status, report, message, written, exit, raised>>

NoExit == 99
NoReport == [written |-> FALSE]

Init == /\ \/ mode = "all" /\ plan \in Plans
           \/ mode = "single" /\ \E o \in Origins : plan = <<o>>
        /\ stage = "searching"
        /\ answers = <<>>
        /\ ledger = <<>>
        /\ status = "none"
        /\ report = NoReport
        /\ message = "none"
        /\ written = 0
        /\ exit = NoExit
        /\ raised = "no"

-----------------------------------------------------------------------------

\* An exception nobody catches: a traceback and Python's exit code 1.
Raise(where) == /\ stage' = "exited"
                /\ exit' = 1
                /\ raised' = where
                /\ UNCHANGED <<mode, plan, answers, ledger, status, report, message, written>>

\* typer.Exit(code), or 0 at the end of the command.
ExitWith(code) == /\ stage' = "exited"
                  /\ exit' = code
                  /\ UNCHANGED <<mode, plan, answers, ledger, report, written, raised>>

\* The search answers.  The single-destination pipeline has no outcome for an
\* error of the provider.
SearchReturns ==
    /\ stage = "searching"
    /\ answers' \in [DOMAIN plan -> Answers]
    /\ mode = "single" => answers'[1].state \notin ErrorStates
    /\ stage' = "finalizing"
    /\ UNCHANGED <<mode, plan, ledger, status, report, message, written, exit, raised>>

\* The provider's error leaves provider.search of the single-destination
\* pipeline.
ProviderRaises == stage = "searching" /\ mode = "single" /\ Raise("provider")

\* Anything else that leaves execute_plan or provider.search.
SearchRaises == stage = "searching" /\ Raise("search")

\* Mutant: each rejected itinerary counts once, for its first code.
RejectedOnce(offers) ==
    [c \in CodeSet |-> Cardinality({i \in DOMAIN offers :
        /\ c \in offers[i]
        /\ \A d \in offers[i] : \E m, n \in DOMAIN Codes :
             m <= n /\ Codes[m] = c /\ Codes[n] = d})]

\* summarize_validation_results of one task's offers.
Accepted(offers) == Cardinality({i \in DOMAIN offers : offers[i] = {}})
Rejected(offers) == [c \in CodeSet |-> Cardinality({i \in DOMAIN offers : c \in offers[i]})]

\* _finalize_task_outcome, with the counts of the task's offers.
Finalize(answer) == [state |-> FinalState(answer.state, Accepted(answer.offers)),
                     accepted |-> Accepted(answer.offers),
                     rejections |-> Rejected(answer.offers)]

\* One round of the loop; only an OK task has offers to validate.
FinalizeTask ==
    /\ stage = "finalizing"
    /\ Len(ledger) < Len(answers)
    /\ ledger' = Append(ledger, Finalize(answers[Len(ledger) + 1]))
    /\ UNCHANGED <<mode, plan, stage, answers, status, report, message, written, exit, raised>>

\* An offer that cannot be normalized (a duration that does not add up, a
\* currency that is not EUR) ends the whole run.
BadOffer == /\ stage = "finalizing"
            /\ Len(ledger) < Len(answers)
            /\ answers[Len(ledger) + 1].offers # <<>>
            /\ Raise("offer")

Finalized == stage = "finalizing" /\ Len(ledger) = Len(answers)

\* How often code c was given in the tasks of T.
Total(c, T) == MapThenSumSet(LAMBDA t : ledger[t].rejections[c], T)

\* _dominant_rejection_code, and the end of origin_absence_reason: the largest
\* count, among equals the largest value.
DominantCode(T) ==
    LET totals == {i \in DOMAIN Codes : Total(Codes[i], T) > 0}
        best == {i \in totals : \A j \in totals :
                   \/ Total(Codes[i], T) > Total(Codes[j], T)
                   \/ Total(Codes[i], T) = Total(Codes[j], T) /\ i >= j}
    IN  IF totals = {} THEN "no_offers" ELSE Codes[CHOOSE i \in best : TRUE]

\* The message of a NO_RESULTS run (D19).
NoResultsMessage == IF DominantCode(DOMAIN ledger) \in LayoverCodes
                    THEN "layover" ELSE DominantCode(DOMAIN ledger)

\* failed_task_outcomes
FailedSearches == {t \in DOMAIN ledger : ledger[t].state \in ErrorStates}

\* The tasks of origin o.
TasksOf(o) == {t \in DOMAIN ledger : plan[t] = o}

\* Mutant: the reasons are looked for before the errors.
ReasonBeforeErrors(o) ==
    CASE TasksOf(o) = {} -> "not_searched"
      [] TasksOf(o) # {} /\ DominantCode(TasksOf(o)) # "no_offers" -> DominantCode(TasksOf(o))
      [] OTHER -> IF TasksOf(o) \cap FailedSearches # {} THEN "search_failed" ELSE "no_offers"

\* origin_absence_reason
AbsenceReason(o) ==
    CASE TasksOf(o) = {} -> "not_searched"
      [] TasksOf(o) \cap FailedSearches # {} -> "search_failed"
      [] OTHER -> DominantCode(TasksOf(o))

\* A row of the origin comparison: an origin without a valid itinerary shows
\* the reason.  Deduplication leaves one of every flight's.
OriginRow(o) == IF \E t \in TasksOf(o) : ledger[t].accepted >= 1
                THEN "fare" ELSE AbsenceReason(o)

\* The RunEnvelope of --all-destinations, whose validator may refuse the status.
Envelop ==
    /\ Finalized
    /\ mode = "all"
    /\ IF EnvelopeAccepts(StatusOf(ledger), ledger)
       THEN /\ stage' = "enveloped"
            /\ status' = StatusOf(ledger)
            /\ UNCHANGED <<mode, plan, answers, ledger, report, message, written, exit,
                           raised>>
       ELSE Raise("envelope")

\* The run knows what came out of it: with --all-destinations
\* its status says so, with --dest whether anything was accepted.
Decided == IF mode = "all" THEN stage = "enveloped" ELSE Finalized

\* COMPLETE or PARTIAL, or a single search with a valid itinerary: dedup, score
\* and rank keep at least one itinerary, and the report is rendered.
Report ==
    /\ Decided
    /\ IF mode = "all" THEN status \in {"COMPLETE", "PARTIAL"} ELSE AnyAccepted(ledger)
    /\ stage' = "writing"
    /\ report' = IF mode = "all"
                 THEN [written |-> TRUE, failed_searches |-> FailedSearches,
                       origin_comparison |-> [o \in Origins |-> OriginRow(o)]]
                 ELSE NoReport
    /\ UNCHANGED <<mode, plan, answers, ledger, status, message, written, exit, raised>>

\* Mutant: FAILED takes the code of NO_RESULTS.
FailedExitsOne ==
    /\ stage = "enveloped"
    /\ status = "FAILED"
    /\ UNCHANGED <<status, message>>
    /\ ExitWith(1)

\* Mutant: FAILED takes the code of a usage error.
FailedExitsTwo ==
    /\ stage = "enveloped"
    /\ status = "FAILED"
    /\ UNCHANGED <<status, message>>
    /\ ExitWith(2)

\* FAILED: exit code 3.
Failed ==
    /\ stage = "enveloped"
    /\ status = "FAILED"
    /\ UNCHANGED <<status, message>>
    /\ ExitWith(3)

\* NO_RESULTS, or a single search with nothing valid: exit code 1.
NoResults ==
    /\ Decided
    /\ IF mode = "all"
       THEN status = "NO_RESULTS" /\ message' = NoResultsMessage
       ELSE ~AnyAccepted(ledger) /\ UNCHANGED message
    /\ UNCHANGED status
    /\ ExitWith(1)

\* One atomic_write raises: the files before it are there, it and the rest not.
WriteFails == stage = "writing" /\ written < Len(Files) /\ Raise("write")

WriteFile == /\ stage = "writing"
             /\ written < Len(Files)
             /\ written' = written + 1
             /\ UNCHANGED <<mode, plan, stage, answers, ledger, status, report, message, exit,
                            raised>>

Succeed == /\ stage = "writing"
           /\ written = Len(Files)
           /\ UNCHANGED <<status, message>>
           /\ ExitWith(0)

Next == \/ SearchReturns
        \/ ProviderRaises \/ SearchRaises
        \/ FinalizeTask \/ BadOffer
        \/ Envelop \/ Report \/ Failed \/ NoResults
        \/ WriteFails \/ WriteFile \/ Succeed

Spec == Init /\ [][Next]_vars

-----------------------------------------------------------------------------

Outcomes == [state : TaskStates, accepted : 0..MaxOffers,
             rejections : [CodeSet -> 0..MaxOffers]]

\* Every variable keeps to its range; the only exit codes are 0, 1 and 3.
TypeOK == /\ mode \in {"all", "single"}
          /\ stage \in {"searching", "finalizing", "enveloped", "writing", "exited"}
          /\ Len(answers) <= Len(plan)
          /\ \A t \in DOMAIN answers : answers[t] \in Answers
          /\ Len(ledger) <= Len(answers)
          /\ \A t \in DOMAIN ledger : ledger[t] \in Outcomes
          /\ status \in Statuses \cup {"none"}
          /\ report.written => /\ report.failed_searches \subseteq DOMAIN plan
                               /\ DOMAIN report.origin_comparison = Origins
          /\ message \in CodeSet \cup {"none", "layover", "no_offers"}
          /\ written \in 0..Len(Files)
          /\ exit \in {NoExit, 0, 1, 3}
          /\ raised \in {"no", "provider", "search", "offer", "envelope", "write"}

\* The status the CLI computes is never one the envelope's validator refuses,
\* although they are written twice; what it refuses is a plan without a task.
EnvelopeNeverRefuses == raised = "envelope" => plan = <<>>

\* Some task got an answer from the provider, whatever was in it.
ProviderAnswered == \E t \in DOMAIN answers : answers[t].state \notin ErrorStates

\* Some offer of some task of T is valid; of any task.
ValidIn(T) == \E t \in T : \E i \in DOMAIN answers[t].offers : answers[t].offers[i] = {}
SomeValid == ValidIn(DOMAIN answers)

\* What the exit code of a run without a traceback says is so: 0, a valid
\* itinerary was found and all four files are written; 1, the provider answered
\* with nothing valid; 3, every search errored.  In the last two nothing is
\* written.
ExitTellsTruth ==
    stage = "exited" =>
      CASE exit = 0 -> SomeValid /\ written = Len(Files)
        [] exit = 1 /\ raised = "no" -> ProviderAnswered /\ ~SomeValid /\ written = 0
        [] exit = 3 -> ~ProviderAnswered /\ written = 0
        [] OTHER -> raised # "no"

\* How often the verdicts of the tasks of T name code c, counted offer by offer.
Occurrences(c, T) ==
    Cardinality({p \in T \X (1..MaxOffers) : /\ p[2] \in DOMAIN answers[p[1]].offers
                                             /\ c \in answers[p[1]].offers[p[2]]})

AnsweredWith(t, S) == answers[t].state \in S

\* The run is PARTIAL exactly when the report lists a failed search, and it
\* lists all of them.
FailuresListed ==
    report.written =>
      /\ report.failed_searches = {t \in DOMAIN plan : AnsweredWith(t, ErrorStates)}
      /\ status = "PARTIAL" <=> report.failed_searches # {}

\* An origin has a fare, or was not planned, or a search of it failed, or the
\* most frequent of its rejections is named, or it was offered nothing.
AbsencesExplained ==
    report.written =>
      \A o \in Origins :
        LET row == report.origin_comparison[o]
            T == {t \in DOMAIN plan : plan[t] = o}
            failed == \E t \in T : AnsweredWith(t, ErrorStates)
        IN  CASE row = "fare" -> ValidIn(T)
              [] row = "not_searched" -> T = {}
              [] row = "search_failed" -> ~ValidIn(T) /\ failed
              [] row = "no_offers" -> T # {} /\ \A t \in T : AnsweredWith(t, {"NO_OFFERS"})
              [] OTHER -> /\ ~ValidIn(T) /\ ~failed
                          /\ Occurrences(row, T) >= 1
                          /\ \A c \in CodeSet : Occurrences(c, T) <= Occurrences(row, T)

\* A report never hides a failed search, or blames the wrong thing: its section
\* of failed searches is complete, and the reason an origin has no fare is so.
ReportShowsFailures == FailuresListed /\ AbsencesExplained

\* The reason a NO_RESULTS run gives is one no other reason outnumbers, over
\* all offers of all tasks; and no reason is given only if none was recorded.
ReasonIsMostFrequent ==
    message # "none" =>
      LET all == DOMAIN answers
      IN  CASE message = "no_offers" -> \A c \in CodeSet : Occurrences(c, all) = 0
            [] message = "layover" -> \E l \in LayoverCodes : \A c \in CodeSet :
                                        Occurrences(c, all) <= Occurrences(l, all)
            [] OTHER -> \A c \in CodeSet : Occurrences(c, all) <= Occurrences(message, all)
=============================================================================
