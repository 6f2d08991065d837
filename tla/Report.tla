------------------------------- MODULE Report -------------------------------
(***************************************************************************)
(* reporting/markdown.py, json_report.py and view.py: the two artifacts    *)
(* that are made of what Selection computes.  A section is the facts its   *)
(* rows state; a cell that may be a dash is a set of at most one value.    *)
(* Wording, times and links are left out; the sections of the task ledger  *)
(* are in CliRun, the self-transfer appendix in Offers.                    *)
(***************************************************************************)
EXTENDS Selection

VARIABLES phase,   \* "pending", "rendered", "built", "nothing", "raised"
          report,  \* the sections of the Markdown report
          results  \* the arrays of the JSON document

reportVars == <<vars, phase, report, results>>

NoDocument == [written |-> FALSE]

ReportInit == Init /\ phase = "pending" /\ report = NoDocument /\ results = NoDocument

-----------------------------------------------------------------------------

\* price_difference, which is not taken as an absolute value.
Difference(a) == {x.price - y.price : x \in a.direct, y \in a.stop}

\* direct_tier_recommendation_label
Label(tier) == CASE tier = "RECOMMENDED" -> "Recommended"
                 [] tier = "GOOD_VALUE" -> "Recommended (good value)"
                 [] tier = "NOT_RECOMMENDED" -> "Optional"
                 [] tier = "NOT_AVAILABLE" -> "Not available"

\* _direct_flight_analysis_table: a row for every destination, and a note where
\* tier and scores disagree.
DirectRow(n) == [destination |-> Destinations[n],
                 direct |-> analyses[n].direct,
                 difference |-> Difference(analyses[n]),
                 recommendation |-> Label(analyses[n].tier),
                 note |-> analyses[n].divergence]

DirectRows == [n \in DOMAIN analyses |-> DirectRow(n)]

\* _early_stop_row
Verdict(v) == CASE v.triggered -> "triggered"
                [] ~v.triggered /\ Len(v.against) >= 2 -> "not triggered"
                [] OTHER -> "not yet evaluable"

EarlyStopRows == [n \in DOMAIN verdicts |->
                    [destination |-> Destinations[n], verdict |-> Verdict(verdicts[n]),
                     margin |-> IF verdicts[n].triggered THEN {verdicts[n].margin} ELSE {},
                     against |-> verdicts[n].against]]

\* _origin_comparison_table: a row for every origin of the run.
OriginRows == [i \in DOMAIN origins |->
                 [origin |-> origins[i],
                  fare |-> {e.itinerary.price : e \in by_origin[origins[i]]},
                  destination |-> {Flight[e.itinerary.flight].destination :
                                     e \in by_origin[origins[i]]}]]

\* ranked[0]
Recommended == (CHOOSE e \in top : e.by_score = 1).itinerary

\* Mutant: the summary is about the first destination of the registry.
AnalysisOfTheFirst(x) == {analyses[n] : n \in {m \in DOMAIN analyses : m = 1}}

\* _primary_destination_analysis
PrimaryAnalysis(x) ==
    {analyses[n] : n \in {m \in DOMAIN analyses :
                            Destinations[m] = Flight[x.flight].destination}}

\* _final_summary_sentence: there is none without a difference of prices.  The
\* hours are stated unless the direct flight is slower.
SummaryOf(a) ==
    {[recommends |-> IF FavoursDirect(a.tier) THEN "direct" ELSE "stop",
      cheaper |-> FavoursDirect(a.tier) /\ diff < 0,
      amount |-> IF FavoursDirect(a.tier) /\ diff < 0 THEN -diff ELSE diff,
      hours |-> FavoursDirect(a.tier) /\ \E x \in a.direct, y \in a.stop :
                  Flight[y.flight].time >= Flight[x.flight].time] : diff \in Difference(a)}

Markdown == [written |-> TRUE,
             recommended |-> Recommended,
             others |-> {e.itinerary : e \in {f \in top : f.by_score > 1}},
             origin_comparison |-> OriginRows,
             direct_analysis |-> DirectRows,
             early_stop |-> EarlyStopRows,
             final_summary |-> UNION {SummaryOf(a) : a \in PrimaryAnalysis(Recommended)}]

\* build_results_document; its destinations are sorted by their codes.
Document == [written |-> TRUE,
             accepted_count |-> Cardinality(survivors),
             top_n |-> TopGlobal,
             top_itineraries |-> top,
             destination_analyses |-> DirectRows,
             early_stop_analysis |-> EarlyStopRows,
             origin_comparison |-> OriginRows,
             top_itineraries_by_destination |->
                 [d \in {e \in Places : by_destination[e] # {}} |-> by_destination[d]]]

\* The run is COMPLETE or PARTIAL.  render_markdown_report raises if the cut left
\* nothing.
Render == /\ stage = "done"
          /\ phase = "pending"
          /\ Combined # {}
          /\ IF top = {} THEN phase' = "raised" /\ UNCHANGED report
                         ELSE phase' = "rendered" /\ report' = Markdown
          /\ UNCHANGED <<vars, results>>

\* NO_RESULTS or FAILED: neither artifact.
NothingToReport == /\ stage = "done"
                   /\ phase = "pending"
                   /\ Combined = {}
                   /\ phase' = "nothing"
                   /\ UNCHANGED <<vars, report, results>>

BuildResults == /\ phase = "rendered"
                /\ IF Cardinality(survivors) < Cardinality(top)
                   THEN phase' = "raised" /\ UNCHANGED results
                   ELSE phase' = "built" /\ results' = Document
                /\ UNCHANGED <<vars, report>>

ReportNext == \/ Next /\ UNCHANGED <<phase, report, results>>
              \/ Render \/ NothingToReport \/ BuildResults

ReportSpec == ReportInit /\ [][ReportNext]_reportVars

-----------------------------------------------------------------------------

Kind(x) == IF Stops(x) = 0 THEN "direct" ELSE "stop"

\* The sections do not contradict each other, as far as the code sees to it.
\* Where the final summary recommends one kind of flight and the recommended
\* flight is of the other, a note under the direct-flight table says so; the one
\* exception is a recommended flight that is none of the two fares the table
\* compares.  There is no summary only where the searches lack one kind.
SummaryFitsTheRanking ==
    report.written =>
      LET r == report.recommended
          d == Flight[r.flight].destination
          row == CHOOSE n \in DOMAIN Destinations : Destinations[n] = d
      IN  /\ \A s \in report.final_summary :
               s.recommends # Kind(r) =>
                 \/ report.direct_analysis[row].note
                 \/ r \notin analyses[row].direct \cup analyses[row].stop
          /\ report.final_summary = {} =>
               DirectPool(d) = {} \/ \A x \in To(d, survivors) : Stops(x) = 0

\* "one overall cheapest ScoredItinerary for the origin" (OriginSummary), which
\* the column "Cheapest Fare" and the key cheapest_fare_eur publish: no valid
\* itinerary from the origin costs less.
CheapestFareIsCheapest ==
    results.written =>
      \A i \in DOMAIN origins : \A p \in results.origin_comparison[i].fare :
        \A x \in From(origins[i], survivors) : p <= x.price
=============================================================================
