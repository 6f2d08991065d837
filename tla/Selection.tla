------------------------------ MODULE Selection ------------------------------
(***************************************************************************)
(* cli.run_all_destinations_pipeline, between the answers of the search    *)
(* and the document: the valid itineraries of every task are collected in  *)
(* plan order, each destination gets its direct-versus-stop analysis, the  *)
(* early-stop rule is replayed, and what is left after deduplication is    *)
(* scored, ranked and cut into the three tables of the report.             *)
(*                                                                         *)
(* A flight is the shape of an itinerary: its segments and their times.    *)
(* The route, the number of stops, the time (in EUR at the configured      *)
(* weight) and the layover penalty are functions of it.  An itinerary is   *)
(* an offer of a flight by a carrier at a price; its itinerary_id hashes   *)
(* the three.  Every ordering of the code ends in the itinerary_id, so     *)
(* lists of itineraries are sets here.                                     *)
(***************************************************************************)
EXTENDS Integers, Sequences, FiniteSets, FiniteSetsExt

CONSTANTS Flight,            \* flight -> [origin, destination, stops, time, penalty]
          Offered,           \* the valid itineraries, [flight, carrier, price]
          Id,                \* itinerary -> the place of its itinerary_id among all
          Registry,          \* the origins in priority order
          Destinations,      \* the destinations in registry order
          GroundMinutes,     \* origin -> how long it takes to get there
          MaxGroundMinutes,  \* max_ground_travel_minutes
          GroundCost,        \* origin -> cost_eur of its ground leg
          CostWeight,        \* ground_cost_weight, and ground_time_weight
          TimeWeight,        \* a minute
          Bonus,             \* -direct_bonus_eur, in the mode "fixed"
          RecommendedDiff, RecommendedPercent, GoodDiff, GoodPercent,
          Threshold,         \* early_stop.threshold_eur
          TopGlobal, TopPerDestination,
          MaxValid           \* bound: the valid itineraries of a run

Origins == {Registry[i] : i \in DOMAIN Registry}
Places == {Destinations[i] : i \in DOMAIN Destinations}

ASSUME SelectionAssumption ==
    /\ Registry \in Seq(Origins)
    /\ \A i, j \in DOMAIN Registry : Registry[i] = Registry[j] => i = j
    /\ Destinations \in Seq(Places)
    /\ Len(Destinations) >= 1
    /\ \A f \in DOMAIN Flight :
         Flight[f] \in [origin : Origins, destination : Places,
                        stops : {0, 1}, time : Nat, penalty : Nat]
    /\ \A x \in Offered : x.flight \in DOMAIN Flight /\ x.price \in Nat
    /\ IsFiniteSet(Offered)
    /\ Id \in [Offered -> Nat]
    /\ \A x, y \in Offered : Id[x] = Id[y] => x = y
    /\ GroundMinutes \in [Origins -> Nat]
    /\ MaxGroundMinutes \in Nat
    /\ GroundCost \in [Origins -> Nat]
    /\ {CostWeight, TimeWeight, Bonus, RecommendedDiff, RecommendedPercent, GoodDiff,
        GoodPercent, Threshold, TopGlobal, TopPerDestination, MaxValid} \subseteq Nat

VARIABLES origins,         \* origin_codes: all of Registry, or the one of --origin
          planned,         \* the origins the plan has tasks for
          stage,           \* "collecting", "analysing", "replaying",
                           \* "deduplicating", "ranking", "done"
          valid,           \* valid_by_task_id, in plan order
          analyses,        \* destination_analyses
          walk,            \* the early-stop loop over the origins of a destination
          verdicts,        \* early_stop_evaluations
          survivors,       \* deduplicated_itineraries
          top,             \* ranked
          by_destination,  \* per_destination_top_n
          by_origin        \* origin_summaries

plan == <<origins, planned>>

tables == <<top, by_destination, by_origin>>

vars == <<plan, stage, valid, analyses, walk, verdicts, survivors, tables>>

-----------------------------------------------------------------------------
(* Orderings *)

\* Tuples compare as in Python: the first difference decides.
LexLess(a, b) == \E i \in DOMAIN a : a[i] < b[i] /\ \A j \in 1..(i - 1) : a[j] = b[j]

Stops(x) == Flight[x.flight].stops

\* score, which has no direct bonus.
PlainScore(x) == x.price + Flight[x.flight].time + Flight[x.flight].penalty

\* adjusted_score of score_itinerary
AdjustedScore(x) ==
    PlainScore(x) - (IF Stops(x) = 0 THEN Bonus ELSE 0)

\* Mutant: the itinerary_id term is omitted.
KeyWithoutId(x) == <<AdjustedScore(x), x.price, Flight[x.flight].time>>

TiebreakKey(x) == <<AdjustedScore(x), x.price, Flight[x.flight].time, Id[x]>>
PriceKey(x) == <<x.price, Id[x]>>

Precedes(x, y) == LexLess(TiebreakKey(x), TiebreakKey(y))
Cheaper(x, y) == LexLess(PriceKey(x), PriceKey(y))

\* The place of x when S is sorted.
RankByScore(x, S) == 1 + Cardinality({y \in S : Precedes(y, x)})
RankByPrice(x, S) == 1 + Cardinality({y \in S : Cheaper(y, x)})

\* _cheapest, as a set of at most one itinerary.
Cheapest(pool) == {x \in pool : \A y \in pool \ {x} : Cheaper(x, y)}

-----------------------------------------------------------------------------
(* The plan *)

PriorityOf(o) == CHOOSE i \in DOMAIN Registry : Registry[i] = o

\* plannable_origins: those within the ground limit, in priority order.
Plannable == {s \in UNION {[1..n -> Origins] : n \in 1..Len(Registry)} :
                /\ {s[i] : i \in DOMAIN s}
                     = {o \in Origins : GroundMinutes[o] <= MaxGroundMinutes}
                /\ \A i, j \in DOMAIN s : i < j => PriorityOf(s[i]) < PriorityOf(s[j])}

\* Per origin, the direct search of every destination, then the one-stop ones.
TasksPerOrigin == 2 * Len(Destinations)
NumTasks == Len(planned) * TasksPerOrigin

Task(k) == LET r == (k - 1) % TasksPerOrigin
           IN  [origin |-> planned[((k - 1) \div TasksPerOrigin) + 1],
                destination |-> Destinations[(r % Len(Destinations)) + 1],
                max_stops |-> r \div Len(Destinations)]

\* What validation lets through for a task.
Fits(x, task) == /\ Flight[x.flight].origin = task.origin
                 /\ Flight[x.flight].destination = task.destination
                 /\ Stops(x) <= task.max_stops

\* Mutant: the walk starts before the first origin.
WalkFromZero == [at |-> 0, prior |-> <<>>, low |-> 0, last |-> <<>>]

FreshWalk == [at |-> 1, prior |-> <<>>, low |-> 0, last |-> <<>>]

\* The ground filter applies to --all-origins only.
Init == /\ \/ origins = Registry /\ planned \in Plannable
           \/ \E o \in Origins : origins = <<o>> /\ planned = <<o>>
        /\ stage = "collecting"
        /\ valid = <<>>
        /\ analyses = <<>>
        /\ walk = FreshWalk
        /\ verdicts = <<>>
        /\ survivors = {}
        /\ top = {}
        /\ by_destination = [d \in Places |-> {}]
        /\ by_origin = [o \in Origins |-> {}]

\* One round of the loop over the results; a task that errored, found nothing
\* or had everything rejected has no valid itinerary.
CollectTask ==
    /\ stage = "collecting"
    /\ Len(valid) < NumTasks
    /\ \E found \in SUBSET {x \in Offered : Fits(x, Task(Len(valid) + 1))} :
         /\ MapThenSumSet(LAMBDA k : Cardinality(valid[k]), DOMAIN valid)
              + Cardinality(found) <= MaxValid
         /\ valid' = Append(valid, found)
    /\ UNCHANGED <<plan, stage, analyses, walk, verdicts, survivors, tables>>

Collected == /\ stage = "collecting"
             /\ Len(valid) = NumTasks
             /\ stage' = "analysing"
             /\ UNCHANGED <<plan, valid, analyses, walk, verdicts, survivors, tables>>

\* combined_valid_itineraries
Combined == UNION {valid[k] : k \in DOMAIN valid}

-----------------------------------------------------------------------------
(* Direct against one stop, per destination *)

TasksTo(d, mode) == {k \in DOMAIN valid : Task(k).destination = d /\ Task(k).max_stops = mode}

\* Mutant: a later origin's task overwrites the pool of an earlier one.
LastOneStopPool(d) ==
    {x \in Combined : Stops(x) >= 1 /\ \E k \in TasksTo(d, 1) :
        x \in valid[k] /\ \A l \in TasksTo(d, 1) : l <= k}

\* The pools of _build_direct_vs_stop_pools.
DirectPool(d) == UNION {valid[k] : k \in TasksTo(d, 0)}
OneStopPool(d) == {x \in UNION {valid[k] : k \in TasksTo(d, 1)} : Stops(x) >= 1}

\* The relative difference, which is not defined for a fare of zero.
WithinPercent(diff, base, percent) == base # 0 /\ diff * 100 <= percent * base

\* evaluate_direct_tier
DirectTier(diff, base) ==
    CASE diff <= RecommendedDiff \/ WithinPercent(diff, base, RecommendedPercent)
           -> "RECOMMENDED"
      [] ~(diff <= RecommendedDiff \/ WithinPercent(diff, base, RecommendedPercent))
           /\ (diff <= GoodDiff \/ WithinPercent(diff, base, GoodPercent))
           -> "GOOD_VALUE"
      [] OTHER -> "NOT_RECOMMENDED"

FavoursDirect(tier) == tier \in {"RECOMMENDED", "GOOD_VALUE"}

\* Mutant: the scores compared leave out the direct bonus.
PlainComparison(direct, stop) ==
    LET tier == DirectTier(direct.price - stop.price, stop.price)
    IN  [direct |-> {direct}, stop |-> {stop}, tier |-> tier,
         divergence |-> FavoursDirect(tier) # (PlainScore(direct) < PlainScore(stop))]

\* Both itineraries exist: the ladder, and whether the scores disagree with it.
Comparison(direct, stop) ==
    LET tier == DirectTier(direct.price - stop.price, stop.price)
    IN  [direct |-> {direct}, stop |-> {stop}, tier |-> tier,
         divergence |-> FavoursDirect(tier) # (AdjustedScore(direct) < AdjustedScore(stop))]

\* analyze_destination, of the cheapest of the two pools.
Analysis(direct, stop) ==
    IF direct = {} \/ stop = {}
    THEN [direct |-> direct, stop |-> stop, divergence |-> FALSE,
          tier |-> IF direct = {} THEN "NOT_AVAILABLE" ELSE "RECOMMENDED"]
    ELSE Comparison(CHOOSE x \in direct : TRUE, CHOOSE x \in stop : TRUE)

AnalyseDestination ==
    /\ stage = "analysing"
    /\ Len(analyses) < Len(Destinations)
    /\ LET d == Destinations[Len(analyses) + 1]
       IN  analyses' = Append(analyses, Analysis(Cheapest(DirectPool(d)),
                                                 Cheapest(OneStopPool(d))))
    /\ UNCHANGED <<plan, stage, valid, walk, verdicts, survivors, tables>>

Analysed == /\ stage = "analysing"
            /\ Len(analyses) = Len(Destinations)
            /\ stage' = "replaying"
            /\ UNCHANGED <<plan, valid, analyses, walk, verdicts, survivors, tables>>

-----------------------------------------------------------------------------
(* The replay of the early-stop rule *)

\* The fares of the valid itineraries from the i-th origin to d, in both modes.
Fares(i, d) == {x.price : x \in UNION {valid[k] : k \in
                 {m \in DOMAIN valid : Task(m).origin = planned[i] /\ Task(m).destination = d}}}

\* price_eur of an OriginFare
IsFare(p, i, d) == p \in Fares(i, d) /\ \A q \in Fares(i, d) : p <= q

\* The destination whose origins are being walked.
Walked == Destinations[Len(verdicts) + 1]

Walking == /\ stage = "replaying"
           /\ Len(verdicts) < Len(Destinations)
           /\ walk.at <= Len(planned)

\* An origin without a valid fare is neither compared nor compared against.
SkipOrigin ==
    /\ Walking
    /\ Fares(walk.at, Walked) = {}
    /\ walk' = [walk EXCEPT !.at = @ + 1]
    /\ UNCHANGED <<plan, stage, valid, analyses, verdicts, survivors, tables>>

\* Mutant: the comparison is strict.
StrictlyTriggers(p) == Len(walk.prior) >= 2 /\ walk.low - p > Threshold

\* _MIN_PRIOR_ORIGINS is 2.
Triggers(p) == Len(walk.prior) >= 2 /\ walk.low - p >= Threshold

\* The verdict on a destination; the loop starts again with the next one.
Conclude(verdict) == /\ verdicts' = Append(verdicts, verdict)
                     /\ walk' = FreshWalk
                     /\ UNCHANGED <<plan, stage, valid, analyses, survivors, tables>>

TriggerAtOrigin ==
    /\ Walking
    /\ \E p \in Fares(walk.at, Walked) :
         /\ IsFare(p, walk.at, Walked)
         /\ Triggers(p)
         /\ Conclude([triggered |-> TRUE, at |-> walk.at, margin |-> walk.low - p,
                      against |-> walk.prior])

PassOrigin ==
    /\ Walking
    /\ \E p \in Fares(walk.at, Walked) :
         /\ IsFare(p, walk.at, Walked)
         /\ ~Triggers(p)
         /\ walk' = [at |-> walk.at + 1,
                     prior |-> Append(walk.prior, walk.at),
                     low |-> IF walk.prior = <<>> \/ p < walk.low THEN p ELSE walk.low,
                     last |-> IF Len(walk.prior) >= 2 THEN walk.prior ELSE walk.last]
    /\ UNCHANGED <<plan, stage, valid, analyses, verdicts, survivors, tables>>

\* Nothing triggered: the last comparison made, if any was.
EndOfWalk ==
    /\ stage = "replaying"
    /\ Len(verdicts) < Len(Destinations)
    /\ walk.at > Len(planned)
    /\ Conclude([triggered |-> FALSE, at |-> 0, margin |-> 0,
                 against |-> IF walk.last # <<>> THEN walk.last ELSE walk.prior])

Replayed == /\ stage = "replaying"
            /\ Len(verdicts) = Len(Destinations)
            /\ stage' = "deduplicating"
            /\ UNCHANGED <<plan, valid, analyses, walk, verdicts, survivors, tables>>

-----------------------------------------------------------------------------
(* Deduplication, ranking and the tables *)

\* Mutant: the survivor of a group is the one with the first itinerary_id.
FirstIdSurvives(S) ==
    {x \in S : \A y \in S : y.flight = x.flight => Id[x] <= Id[y]}

\* deduplicate: of each flight the cheapest offer.
Survivors(S) == {x \in S : \A y \in S \ {x} : y.flight = x.flight => Cheaper(x, y)}

Deduplicate ==
    /\ stage = "deduplicating"
    /\ survivors' = Survivors(Combined)
    /\ stage' = "ranking"
    /\ UNCHANGED <<plan, valid, analyses, walk, verdicts, tables>>

\* total_journey_score, with the overlay of apply_ground_overlay for the origin.
JourneyScore(x) ==
    LET o == Flight[x.flight].origin
    IN  AdjustedScore(x) + CostWeight * GroundCost[o] + TimeWeight * GroundMinutes[o]

\* A scored itinerary, with the placeholders it is constructed with.
Scored(x) == [itinerary |-> x, journey |-> JourneyScore(x),
              by_score |-> 1, by_price |-> 1, by_journey |-> 1]

\* rank_itineraries gives its copy of x the ranks; the one by
\* total_journey_score is the one by adjusted_score.
Ranked(x, S) == [Scored(x) EXCEPT !.by_score = RankByScore(x, S),
                                  !.by_price = RankByPrice(x, S),
                                  !.by_journey = RankByScore(x, S)]

RankItineraries(S) == {Ranked(x, S) : x \in {y \in S : RankByScore(y, S) <= TopGlobal}}

To(d, S) == {x \in S : Flight[x.flight].destination = d}
From(o, S) == {x \in S : Flight[x.flight].origin = o}

\* Mutant: the per-destination table is cut out of the global one.
TopOfTheTop(d, S) ==
    LET shown == {y \in S : RankByScore(y, S) <= TopGlobal}
    IN  {Scored(x) : x \in {y \in To(d, shown) : RankByScore(y, To(d, shown)) <= TopPerDestination}}

TopOfDestination(d, S) ==
    {Scored(x) : x \in {y \in To(d, S) : RankByScore(y, To(d, S)) <= TopPerDestination}}

BestOfOrigin(o, S) == {Scored(x) : x \in {y \in From(o, S) : RankByScore(y, From(o, S)) = 1}}

RankAndCut ==
    /\ stage = "ranking"
    /\ top' = RankItineraries(survivors)
    /\ by_origin' = [o \in Origins |-> IF \E i \in DOMAIN origins : origins[i] = o
                                       THEN BestOfOrigin(o, survivors) ELSE {}]
    /\ by_destination' = [d \in Places |-> TopOfDestination(d, survivors)]
    /\ stage' = "done"
    /\ UNCHANGED <<plan, valid, analyses, walk, verdicts, survivors>>

Next == \/ CollectTask \/ Collected
        \/ AnalyseDestination \/ Analysed
        \/ SkipOrigin \/ TriggerAtOrigin \/ PassOrigin \/ EndOfWalk \/ Replayed
        \/ Deduplicate \/ RankAndCut

Spec == Init /\ [][Next]_vars

-----------------------------------------------------------------------------

Tiers == {"RECOMMENDED", "GOOD_VALUE", "NOT_RECOMMENDED", "NOT_AVAILABLE"}

\* Every variable keeps to its range; the loops stay within their bounds.
TypeOK ==
    /\ origins \in {Registry} \cup {<<o>> : o \in Origins}
    /\ planned \in Seq(Origins)
    /\ stage \in {"collecting", "analysing", "replaying", "deduplicating", "ranking", "done"}
    /\ valid \in Seq(SUBSET Offered) /\ Len(valid) <= NumTasks
    /\ analyses \in Seq([direct : SUBSET Offered, stop : SUBSET Offered,
                         tier : Tiers, divergence : BOOLEAN])
    /\ Len(analyses) <= Len(Destinations)
    /\ walk \in [at : 1..(Len(planned) + 1), prior : Seq(Nat), low : Nat, last : Seq(Nat)]
    /\ verdicts \in Seq([triggered : BOOLEAN, at : Nat, margin : Int, against : Seq(Nat)])
    /\ Len(verdicts) <= Len(Destinations)
    /\ survivors \subseteq Offered
    /\ DOMAIN by_destination = Places /\ DOMAIN by_origin = Origins

Earlier(n, d) == {m \in 1..(n - 1) : Fares(m, d) # {}}

\* Whether the n-th origin undercuts, by the threshold, every fare to d of two
\* or more origins before it: D12 as a formula, without the loop.
Undercuts(n, d) ==
    /\ \E m1, m2 \in Earlier(n, d) : m1 < m2
    /\ \E p \in Fares(n, d) : \A m \in Earlier(n, d) : \A q \in Fares(m, d) :
         q - p >= Threshold

\* What must be true of a verdict on destination d.
Grounded(v, d) ==
    IF v.triggered
    THEN /\ v.at \in 1..Len(planned)
         /\ Undercuts(v.at, d)
         /\ \A m \in 1..(v.at - 1) : ~Undercuts(m, d)
         /\ \E p \in Fares(v.at, d) : \A m \in Earlier(v.at, d) :
              \A q \in Fares(m, d) : v.margin <= q - p
         /\ {v.against[i] : i \in DOMAIN v.against} = Earlier(v.at, d)
    ELSE \A m \in 1..Len(planned) : ~Undercuts(m, d)

\* A verdict of the replay that triggers names the first origin, in priority
\* order, that undercuts; its margin is one no earlier fare belies, and it was
\* compared against every earlier origin with a fare.  A verdict that does not
\* trigger is given only where no origin undercuts.
VerdictsAreGrounded == \A n \in DOMAIN verdicts : Grounded(verdicts[n], Destinations[n])

Deduplicated == stage \in {"ranking", "done"}

\* Deduplication and scoring agree: of every flight somebody validly offered
\* one itinerary survives, and no itinerary that was dropped as its duplicate
\* would have been ranked before it.
NoDuplicateOutranks ==
    Deduplicated =>
      \A x \in Combined :
        \E s \in survivors : /\ s.flight = x.flight
                              /\ ~Precedes(x, s)
                              /\ \A t \in survivors : t.flight = x.flight => t = s

\* The stop side of an analysis and the ranking tell of the same fare, although
\* the first is made from the pools and the second from what deduplication
\* left: the stop itinerary of an analysis is the cheapest of the ranking's to
\* the destination.  Of the direct side only the verdict is held to: a direct
\* flight is "not recommended" only where that one is cheaper, by more than the
\* good-value difference, than every fare the direct searches of the destination
\* found.
AnalysesQuoteTheRanking ==
    Deduplicated =>
      \A n \in DOMAIN analyses :
        LET a == analyses[n]
            d == Destinations[n]
        IN  /\ a.stop = Cheapest({x \in To(d, survivors) : Stops(x) = 1})
            /\ a.tier = "NOT_RECOMMENDED" =>
                 \E s \in a.stop : \A x \in DirectPool(d) : x.price - s.price > GoodDiff

\* score_policy_divergence tells what a reader of the ranking would see: it is
\* set exactly when the tier favours the itinerary that the ranking's key puts
\* second.
DivergenceAgreesWithRanking ==
    \A n \in DOMAIN analyses :
      \A x \in analyses[n].direct, y \in analyses[n].stop :
        analyses[n].divergence <=> (FavoursDirect(analyses[n].tier) # Precedes(x, y))

\* The ranking is an order: the places are 1, 2, ... with none shared or left
\* out, and no two itineraries share their place by price.
RankingIsAnOrder ==
    /\ {e.by_score : e \in top} = 1..Cardinality(top)
    /\ \A e, f \in top : e.by_price = f.by_price \/ e.by_score = f.by_score => e = f

\* The three tables are cuts of one ranking, which is an order: the row of an
\* origin is the first of its itineraries in it, and a destination's table holds
\* its first ones, also where the global table shows none of them.
TablesAgree ==
    stage = "done" =>
      /\ RankingIsAnOrder
      /\ \A o \in Origins : \A x \in From(o, survivors) :
           \E e \in by_origin[o] : RankByScore(e.itinerary, survivors)
                                       <= RankByScore(x, survivors)
      /\ \A d \in Places : \A x \in To(d, survivors) :
           \/ \E e \in by_destination[d] : e.itinerary = x
           \/ Cardinality({e \in by_destination[d] : Precedes(e.itinerary, x)})
                = TopPerDestination

\* The rank by total_journey_score is "an actually-correct one that will diverge
\* once Phase 6 populates the ground components" (ranking.py): of two ranked
\* itineraries, from origins that cost different amounts to get to, the one with
\* the lower score has the lower rank.
JourneyRankFollowsScore ==
    \A e, f \in top : e.journey < f.journey => e.by_journey < f.by_journey
=============================================================================
