------------------------------- MODULE Offers --------------------------------
(***************************************************************************)
(* From a provider's payload to a verdict: the mappers turn local readings *)
(* of airport clocks into UTC instants, the constructors of Segment,       *)
(* Layover and Leg refuse what does not fit together, and                  *)
(* _normalize_and_validate runs every rule on every offer of a task.       *)
(*                                                                         *)
(* Time is a number of units since an epoch in UTC.  The clocks of a zone  *)
(* change at most once in the days a search is about: a zone is the        *)
(* instant of the change and the UTC offsets before and after it.  A       *)
(* reading is what a clock shows, a local time without its zone or fold.   *)
(***************************************************************************)
EXTENDS Integers, Sequences, FiniteSets, FiniteSetsExt

CONSTANTS Zone,       \* airport -> [at, before, after], the zone of its clocks
          Slices,     \* what the providers may send: [segments, duration]
          Request,    \* the SearchRequest
          DayLength,  \* units in a day
          Instants,   \* the instants the properties look for a reading at
          MaxOffers   \* bound: the offers of a task

\* The airports _resolve_iana_zone knows.
Airports == DOMAIN Zone

ASSUME OffersAssumption ==
    /\ Zone \in [Airports -> [at : Int, before : Int, after : Int]]
    /\ \A s \in Slices :
         /\ s.segments \in Seq([from : Airports, to : Airports, departing_at : Int,
                                arriving_at : Int, duration : Int])
         /\ s.segments # <<>>
    /\ {Request.layover_min, Request.layover_max, Request.max_stops,
        Request.departure_date} \subseteq Int
    /\ DayLength \in Nat \ {0}
    /\ Instants \subseteq Int
    /\ MaxOffers \in Nat

\* Whatever a clock of a payload shows, the properties look at the instants it may
\* have shown it at.
ASSUME InstantsAssumption ==
    \A s \in Slices : \A i \in DOMAIN s.segments :
       LET g == s.segments[i]
           from == Zone[g.from]
           to == Zone[g.to]
       IN  {g.departing_at - from.before, g.departing_at - from.after,
            g.arriving_at - to.before, g.arriving_at - to.after} \subseteq Instants

VARIABLES stage,     \* "mapping", "judging", "done"; "raised" ends the run
          offers,    \* raw_offers, as mapped
          results,   \* validation_results: the codes of the rejections of each
          valid,     \* valid_itineraries, as places in offers
          transfers  \* self_transfer_rejections, likewise

vars == <<stage, offers, results, valid, transfers>>

-----------------------------------------------------------------------------
(* Clocks *)

\* What a clock of zone z shows at instant t.
Reading(z, t) == t + (IF t < z.at THEN z.before ELSE z.after)

Larger(z) == IF z.before < z.after THEN z.after ELSE z.before
Smaller(z) == IF z.before < z.after THEN z.before ELSE z.after

\* utcoffset of a reading (PEP 495): in a repeated or skipped stretch fold 0
\* takes the offset before the change and fold 1 the one after it.
UtcOffset(z, r, fold) ==
    IF r < z.at + (IF fold = 0 THEN Larger(z) ELSE Smaller(z)) THEN z.before ELSE z.after

\* _resolve_utc, and _to_utc of the mappers.
ToUtc(z, r, fold) == r - UtcOffset(z, r, fold)

\* Mutant: a fall-back reading is taken for a normal one.
ClassifyGapsOnly(z, r) ==
    IF UtcOffset(z, r, 0) = UtcOffset(z, r, 1) THEN "normal"
    ELSE IF Reading(z, ToUtc(z, r, 0)) # r THEN "imaginary" ELSE "normal"

classify_local_time(z, r) ==
    IF UtcOffset(z, r, 0) = UtcOffset(z, r, 1) THEN "normal"
    ELSE IF Reading(z, ToUtc(z, r, 0)) # r THEN "imaginary" ELSE "ambiguous"

-----------------------------------------------------------------------------
(* Mapping *)

\* map_segment: a reading is resolved with fold 0, whichever of the two it was.
MapSegment(s) == [from |-> s.from, to |-> s.to,
                  depart_local |-> s.departing_at,
                  arrive_local |-> s.arriving_at,
                  depart_utc |-> ToUtc(Zone[s.from], s.departing_at, 0),
                  arrive_utc |-> ToUtc(Zone[s.to], s.arriving_at, 0),
                  duration |-> s.duration]

MapLeg(s) == [i \in DOMAIN s.segments |-> MapSegment(s.segments[i])]

\* The validator of Segment; depart_fold and arrive_fold keep their default 0.
SegmentFits(g) == /\ g.depart_utc < g.arrive_utc
                  /\ g.duration = g.arrive_utc - g.depart_utc
                  /\ ToUtc(Zone[g.from], g.depart_local, 0) = g.depart_utc
                  /\ ToUtc(Zone[g.to], g.arrive_local, 0) = g.arrive_utc

Layovers(leg) == 1..(Len(leg) - 1)

\* Mutant: the layover is the difference of the clocks' readings.
LayoverOnTheClock(leg, i) == leg[i + 1].depart_local - leg[i].arrive_local

LayoverDuration(leg, i) == leg[i + 1].depart_utc - leg[i].arrive_utc

TotalDuration(leg) == leg[Len(leg)].arrive_utc - leg[1].depart_utc

\* The validators of Layover and Leg, and map_leg's check of the total.
LegFits(leg, stated) ==
    /\ \A i \in DOMAIN leg : SegmentFits(leg[i])
    /\ \A i \in Layovers(leg) : /\ leg[i].to = leg[i + 1].from
                                /\ LayoverDuration(leg, i) > 0
    /\ TotalDuration(leg) = stated

Init == /\ stage = "mapping"
        /\ offers = <<>>
        /\ results = <<>>
        /\ valid = {}
        /\ transfers = {}

\* One offer of the response.  The mappers leave is_self_transfer FALSE; another
\* implementation of the provider protocol may set it.
MapOffer ==
    /\ stage = "mapping"
    /\ Len(offers) < MaxOffers
    /\ \E s \in Slices, eur, transfer \in BOOLEAN :
         /\ LegFits(MapLeg(s), s.duration)
         /\ transfer => Len(s.segments) > 1
         /\ offers' = Append(offers, [leg |-> MapLeg(s), eur |-> eur, transfer |-> transfer])
    /\ UNCHANGED <<stage, results, valid, transfers>>

\* The ValueError of a constructor or of map_leg escapes map_offer, and the offers
\* already mapped are lost with it.  An airport without a zone raises likewise; the
\* slices name airports that have one.
MappingRaises ==
    /\ stage = "mapping"
    /\ Len(offers) < MaxOffers
    /\ \E s \in Slices : ~LegFits(MapLeg(s), s.duration)
    /\ stage' = "raised"
    /\ UNCHANGED <<offers, results, valid, transfers>>

Mapped == /\ stage = "mapping"
          /\ stage' = "judging"
          /\ UNCHANGED <<offers, results, valid, transfers>>

-----------------------------------------------------------------------------
(* The rules, each giving at most one code *)

Code(c, holds) == IF holds THEN {c} ELSE {}

check_stop_count(leg) == Code("too_many_stops", Len(leg) - 1 > Request.max_stops)

TooShort(d) == d < Request.layover_min
\* Mutant: the window is open.
TooLongOrAtTheLimit(d) == d >= Request.layover_max

TooLong(d) == d > Request.layover_max

\* The first layover outside the window decides the code.
check_layover_window(leg) ==
    LET outside == {i \in Layovers(leg) : TooShort(LayoverDuration(leg, i))
                                            \/ TooLong(LayoverDuration(leg, i))}
    IN  IF outside = {} THEN {}
        ELSE IF TooShort(LayoverDuration(leg, Min(outside)))
             THEN {"layover_too_short"} ELSE {"layover_too_long"}

check_origin_match(leg) == Code("origin_mismatch", leg[1].from # Request.origin)
check_destination_match(leg) ==
    Code("destination_mismatch", leg[Len(leg)].to # Request.destination)

check_departure_date(leg) ==
    Code("date_mismatch", leg[1].depart_local \div DayLength # Request.departure_date)

\* The 2i-1st clock of a leg is read at the departure of segment i, the next one
\* at its arrival.
Clocks(leg) == 1..(2 * Len(leg))
ClockOf(leg, k) == LET g == leg[(k + 1) \div 2]
                   IN  IF k % 2 = 1 THEN [zone |-> Zone[g.from], reads |-> g.depart_local]
                                    ELSE [zone |-> Zone[g.to], reads |-> g.arrive_local]

\* The first reading that is not normal decides the code.
check_local_time_validity(leg) ==
    LET kind(k) == classify_local_time(ClockOf(leg, k).zone, ClockOf(leg, k).reads)
        odd == {k \in Clocks(leg) : kind(k) # "normal"}
    IN  IF odd = {} THEN {}
        ELSE IF kind(Min(odd)) = "ambiguous"
             THEN {"ambiguous_local_time"} ELSE {"nonexistent_local_time"}

check_self_transfer(o) == Code("self_transfer", o.transfer)

\* validate: every rule runs, whatever the others said.
Rejections(o) == check_stop_count(o.leg) \cup check_layover_window(o.leg)
                   \cup check_origin_match(o.leg) \cup check_destination_match(o.leg)
                   \cup check_departure_date(o.leg) \cup check_local_time_validity(o.leg)
                   \cup check_self_transfer(o)

\* Mutant: an offer gets into the appendix only if nothing else is wrong with it.
OnlyForTransfer(codes) == codes = {"self_transfer"}

ForTransfer(codes) == "self_transfer" \in codes

\* Mutant: the loop passes over the first offer.
FromTheSecond == Len(results) + 2

Current == Len(results) + 1

JudgeOffer ==
    /\ stage = "judging"
    /\ Current \in DOMAIN offers
    /\ offers[Current].eur
    /\ LET codes == Rejections(offers[Current])
       IN  /\ results' = Append(results, codes)
           /\ valid' = IF codes = {} THEN valid \cup {Current} ELSE valid
           /\ transfers' = IF ForTransfer(codes) THEN transfers \cup {Current} ELSE transfers
    /\ UNCHANGED <<stage, offers>>

\* UnsupportedCurrencyError leaves _normalize_and_validate, and nothing catches it.
CurrencyRaises ==
    /\ stage = "judging"
    /\ Current \in DOMAIN offers
    /\ ~offers[Current].eur
    /\ stage' = "raised"
    /\ UNCHANGED <<offers, results, valid, transfers>>

Judged == /\ stage = "judging"
          /\ Len(results) = Len(offers)
          /\ stage' = "done"
          /\ UNCHANGED <<offers, results, valid, transfers>>

Next == MapOffer \/ MappingRaises \/ Mapped \/ JudgeOffer \/ CurrencyRaises \/ Judged

Spec == Init /\ [][Next]_vars

-----------------------------------------------------------------------------
(* Properties *)

Codes == {"too_many_stops", "layover_too_short", "layover_too_long", "origin_mismatch",
          "destination_mismatch", "date_mismatch", "ambiguous_local_time",
          "nonexistent_local_time", "self_transfer"}

Segments == [from : Airports, to : Airports, depart_local : Int, arrive_local : Int,
             depart_utc : Int, arrive_utc : Int, duration : Int]

\* The values of the variables: a verdict for each offer judged so far, in order,
\* and the two lists that _normalize_and_validate fills refer to judged offers.
TypeOK == /\ stage \in {"mapping", "judging", "done", "raised"}
          /\ offers \in Seq([leg : Seq(Segments), eur : BOOLEAN, transfer : BOOLEAN])
          /\ Len(offers) <= MaxOffers
          /\ results \in Seq(SUBSET Codes)
          /\ Len(results) <= Len(offers)
          /\ valid \cup transfers \subseteq DOMAIN results

\* When a clock of zone z shows r: never, once, or twice.
ShownAt(z, r) == {t \in Instants : Reading(z, t) = r}

\* The readings of an accepted offer have one meaning, and it is the one the code
\* took them for: a clock shows each of them at the UTC instant of the segment and
\* at no other.  The mappers resolve every reading with fold 0 and a flight of the
\* repeated hour may fit its duration an hour early; only the rule on local times
\* keeps it from being ranked.
AcceptedReadsOneWay ==
    \A i \in valid : \A j \in DOMAIN offers[i].leg :
       LET g == offers[i].leg[j]
       IN  \A t \in Instants :
             /\ (Reading(Zone[g.from], t) = g.depart_local) <=> (t = g.depart_utc)
             /\ (Reading(Zone[g.to], t) = g.arrive_local) <=> (t = g.arrive_utc)

\* A traveller who watches the clock of the hub waits between layover_min and
\* layover_max in every accepted connection, whatever the clock did meanwhile:
\* from any instant it shows the arrival to any instant it shows the departure.
AcceptedConnectionsHold ==
    \A i \in valid : \A j \in Layovers(offers[i].leg) :
       LET come == offers[i].leg[j]
           go   == offers[i].leg[j + 1]
       IN  \A t, u \in Instants :
             (Reading(Zone[come.to], t) = come.arrive_local
                /\ Reading(Zone[go.from], u) = go.depart_local)
             => /\ Request.layover_min <= u - t
                /\ u - t <= Request.layover_max

\* What the request asks for, told from the payload's readings alone: each is
\* shown exactly once, and the waits are those between the instants.
AsRequested(leg) ==
    /\ Len(leg) <= Request.max_stops + 1
    /\ leg[1].from = Request.origin
    /\ leg[Len(leg)].to = Request.destination
    /\ \E hour \in 0..(DayLength - 1) :
          leg[1].depart_local = Request.departure_date * DayLength + hour
    /\ \A g \in {leg[j] : j \in DOMAIN leg} :
          /\ Cardinality(ShownAt(Zone[g.from], g.depart_local)) = 1
          /\ Cardinality(ShownAt(Zone[g.to], g.arrive_local)) = 1
    /\ \A j \in 1..(Len(leg) - 1) :
          \E t \in ShownAt(Zone[leg[j].to], leg[j].arrive_local),
             u \in ShownAt(Zone[leg[j + 1].from], leg[j + 1].depart_local) :
                u - t \in Request.layover_min..Request.layover_max

\* How often the clocks of a leg show their readings.
TimesShown(leg) == {Cardinality(ShownAt(ClockOf(leg, k).zone, ClockOf(leg, k).reads)) :
                       k \in Clocks(leg)}

\* No offer that is what the request asks for is turned down: an offer judged and
\* not accepted is a self-transfer or fails AsRequested.  And the code tells the
\* traveller the truth: a reading called ambiguous is on a clock twice, one called
\* nonexistent never.
RejectionsAreDeserved ==
    \A i \in DOMAIN results :
       /\ i \in valid \/ offers[i].transfer \/ ~AsRequested(offers[i].leg)
       /\ "ambiguous_local_time" \in results[i] => 2 \in TimesShown(offers[i].leg)
       /\ "nonexistent_local_time" \in results[i] => 0 \in TimesShown(offers[i].leg)

\* The appendix of the report holds every self-transfer of the task, whatever else
\* is wrong with it, and nothing that is ranked.
TransfersAreKept ==
    /\ transfers \cap valid = {}
    /\ transfers = {i \in DOMAIN results : offers[i].transfer}
    /\ stage = "done" => Len(results) = Len(offers)
=============================================================================
