---------------------------- MODULE OffersProofs -----------------------------
(***************************************************************************)
(* Theorems about Offers, for every set of zones whose clocks change at    *)
(* most once, every set of payloads and every request.                     *)
(***************************************************************************)
EXTENDS Offers, FiniteSetTheorems, TLAPS

Zones == [at : Int, before : Int, after : Int]
Offer == [leg : Seq(Segments), eur : BOOLEAN, transfer : BOOLEAN]

\* What the constructors guarantee of a leg.
LegSound(leg) == /\ \A i \in DOMAIN leg : SegmentFits(leg[i])
                 /\ \A i \in Layovers(leg) : leg[i].to = leg[i + 1].from

\* What the loop of _normalize_and_validate has made of the offers judged so far.
VerdictsFollow ==
    /\ \A i \in DOMAIN results : results[i] = Rejections(offers[i])
    /\ \A i \in DOMAIN results : i \in valid <=> results[i] = {}
    /\ \A i \in DOMAIN results : i \in transfers <=> "self_transfer" \in results[i]

IInv == /\ TypeOK
        /\ \A i \in DOMAIN offers : LegSound(offers[i].leg)
        /\ VerdictsFollow
        /\ stage = "done" => Len(results) = Len(offers)

-----------------------------------------------------------------------------
(* Sequences *)

\* The places and the elements of a sequence.
LEMMA Elements ==
    ASSUME NEW T, NEW s \in Seq(T)
    PROVE  /\ Len(s) \in Nat
           /\ DOMAIN s = 1..Len(s)
           /\ \A i \in DOMAIN s : s[i] \in T
  OBVIOUS

\* A sequence that is not empty has a first element.
LEMMA NotEmpty == ASSUME NEW T, NEW s \in Seq(T), s # <<>> PROVE 1 \in DOMAIN s
<1>1. Len(s) \in Nat /\ DOMAIN s = 1..Len(s)
  OBVIOUS
<1>2. Len(s) # 0
  OBVIOUS
<1> QED BY <1>1, <1>2

\* What an Append leaves alone and what it adds.
LEMMA Appended ==
    ASSUME NEW T, NEW s \in Seq(T), NEW e \in T
    PROVE  /\ Append(s, e) \in Seq(T)
           /\ Len(Append(s, e)) = Len(s) + 1
           /\ DOMAIN Append(s, e) = DOMAIN s \cup {Len(s) + 1}
           /\ Len(s) + 1 \notin DOMAIN s
           /\ \A i \in DOMAIN s : Append(s, e)[i] = s[i]
           /\ Append(s, e)[Len(s) + 1] = e
  OBVIOUS

-----------------------------------------------------------------------------
(* Clocks *)

\* classify_local_time is right: a reading it calls normal is shown at the instant
\* fold 0 resolves it to, and at no other.
LEMMA NormalReadsOneWay ==
    ASSUME NEW z \in Zones, NEW r \in Int, classify_local_time(z, r) = "normal",
           NEW t \in Int
    PROVE  Reading(z, t) = r <=> t = ToUtc(z, r, 0)
<1>1. z.at \in Int /\ z.before \in Int /\ z.after \in Int
  BY DEF Zones
<1>2. UtcOffset(z, r, 0) = UtcOffset(z, r, 1)
  BY DEF classify_local_time
<1>3. \/ r < z.at + Larger(z) /\ r < z.at + Smaller(z)
      \/ ~(r < z.at + Larger(z)) /\ ~(r < z.at + Smaller(z))
      \/ z.before = z.after
  BY <1>2 DEF UtcOffset
<1> QED BY <1>1, <1>3 DEF Reading, ToUtc, UtcOffset, Larger, Smaller

\* The resolution of a reading is an instant.
LEMMA ToUtcInt == ASSUME NEW z \in Zones, NEW r \in Int PROVE ToUtc(z, r, 0) \in Int
  BY DEF Zones, ToUtc, UtcOffset

-----------------------------------------------------------------------------
(* Mapping *)

\* Every airport has a zone.
LEMMA ZoneOf == ASSUME NEW a \in Airports PROVE Zone[a] \in Zones
  BY OffersAssumption DEF Airports, Zones

\* A mapped leg is a sequence of segments, one for each of the slice.
LEMMA MapLegType ==
    ASSUME NEW s \in Slices
    PROVE  MapLeg(s) \in Seq(Segments)
<1> DEFINE Raw == [from : Airports, to : Airports, departing_at : Int,
                   arriving_at : Int, duration : Int]
<1>1. s.segments \in Seq(Raw)
  BY OffersAssumption
<1>2. \A i \in DOMAIN s.segments : s.segments[i] \in Raw
  BY <1>1, Elements
<1>3. \A i \in DOMAIN s.segments : MapSegment(s.segments[i]) \in Segments
  <2> TAKE i \in DOMAIN s.segments
  <2> DEFINE g == s.segments[i]
  <2>1. /\ g.from \in Airports /\ g.to \in Airports
        /\ g.departing_at \in Int /\ g.arriving_at \in Int /\ g.duration \in Int
    BY <1>2
  <2>2. /\ ToUtc(Zone[g.from], g.departing_at, 0) \in Int
        /\ ToUtc(Zone[g.to], g.arriving_at, 0) \in Int
    BY <2>1, ZoneOf, ToUtcInt
  <2> HIDE DEF g
  <2>3. MapSegment(g) \in Segments
    BY <2>1, <2>2 DEF MapSegment, Segments
  <2> QED BY <2>3 DEF g
<1>4. DOMAIN s.segments = 1..Len(s.segments) /\ Len(s.segments) \in Nat
  BY <1>1
<1>5. MapLeg(s) \in [1..Len(s.segments) -> Segments]
  BY <1>3, <1>4 DEF MapLeg
<1>6. \A n \in Nat : [1..n -> Segments] \subseteq Seq(Segments)
  OBVIOUS
<1> QED BY <1>4, <1>5, <1>6

-----------------------------------------------------------------------------
(* The rules *)

\* Every rule answers with codes.
LEMMA RejectionsType == ASSUME NEW o PROVE Rejections(o) \in SUBSET Codes
  BY DEF Rejections, Code, Codes, check_stop_count, check_layover_window,
         check_origin_match, check_destination_match, check_departure_date,
         check_local_time_validity, check_self_transfer

\* Only the rule on self-transfers gives their code.
LEMMA OnlyTransfers ==
    ASSUME NEW o, o.transfer \in BOOLEAN
    PROVE  "self_transfer" \in Rejections(o) <=> o.transfer
<1>1. "self_transfer" \notin check_layover_window(o.leg)
  BY DEF check_layover_window
<1>2. "self_transfer" \notin check_local_time_validity(o.leg)
  BY DEF check_local_time_validity
<1>3. /\ "self_transfer" \notin check_stop_count(o.leg)
      /\ "self_transfer" \notin check_origin_match(o.leg)
      /\ "self_transfer" \notin check_destination_match(o.leg)
      /\ "self_transfer" \notin check_departure_date(o.leg)
  BY DEF Code, check_stop_count, check_origin_match, check_destination_match,
         check_departure_date
<1>4. "self_transfer" \in check_self_transfer(o) <=> o.transfer
  BY DEF Code, check_self_transfer
<1> QED BY <1>1, <1>2, <1>3, <1>4 DEF Rejections

\* An offer without a code: all its readings are normal and its layovers fit.
LEMMA CleanOffers ==
    ASSUME NEW o, Rejections(o) = {}
    PROVE  /\ \A k \in Clocks(o.leg) :
                classify_local_time(ClockOf(o.leg, k).zone, ClockOf(o.leg, k).reads) = "normal"
           /\ \A i \in Layovers(o.leg) : /\ ~TooShort(LayoverDuration(o.leg, i))
                                         /\ ~TooLong(LayoverDuration(o.leg, i))
<1>1. check_local_time_validity(o.leg) = {} /\ check_layover_window(o.leg) = {}
  BY DEF Rejections
<1>2. {k \in Clocks(o.leg) : classify_local_time(ClockOf(o.leg, k).zone,
                                                ClockOf(o.leg, k).reads) # "normal"} = {}
  BY <1>1 DEF check_local_time_validity
<1>3. {i \in Layovers(o.leg) : TooShort(LayoverDuration(o.leg, i))
                                 \/ TooLong(LayoverDuration(o.leg, i))} = {}
  BY <1>1 DEF check_layover_window
<1> QED BY <1>2, <1>3

-----------------------------------------------------------------------------
(* The invariant *)

\* The strengthened invariant holds in every reachable state.
THEOREM Invariance == Spec => []IInv
<1>1. Init => IInv
  BY OffersAssumption DEF Init, IInv, TypeOK, VerdictsFollow, Codes, Segments
<1>2. IInv /\ [Next]_vars => IInv'
  <2> SUFFICES ASSUME IInv, [Next]_vars PROVE IInv'
    OBVIOUS
  <2> USE DEF IInv
  <2>0. /\ offers \in Seq(Offer) /\ results \in Seq(SUBSET Codes)
        /\ Len(offers) \in Nat /\ Len(results) \in Nat
        /\ DOMAIN offers = 1..Len(offers) /\ DOMAIN results = 1..Len(results)
        /\ Len(results) <= Len(offers) /\ valid \cup transfers \subseteq DOMAIN results
    BY DEF TypeOK, Offer
  <2>1. CASE MapOffer
    <3>1. PICK s \in Slices, eur \in BOOLEAN, transfer \in BOOLEAN :
             /\ LegFits(MapLeg(s), s.duration)
             /\ offers' = Append(offers, [leg |-> MapLeg(s), eur |-> eur,
                                          transfer |-> transfer])
      BY <2>1 DEF MapOffer
    <3> DEFINE new == [leg |-> MapLeg(s), eur |-> eur, transfer |-> transfer]
    <3>2. new \in Offer
      BY MapLegType DEF Offer
    <3>3. LegSound(new.leg)
      BY <3>1 DEF LegFits, LegSound
    <3> HIDE DEF new
    <3>4. /\ offers' \in Seq(Offer) /\ Len(offers') = Len(offers) + 1
          /\ DOMAIN offers' = DOMAIN offers \cup {Len(offers) + 1}
          /\ \A i \in DOMAIN offers : offers'[i] = offers[i]
          /\ offers'[Len(offers) + 1] = new
      <4>1. offers' = Append(offers, new)
        BY <3>1 DEF new
      <4> HIDE DEF new
      <4>2. offers \in Seq(Offer)
        BY <2>0
      <4>3. Append(offers, new) \in Seq(Offer) /\ Len(Append(offers, new)) = Len(offers) + 1
        BY <3>2, <4>2
      <4>4. DOMAIN Append(offers, new) = DOMAIN offers \cup {Len(offers) + 1}
        BY <3>2, <4>2
      <4>5. /\ \A i \in DOMAIN offers : Append(offers, new)[i] = offers[i]
            /\ Append(offers, new)[Len(offers) + 1] = new
        BY <3>2, <4>2
      <4> QED BY <4>1, <4>3, <4>4, <4>5
    <3>5. Len(offers) < MaxOffers /\ MaxOffers \in Nat /\ stage = "mapping"
      BY <2>1, OffersAssumption DEF MapOffer
    <3>6. TypeOK'
      BY <2>0, <2>1, <3>4, <3>5 DEF MapOffer, TypeOK, Offer
    <3>7. \A i \in DOMAIN offers' : LegSound(offers'[i].leg)
      BY <3>3, <3>4
    <3>8. \A i \in DOMAIN results : offers'[i] = offers[i]
      <4> DEFINE m == Len(results)
                 n == Len(offers)
      <4>0. m \in Nat /\ n \in Nat /\ m <= n
        BY <2>0
      <4>1. \A i \in 1..m : i \in 1..n
        <5> HIDE DEF m, n
        <5> QED BY <4>0
      <4> QED BY <2>0, <3>4, <4>1
    <3>9. VerdictsFollow'
      BY <2>1, <3>8 DEF MapOffer, VerdictsFollow
    <3> QED BY <2>1, <3>5, <3>6, <3>7, <3>9 DEF MapOffer
  <2>2. CASE MappingRaises
    BY <2>2 DEF MappingRaises, TypeOK, VerdictsFollow
  <2>3. CASE Mapped
    BY <2>3 DEF Mapped, TypeOK, VerdictsFollow
  <2>4. CASE JudgeOffer
    <3> DEFINE codes == Rejections(offers[Current])
    <3>1. /\ results' = Append(results, codes)
          /\ valid' = IF codes = {} THEN valid \cup {Current} ELSE valid
          /\ transfers' = IF ForTransfer(codes) THEN transfers \cup {Current} ELSE transfers
          /\ UNCHANGED <<stage, offers>> /\ stage = "judging"
          /\ Current \in DOMAIN offers
      BY <2>4 DEF JudgeOffer
    <3>2. codes \in SUBSET Codes
      BY RejectionsType
    <3> HIDE DEF codes
    <3>3. /\ results' \in Seq(SUBSET Codes) /\ Len(results') = Len(results) + 1
          /\ DOMAIN results' = DOMAIN results \cup {Current}
          /\ Current \notin DOMAIN results
          /\ \A i \in DOMAIN results : results'[i] = results[i]
          /\ results'[Current] = codes
      BY <2>0, <3>1, <3>2, Appended DEF Current
    <3>4. TypeOK'
      BY <2>0, <3>1, <3>3 DEF TypeOK, Current
    <3>5. \A i \in DOMAIN results' : i \in DOMAIN results \/ i = Current
      BY <3>3
    <3>6. Current \notin valid /\ Current \notin transfers /\ Current \notin DOMAIN results
      BY <2>0, <3>3
    <3>7. VerdictsFollow'
      <4>1. \A i \in DOMAIN results' : results'[i] = Rejections(offers'[i])
        BY <3>1, <3>3, <3>5 DEF VerdictsFollow, codes
      <4>2. \A i \in DOMAIN results' : i \in valid' <=> results'[i] = {}
        BY <3>1, <3>3, <3>5, <3>6 DEF VerdictsFollow
      <4>3. \A i \in DOMAIN results' : i \in transfers' <=> "self_transfer" \in results'[i]
        BY <3>1, <3>3, <3>5, <3>6 DEF VerdictsFollow, ForTransfer
      <4> QED BY <4>1, <4>2, <4>3 DEF VerdictsFollow
    <3> QED BY <3>1, <3>4, <3>7
  <2>5. CASE CurrencyRaises
    BY <2>5 DEF CurrencyRaises, TypeOK, VerdictsFollow
  <2>6. CASE Judged
    BY <2>6 DEF Judged, TypeOK, VerdictsFollow
  <2>7. CASE UNCHANGED vars
    BY <2>7 DEF vars, TypeOK, VerdictsFollow
  <2> QED BY <2>1, <2>2, <2>3, <2>4, <2>5, <2>6, <2>7 DEF Next
<1> QED BY <1>1, <1>2, PTL DEF Spec

\* The values of the variables, with a verdict for each offer judged so far.
THEOREM TypeCorrect == Spec => []TypeOK
<1>1. IInv => TypeOK
  BY DEF IInv
<1> QED BY <1>1, Invariance, PTL

-----------------------------------------------------------------------------
(* What a verdict is worth *)

\* A valid offer has no code, and its leg passed the constructors.
LEMMA ValidIsClean ==
    ASSUME IInv, NEW i \in valid
    PROVE  /\ Rejections(offers[i]) = {}
           /\ LegSound(offers[i].leg)
           /\ offers[i].leg \in Seq(Segments)
<1>1. /\ offers \in Seq(Offer) /\ results \in Seq(SUBSET Codes)
      /\ Len(results) <= Len(offers) /\ i \in DOMAIN results
  BY DEF IInv, TypeOK, Offer
<1>2. i \in DOMAIN offers
  BY <1>1, Elements
<1>3. offers[i] \in Offer
  BY <1>1, <1>2, Elements
<1> QED BY <1>1, <1>2, <1>3 DEF IInv, VerdictsFollow, Offer

\* The readings of a clean, sound leg have the meaning the code took them for.
LEMMA CleanReadings ==
    ASSUME NEW o, o.leg \in Seq(Segments), LegSound(o.leg), Rejections(o) = {},
           NEW j \in DOMAIN o.leg, NEW t \in Int
    PROVE  LET g == o.leg[j]
           IN  /\ (Reading(Zone[g.from], t) = g.depart_local) <=> (t = g.depart_utc)
               /\ (Reading(Zone[g.to], t) = g.arrive_local) <=> (t = g.arrive_utc)
<1> DEFINE g == o.leg[j]
<1>1. j \in Nat \ {0} /\ j <= Len(o.leg) /\ Len(o.leg) \in Nat /\ g \in Segments
  OBVIOUS
<1>2. /\ 2 * j - 1 \in Clocks(o.leg) /\ 2 * j \in Clocks(o.leg)
  BY <1>1 DEF Clocks
<1>3. /\ (2 * j - 1 + 1) \div 2 = j /\ (2 * j - 1) % 2 = 1
      /\ (2 * j + 1) \div 2 = j /\ (2 * j) % 2 = 0
  BY <1>1
<1>4. /\ ClockOf(o.leg, 2 * j - 1) = [zone |-> Zone[g.from], reads |-> g.depart_local]
      /\ ClockOf(o.leg, 2 * j) = [zone |-> Zone[g.to], reads |-> g.arrive_local]
  <2>1. (2 * j - 1 + 1) \div 2 = j /\ (2 * j + 1) \div 2 = j
    BY <1>3
  <2>2. (2 * j - 1) % 2 = 1 /\ (2 * j) % 2 # 1
    BY <1>3
  <2> QED BY <2>1, <2>2 DEF ClockOf
<1>5. /\ classify_local_time(Zone[g.from], g.depart_local) = "normal"
      /\ classify_local_time(Zone[g.to], g.arrive_local) = "normal"
  <2> HIDE DEF g
  <2>1. \A k \in Clocks(o.leg) :
          classify_local_time(ClockOf(o.leg, k).zone, ClockOf(o.leg, k).reads) = "normal"
    BY CleanOffers
  <2>2. /\ ClockOf(o.leg, 2 * j - 1).zone = Zone[g.from]
        /\ ClockOf(o.leg, 2 * j - 1).reads = g.depart_local
        /\ ClockOf(o.leg, 2 * j).zone = Zone[g.to]
        /\ ClockOf(o.leg, 2 * j).reads = g.arrive_local
    BY <1>4
  <2> QED BY <1>2, <2>1, <2>2
<1>6. /\ ToUtc(Zone[g.from], g.depart_local, 0) = g.depart_utc
      /\ ToUtc(Zone[g.to], g.arrive_local, 0) = g.arrive_utc
  BY DEF LegSound, SegmentFits
<1>7. /\ Zone[g.from] \in Zones /\ Zone[g.to] \in Zones
      /\ g.depart_local \in Int /\ g.arrive_local \in Int
  BY <1>1, ZoneOf DEF Segments
<1> HIDE DEF g
<1>8. /\ (Reading(Zone[g.from], t) = g.depart_local) <=> (t = g.depart_utc)
      /\ (Reading(Zone[g.to], t) = g.arrive_local) <=> (t = g.arrive_utc)
  BY <1>5, <1>6, <1>7, NormalReadsOneWay
<1> QED BY <1>8 DEF g

\* No flight is ranked at an hour its readings could also not mean: the rule on
\* local times makes up for the fold that the mappers drop.
THEOREM ReadingsAreUnambiguous == Spec => []AcceptedReadsOneWay
<1>1. IInv => AcceptedReadsOneWay
  <2> SUFFICES ASSUME IInv, NEW i \in valid, NEW j \in DOMAIN offers[i].leg,
                      NEW t \in Instants
               PROVE  LET g == offers[i].leg[j]
                      IN  /\ (Reading(Zone[g.from], t) = g.depart_local) <=> (t = g.depart_utc)
                          /\ (Reading(Zone[g.to], t) = g.arrive_local) <=> (t = g.arrive_utc)
    BY DEF AcceptedReadsOneWay
  <2>1. t \in Int
    BY OffersAssumption
  <2> QED BY <2>1, ValidIsClean, CleanReadings
<1> QED BY <1>1, Invariance, PTL

\* The layover window is kept by the traveller's own clock, through any change of
\* the hub's.
THEOREM ConnectionsHold == Spec => []AcceptedConnectionsHold
<1>1. IInv => AcceptedConnectionsHold
  <2> SUFFICES ASSUME IInv, NEW i \in valid, NEW j \in Layovers(offers[i].leg),
                      NEW t \in Instants, NEW u \in Instants,
                      Reading(Zone[offers[i].leg[j].to], t) = offers[i].leg[j].arrive_local,
                      Reading(Zone[offers[i].leg[j + 1].from], u)
                        = offers[i].leg[j + 1].depart_local
               PROVE  /\ Request.layover_min <= u - t
                      /\ u - t <= Request.layover_max
    BY DEF AcceptedConnectionsHold
  <2> DEFINE leg == offers[i].leg
  <2>1. /\ Rejections(offers[i]) = {} /\ LegSound(leg) /\ leg \in Seq(Segments)
    BY ValidIsClean
  <2>2. /\ j \in DOMAIN leg /\ j + 1 \in DOMAIN leg
    BY <2>1 DEF Layovers
  <2>3. t \in Int /\ u \in Int
    BY OffersAssumption
  <2>4. t = leg[j].arrive_utc /\ u = leg[j + 1].depart_utc
    BY <2>1, <2>2, <2>3, CleanReadings
  <2>5. ~TooShort(LayoverDuration(leg, j)) /\ ~TooLong(LayoverDuration(leg, j))
    BY <2>1, CleanOffers
  <2>6. LayoverDuration(leg, j) = u - t
    BY <2>4 DEF LayoverDuration
  <2>7. Request.layover_min \in Int /\ Request.layover_max \in Int
    BY OffersAssumption
  <2> HIDE DEF leg
  <2> QED BY <2>3, <2>5, <2>6, <2>7 DEF TooShort, TooLong
<1> QED BY <1>1, Invariance, PTL

\* Every self-transfer of the task reaches the appendix, and no valid list.
THEOREM TransfersReachTheAppendix == Spec => []TransfersAreKept
<1>1. IInv => TransfersAreKept
  <2> SUFFICES ASSUME IInv PROVE TransfersAreKept
    OBVIOUS
  <2>1. \A i \in DOMAIN results : offers[i].transfer \in BOOLEAN
    <3>1. /\ offers \in Seq(Offer) /\ results \in Seq(SUBSET Codes)
          /\ Len(results) <= Len(offers)
      BY DEF IInv, TypeOK, Offer
    <3>2. \A i \in DOMAIN results : i \in DOMAIN offers
      BY <3>1, Elements
    <3>3. \A i \in DOMAIN results : offers[i] \in Offer
      BY <3>1, <3>2, Elements
    <3> QED BY <3>3 DEF Offer
  <2>2. \A i \in DOMAIN results : i \in transfers <=> offers[i].transfer
    BY <2>1, OnlyTransfers DEF IInv, VerdictsFollow
  <2>3. transfers \subseteq DOMAIN results /\ valid \subseteq DOMAIN results
    BY DEF IInv, TypeOK
  <2>4. transfers = {i \in DOMAIN results : offers[i].transfer}
    BY <2>2, <2>3
  <2>5. transfers \cap valid = {}
    BY <2>3 DEF IInv, VerdictsFollow
  <2> QED BY <2>4, <2>5 DEF IInv, TransfersAreKept
<1> QED BY <1>1, Invariance, PTL

-----------------------------------------------------------------------------
(* What a rejection is worth *)

\* The instants at which a clock can have shown what the segments of leg say are
\* among those the properties look at.
Seen(leg) == \A j \in DOMAIN leg :
    LET g == leg[j]
    IN  {g.depart_local - Zone[g.from].before, g.depart_local - Zone[g.from].after,
         g.arrive_local - Zone[g.to].before, g.arrive_local - Zone[g.to].after}
           \subseteq Instants

AllSeen == \A i \in DOMAIN offers : Seen(offers[i].leg)

\* classify_local_time tells how often a clock shows a reading: once if it is
\* normal, twice if it is ambiguous, never if it is imaginary.
LEMMA ClassifyCounts ==
    ASSUME NEW z \in Zones, NEW r \in Int, {r - z.before, r - z.after} \subseteq Instants
    PROVE  /\ classify_local_time(z, r) \in {"normal", "ambiguous", "imaginary"}
           /\ classify_local_time(z, r) = "normal" => ShownAt(z, r) = {ToUtc(z, r, 0)}
           /\ classify_local_time(z, r) = "ambiguous" => Cardinality(ShownAt(z, r)) = 2
           /\ classify_local_time(z, r) = "imaginary" => Cardinality(ShownAt(z, r)) = 0
<1> DEFINE a == r - z.before
           b == r - z.after
<1>1. z.at \in Int /\ z.before \in Int /\ z.after \in Int /\ Instants \subseteq Int
  BY OffersAssumption DEF Zones
<1>2. classify_local_time(z, r) \in {"normal", "ambiguous", "imaginary"}
  BY DEF classify_local_time
<1>3. ASSUME classify_local_time(z, r) = "normal"
      PROVE  ShownAt(z, r) = {ToUtc(z, r, 0)}
  <2>1. \A t \in Instants : Reading(z, t) = r <=> t = ToUtc(z, r, 0)
    BY <1>1, <1>3, NormalReadsOneWay
  <2>2. ToUtc(z, r, 0) \in {a, b}
    BY DEF ToUtc, UtcOffset
  <2>3. ToUtc(z, r, 0) \in Instants
    BY <2>2
  <2> QED BY <2>1, <2>3 DEF ShownAt
<1>4. ASSUME classify_local_time(z, r) # "normal"
      PROVE  r >= z.at + Smaller(z) /\ r < z.at + Larger(z) /\ ToUtc(z, r, 0) = a
  <2>1. UtcOffset(z, r, 0) # UtcOffset(z, r, 1)
    BY <1>4 DEF classify_local_time
  <2>2. Smaller(z) <= Larger(z) /\ Smaller(z) \in Int /\ Larger(z) \in Int
    BY <1>1 DEF Smaller, Larger
  <2>3. r < z.at + Larger(z) /\ ~(r < z.at + Smaller(z))
    BY <1>1, <2>1, <2>2 DEF UtcOffset
  <2> QED BY <1>1, <2>2, <2>3 DEF ToUtc, UtcOffset
<1>5. ASSUME classify_local_time(z, r) = "ambiguous"
      PROVE  Cardinality(ShownAt(z, r)) = 2
  <2>1. Reading(z, a) = r
    BY <1>4, <1>5 DEF classify_local_time
  <2>2. r >= z.at + Smaller(z) /\ r < z.at + Larger(z)
    BY <1>4, <1>5
  <2>3. z.after < z.before
    BY <1>1, <2>1, <2>2 DEF Reading, Smaller, Larger
  <2>4. \A t \in Int : Reading(z, t) = r <=> t = a \/ t = b
    BY <1>1, <2>2, <2>3 DEF Reading, Smaller, Larger
  <2>5. ShownAt(z, r) = {a, b}
    BY <1>1, <2>4 DEF ShownAt
  <2>6. a # b /\ a \in Int /\ b \in Int
    BY <1>1, <2>3
  <2> HIDE DEF a, b
  <2>7. Cardinality({a} \cup {b}) = Cardinality({a}) + 1
    BY <2>6, FS_Singleton, FS_AddElement
  <2>8. Cardinality({a}) = 1
    BY FS_Singleton
  <2>9. {a} \cup {b} = {a, b}
    OBVIOUS
  <2> QED BY <2>5, <2>7, <2>8, <2>9
<1>6. ASSUME classify_local_time(z, r) = "imaginary"
      PROVE  Cardinality(ShownAt(z, r)) = 0
  <2>1. Reading(z, a) # r
    BY <1>4, <1>6 DEF classify_local_time
  <2>2. r >= z.at + Smaller(z) /\ r < z.at + Larger(z)
    BY <1>4, <1>6
  <2>3. z.before < z.after
    BY <1>1, <2>1, <2>2 DEF Reading, Smaller, Larger
  <2>4. \A t \in Int : Reading(z, t) # r
    BY <1>1, <2>2, <2>3 DEF Reading, Smaller, Larger
  <2>5. ShownAt(z, r) = {}
    BY <1>1, <2>4 DEF ShownAt
  <2> QED BY <2>5, FS_EmptySet
<1> QED BY <1>2, <1>3, <1>5, <1>6

\* The readings of a leg, one by one.
LEMMA ClockTypes ==
    ASSUME NEW leg \in Seq(Segments), Seen(leg), NEW k \in Clocks(leg)
    PROVE  LET z == ClockOf(leg, k).zone
               r == ClockOf(leg, k).reads
           IN  /\ z \in Zones /\ r \in Int
               /\ {r - z.before, r - z.after} \subseteq Instants
<1> DEFINE j == (k + 1) \div 2
           g == leg[j]
<1>1. Len(leg) \in Nat /\ k \in 1..(2 * Len(leg))
  BY DEF Clocks
<1>2. j \in 1..Len(leg)
  BY <1>1
<1>3. g \in Segments /\ j \in DOMAIN leg
  BY <1>2, Elements
<1> HIDE DEF j
<1>4. /\ Zone[g.from] \in Zones /\ Zone[g.to] \in Zones
      /\ g.depart_local \in Int /\ g.arrive_local \in Int
  BY <1>3, ZoneOf DEF Segments
<1>5. {g.depart_local - Zone[g.from].before, g.depart_local - Zone[g.from].after,
       g.arrive_local - Zone[g.to].before, g.arrive_local - Zone[g.to].after}
         \subseteq Instants
  BY <1>3 DEF Seen
<1>6. \/ ClockOf(leg, k) = [zone |-> Zone[g.from], reads |-> g.depart_local]
      \/ ClockOf(leg, k) = [zone |-> Zone[g.to], reads |-> g.arrive_local]
  BY DEF ClockOf, j
<1> HIDE DEF g
<1>7. CASE ClockOf(leg, k) = [zone |-> Zone[g.from], reads |-> g.depart_local]
  BY <1>4, <1>5, <1>7
<1>8. CASE ClockOf(leg, k) = [zone |-> Zone[g.to], reads |-> g.arrive_local]
  BY <1>4, <1>5, <1>8
<1> QED BY <1>6, <1>7, <1>8

\* The first of some clocks is one of them.
LEMMA FirstClock ==
    ASSUME NEW S, S \subseteq Nat, S # {}
    PROVE  Min(S) \in S
<1>1. IsWellFoundedOn(OpToRel(<, Nat), Nat)
  BY NatLessThanWellFounded
<1>2. PICK x \in S : \A y \in S : ~(<<y, x>> \in OpToRel(<, Nat))
  BY <1>1, WFMin
<1>3. \A y \in S : ~(y < x)
  BY <1>2 DEF OpToRel
<1>4. \A y \in S : x <= y
  BY <1>3
<1> QED BY <1>4 DEF Min

\* A code of check_local_time_validity is about a reading of the leg.
LEMMA CodesAreDeserved ==
    ASSUME NEW o, o.leg \in Seq(Segments), Seen(o.leg)
    PROVE  /\ "ambiguous_local_time" \in Rejections(o) => 2 \in TimesShown(o.leg)
           /\ "nonexistent_local_time" \in Rejections(o) => 0 \in TimesShown(o.leg)
<1> DEFINE kind(k) == classify_local_time(ClockOf(o.leg, k).zone, ClockOf(o.leg, k).reads)
           times(k) == Cardinality(ShownAt(ClockOf(o.leg, k).zone, ClockOf(o.leg, k).reads))
           odd == {k \in Clocks(o.leg) : kind(k) # "normal"}
<1>1. \A c \in {"ambiguous_local_time", "nonexistent_local_time"} :
        c \in Rejections(o) => c \in check_local_time_validity(o.leg)
  BY DEF Rejections, Code, check_stop_count, check_layover_window, check_origin_match,
         check_destination_match, check_departure_date, check_self_transfer
<1>2. SUFFICES ASSUME odd # {}
               PROVE  /\ "ambiguous_local_time" \in Rejections(o) => 2 \in TimesShown(o.leg)
                      /\ "nonexistent_local_time" \in Rejections(o) => 0 \in TimesShown(o.leg)
  BY <1>1 DEF check_local_time_validity
<1>3. Min(odd) \in odd
  <2>1. odd \subseteq Nat
    BY DEF Clocks
  <2> HIDE DEF odd
  <2> QED BY <1>2, <2>1, FirstClock
<1>4. PICK k \in Clocks(o.leg) : k = Min(odd) /\ kind(k) # "normal"
  BY <1>3
<1>5. /\ kind(k) = "ambiguous" => times(k) = 2
      /\ kind(k) = "imaginary" => times(k) = 0
      /\ kind(k) \in {"normal", "ambiguous", "imaginary"}
  BY ClockTypes, ClassifyCounts
<1>6. check_local_time_validity(o.leg)
        = IF kind(k) = "ambiguous" THEN {"ambiguous_local_time"} ELSE {"nonexistent_local_time"}
  BY <1>2, <1>4 DEF check_local_time_validity
<1>7. times(k) \in TimesShown(o.leg)
  BY DEF TimesShown
<1> HIDE DEF kind, times
<1> QED BY <1>1, <1>4, <1>5, <1>6, <1>7

\* A multiple of L is at least L.
LEMMA Multiples == ASSUME NEW L \in Nat \ {0}, NEW k \in Int, k >= 1 PROVE L * k >= L
<1>1. L * (k - 1) >= 0
  OBVIOUS
<1>2. L * k = L * (k - 1) + L
  OBVIOUS
<1> QED BY <1>1, <1>2

\* The day of a local time: what lies within day d has the date d.
LEMMA DayOf ==
    ASSUME NEW L \in Nat \ {0}, NEW d \in Int, NEW h \in 0..(L - 1)
    PROVE  (d * L + h) \div L = d
<1> DEFINE x == d * L + h
           q == x \div L
<1>1. x \in Int /\ d * L \in Int
  OBVIOUS
<1> HIDE DEF x
<1>2. q \in Int /\ L * q <= x /\ x < L * q + L
  BY <1>1
<1> HIDE DEF q
<1>3. /\ L * (d - q) = d * L - L * q
      /\ L * (q - d) = L * q - d * L
      /\ L * q \in Int
  BY <1>2
<1>4. ~(d - q >= 1)
  <2>1. d - q >= 1 => L * (d - q) >= L
    BY <1>2, Multiples
  <2>2. d * L - L * q < L
    BY <1>1, <1>2, <1>3 DEF x
  <2> QED BY <1>1, <1>3, <2>1, <2>2
<1>5. ~(q - d >= 1)
  <2>1. q - d >= 1 => L * (q - d) >= L
    BY <1>2, Multiples
  <2>2. L * q - d * L < L
    BY <1>1, <1>2, <1>3 DEF x
  <2> QED BY <1>1, <1>3, <2>1, <2>2
<1>6. q = d
  BY <1>2, <1>4, <1>5
<1> QED BY <1>6 DEF q, x

\* A leg that is as requested breaks no rule.
LEMMA RequestedIsClean ==
    ASSUME NEW o, o.leg \in Seq(Segments), Seen(o.leg), LegSound(o.leg), o.leg # <<>>,
           AsRequested(o.leg), o.transfer = FALSE
    PROVE  Rejections(o) = {}
<1> DEFINE leg == o.leg
<1>1. /\ Request.layover_min \in Int /\ Request.layover_max \in Int
      /\ Request.max_stops \in Int /\ Request.departure_date \in Int
      /\ DayLength \in Nat \ {0}
  BY OffersAssumption
<1>2. Len(leg) \in Nat \ {0} /\ DOMAIN leg = 1..Len(leg) /\ \A j \in 1..Len(leg) : leg[j] \in Segments
  OBVIOUS
<1>3. check_stop_count(leg) = {}
  BY <1>1, <1>2 DEF AsRequested, check_stop_count, Code
<1>4. check_origin_match(leg) = {} /\ check_destination_match(leg) = {}
  BY DEF AsRequested, check_origin_match, check_destination_match, Code
<1>5. check_departure_date(leg) = {}
  <2> DEFINE d == Request.departure_date
             L == DayLength
  <2>1. PICK h \in 0..(L - 1) : leg[1].depart_local = d * L + h
    BY DEF AsRequested
  <2>2. (d * L + h) \div L = d
    BY <1>1, DayOf
  <2> QED BY <2>1, <2>2 DEF check_departure_date, Code
<1>6. check_self_transfer(o) = {}
  BY DEF check_self_transfer, Code
<1>7. ASSUME NEW j \in DOMAIN leg
      PROVE  LET g == leg[j]
             IN  /\ classify_local_time(Zone[g.from], g.depart_local) = "normal"
                 /\ classify_local_time(Zone[g.to], g.arrive_local) = "normal"
                 /\ ShownAt(Zone[g.from], g.depart_local) = {g.depart_utc}
                 /\ ShownAt(Zone[g.to], g.arrive_local) = {g.arrive_utc}
  <2> DEFINE g == leg[j]
  <2>1. /\ Zone[g.from] \in Zones /\ Zone[g.to] \in Zones
        /\ g.depart_local \in Int /\ g.arrive_local \in Int
    BY <1>2, ZoneOf DEF Segments
  <2>2. {g.depart_local - Zone[g.from].before, g.depart_local - Zone[g.from].after,
         g.arrive_local - Zone[g.to].before, g.arrive_local - Zone[g.to].after}
           \subseteq Instants
    BY DEF Seen
  <2>3. /\ Cardinality(ShownAt(Zone[g.from], g.depart_local)) = 1
        /\ Cardinality(ShownAt(Zone[g.to], g.arrive_local)) = 1
    BY DEF AsRequested
  <2>4. /\ ToUtc(Zone[g.from], g.depart_local, 0) = g.depart_utc
        /\ ToUtc(Zone[g.to], g.arrive_local, 0) = g.arrive_utc
    BY DEF LegSound, SegmentFits
  <2> HIDE DEF g
  <2>5. /\ classify_local_time(Zone[g.from], g.depart_local) = "normal"
        /\ ShownAt(Zone[g.from], g.depart_local) = {g.depart_utc}
    BY <2>1, <2>2, <2>3, <2>4, ClassifyCounts
  <2>6. /\ classify_local_time(Zone[g.to], g.arrive_local) = "normal"
        /\ ShownAt(Zone[g.to], g.arrive_local) = {g.arrive_utc}
    BY <2>1, <2>2, <2>3, <2>4, ClassifyCounts
  <2> QED BY <2>5, <2>6 DEF g
<1>8. check_local_time_validity(leg) = {}
  <2>1. ASSUME NEW k \in Clocks(leg)
        PROVE  classify_local_time(ClockOf(leg, k).zone, ClockOf(leg, k).reads) = "normal"
    <3> DEFINE j == (k + 1) \div 2
    <3>1. j \in DOMAIN leg
      BY <1>2 DEF Clocks
    <3> HIDE DEF j
    <3>2. \/ ClockOf(leg, k) = [zone |-> Zone[leg[j].from], reads |-> leg[j].depart_local]
          \/ ClockOf(leg, k) = [zone |-> Zone[leg[j].to], reads |-> leg[j].arrive_local]
      BY DEF ClockOf, j
    <3> QED BY <1>7, <3>1, <3>2
  <2> QED BY <2>1 DEF check_local_time_validity
<1>9. check_layover_window(leg) = {}
  <2>1. ASSUME NEW j \in Layovers(leg)
        PROVE  ~TooShort(LayoverDuration(leg, j)) /\ ~TooLong(LayoverDuration(leg, j))
    <3>1. j \in DOMAIN leg /\ j + 1 \in DOMAIN leg /\ j \in 1..(Len(leg) - 1)
      BY <1>2 DEF Layovers
    <3>2. PICK t \in ShownAt(Zone[leg[j].to], leg[j].arrive_local),
               u \in ShownAt(Zone[leg[j + 1].from], leg[j + 1].depart_local) :
            u - t \in Request.layover_min..Request.layover_max
      BY <3>1 DEF AsRequested
    <3>3. t = leg[j].arrive_utc /\ u = leg[j + 1].depart_utc
      BY <1>7, <3>1, <3>2
    <3>4. leg[j].arrive_utc \in Int /\ leg[j + 1].depart_utc \in Int
      BY <1>2, <3>1 DEF Segments
    <3> QED BY <1>1, <3>2, <3>3, <3>4 DEF LayoverDuration, TooShort, TooLong
  <2> QED BY <2>1 DEF check_layover_window
<1> QED BY <1>3, <1>4, <1>5, <1>6, <1>8, <1>9 DEF Rejections

\* The mapped leg of a slice is not empty, and what its clocks show is seen.
LEMMA MapLegSeen ==
    ASSUME NEW s \in Slices
    PROVE  Seen(MapLeg(s)) /\ MapLeg(s) # <<>>
<1>1. DOMAIN MapLeg(s) = DOMAIN s.segments
  BY DEF MapLeg
<1>2. \A j \in DOMAIN s.segments :
        LET g == MapLeg(s)[j]
            h == s.segments[j]
        IN  /\ g.from = h.from /\ g.to = h.to
            /\ g.depart_local = h.departing_at /\ g.arrive_local = h.arriving_at
  BY DEF MapLeg, MapSegment
<1>3. Seen(MapLeg(s))
  BY <1>1, <1>2, InstantsAssumption DEF Seen
<1>4. PICK T : s.segments \in Seq(T) /\ s.segments # <<>>
  BY OffersAssumption
<1>5. DOMAIN s.segments # {}
  BY <1>4, NotEmpty
<1> QED BY <1>1, <1>3, <1>5

\* Every mapped offer has a leg, and what its clocks show is seen.
LegsMapped == AllSeen /\ \A i \in DOMAIN offers : offers[i].leg # <<>>

\* The step that maps an offer keeps that.
LEMMA LegsMappedNext == IInv /\ LegsMapped /\ [Next]_vars => LegsMapped'
<1> SUFFICES ASSUME IInv, LegsMapped, [Next]_vars PROVE LegsMapped'
  OBVIOUS
<1>0. offers \in Seq(Offer)
  BY DEF IInv, TypeOK, Offer
<1>1. CASE MapOffer
  <2>1. PICK s \in Slices, eur \in BOOLEAN, transfer \in BOOLEAN :
          offers' = Append(offers, [leg |-> MapLeg(s), eur |-> eur, transfer |-> transfer])
    BY <1>1 DEF MapOffer
  <2> DEFINE new == [leg |-> MapLeg(s), eur |-> eur, transfer |-> transfer]
  <2>2. new \in Offer /\ new.leg = MapLeg(s)
    BY MapLegType DEF Offer
  <2>3. offers' = Append(offers, new)
    BY <2>1
  <2> HIDE DEF new
  <2>4. \A i \in DOMAIN offers' : offers'[i] = new \/ (i \in DOMAIN offers /\ offers'[i] = offers[i])
    BY <1>0, <2>2, <2>3, Appended
  <2>5. Seen(new.leg) /\ new.leg # <<>>
    BY <2>2, MapLegSeen
  <2>6. \A i \in DOMAIN offers' : Seen(offers'[i].leg) /\ offers'[i].leg # <<>>
    BY <2>4, <2>5 DEF LegsMapped, AllSeen
  <2> QED BY <2>6 DEF LegsMapped, AllSeen, Seen
<1>2. CASE UNCHANGED offers
  BY <1>2 DEF LegsMapped, AllSeen, Seen
<1>3. MapOffer \/ UNCHANGED offers
  BY DEF Next, vars, MappingRaises, Mapped, JudgeOffer, CurrencyRaises, Judged
<1> QED BY <1>1, <1>2, <1>3

\* No offer that is what the request asks for is turned down, whatever the zones, the
\* layover window and the day of the request; and a code of the rule on local times
\* tells how often the traveller's clock shows the reading.
THEOREM RejectionsHaveReasons == Spec => []RejectionsAreDeserved
<1>1. Init => LegsMapped
  BY DEF Init, LegsMapped, AllSeen
<1>2. IInv /\ LegsMapped => RejectionsAreDeserved
  <2> SUFFICES ASSUME IInv, LegsMapped, NEW i \in DOMAIN results
               PROVE  /\ i \in valid \/ offers[i].transfer \/ ~AsRequested(offers[i].leg)
                      /\ "ambiguous_local_time" \in results[i] =>
                           2 \in TimesShown(offers[i].leg)
                      /\ "nonexistent_local_time" \in results[i] =>
                           0 \in TimesShown(offers[i].leg)
    BY DEF RejectionsAreDeserved
  <2>1. /\ offers \in Seq(Offer) /\ results \in Seq(SUBSET Codes)
        /\ Len(results) <= Len(offers)
    BY DEF IInv, TypeOK, Offer
  <2>2. i \in DOMAIN offers
    BY <2>1, Elements
  <2>3. /\ offers[i] \in Offer /\ offers[i].leg # <<>>
        /\ Seen(offers[i].leg) /\ LegSound(offers[i].leg)
    BY <2>1, <2>2, Elements DEF IInv, LegsMapped, AllSeen
  <2>4. offers[i].leg \in Seq(Segments) /\ offers[i].transfer \in BOOLEAN
    BY <2>3 DEF Offer
  <2>5. results[i] = Rejections(offers[i]) /\ (i \in valid <=> results[i] = {})
    BY DEF IInv, VerdictsFollow
  <2>6. AsRequested(offers[i].leg) /\ offers[i].transfer = FALSE => i \in valid
    BY <2>3, <2>4, <2>5, RequestedIsClean
  <2>7. /\ "ambiguous_local_time" \in results[i] => 2 \in TimesShown(offers[i].leg)
        /\ "nonexistent_local_time" \in results[i] => 0 \in TimesShown(offers[i].leg)
    BY <2>3, <2>4, <2>5, CodesAreDeserved
  <2> QED BY <2>4, <2>6, <2>7
<1> QED BY <1>1, <1>2, LegsMappedNext, Invariance, PTL DEF Spec
=============================================================================
