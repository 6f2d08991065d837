----------------------------- MODULE MCReport ------------------------------
(***************************************************************************)
(* Values for the constants of Selection and Report.  Prices are in tens   *)
(* of EUR.                                                                 *)
(***************************************************************************)
EXTENDS Report, TLC

CONSTANTS o1, o2, o3, o4, far, d1, d2,
          direct1, stop1, stop2, stop3, stop4, direct5,
          KL, LH

MCRegistry == <<o1, far, o2, o3, o4>>
MCDestinations == <<d1, d2>>
MCGroundMinutes == [o \in {o1, o2, o3, o4, far} |-> IF o = far THEN 151 ELSE 150]

\* The second origin is the cheapest to get to.
MCGroundCost == [o \in {o1, o2, o3, o4, far} |-> CASE o = o1 -> 9 [] o = o2 -> 1 [] OTHER -> 4]

\* A direct flight of ten hours, a one-stop flight of 20 with a long layover.
Direct(o, d) == [origin |-> o, destination |-> d, stops |-> 0, time |-> 3, penalty |-> 0]
OneStop(o, d) == [origin |-> o, destination |-> d, stops |-> 1, time |-> 6, penalty |-> 2]

\* stop2 and stop3 differ in their origin only.
MCFlight == (direct1 :> Direct(o1, d1)) @@ (direct5 :> Direct(o1, d2))
              @@ (stop1 :> OneStop(o1, d1)) @@ (stop2 :> OneStop(o2, d1))
              @@ (stop3 :> OneStop(o3, d1)) @@ (stop4 :> OneStop(o4, d1))

Offer(f, c, p) == [flight |-> f, carrier |-> c, price |-> p]

\* Two carriers at one price, two prices of one flight, the same price of two
\* flights.  The differences 9, 16 and 25 are a good value by the percentage,
\* one above the good-value difference, and the threshold.  The order of the
\* itinerary_ids is no order of the prices.
MCOffers == << Offer(direct1, KL, 70), Offer(stop1, KL, 45), Offer(direct1, LH, 61),
               Offer(stop2, LH, 61), Offer(stop2, KL, 61), Offer(stop3, KL, 61),
               Offer(direct1, LH, 70), Offer(stop3, LH, 45), Offer(stop2, KL, 70),
               Offer(direct5, KL, 61), Offer(stop4, KL, 20), Offer(stop4, KL, 45) >>
MCOffered == {MCOffers[i] : i \in DOMAIN MCOffers}
MCId == [x \in MCOffered |-> CHOOSE i \in DOMAIN MCOffers : MCOffers[i] = x]
=============================================================================
