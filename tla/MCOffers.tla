------------------------------ MODULE MCOffers -------------------------------
(***************************************************************************)
(* Offers of one task in half hours.  The clocks of AMS and FRA are put    *)
(* back at 50 (01:00 UTC of day 1), so that they show 52 and 53 twice;     *)
(* those of the hub are put forward at 54 and never show 60 and 61; DEL is *)
(* 5:30 ahead all year.  The request is for day 1, at most one stop, a     *)
(* layover of 3 to 6 hours.                                                *)
(***************************************************************************)
EXTENDS Offers

MCZone == [a \in {"AMS", "FRA", "HUB", "DEL"} |->
              CASE a \in {"AMS", "FRA"} -> [at |-> 50, before |-> 4, after |-> 2]
                [] a = "HUB" -> [at |-> 54, before |-> 6, after |-> 8]
                [] OTHER -> [at |-> 0, before |-> 11, after |-> 11]]

MCRequest == [origin |-> "AMS", destination |-> "DEL", departure_date |-> 1,
              max_stops |-> 1, layover_min |-> 6, layover_max |-> 12]

MCInstants == 0..120

\* A flight from a at UTC instant d to b at UTC instant e, as a payload has it.
Flight(a, d, b, e) == [from |-> a, to |-> b,
                       departing_at |-> Reading(MCZone[a], d),
                       arriving_at |-> Reading(MCZone[b], e),
                       duration |-> e - d]

Slice(segments, total) == [segments |-> segments, duration |-> total]

\* At day 0, before the repeated hour, in its first and in its second pass.
Direct == {Slice(<<Flight("AMS", d, "DEL", d + 16)>>, 16) : d \in {43, 45, 48, 50, 52}}

\* Layovers inside the window, at its ends and beyond them, of which the hub's
\* clock tells an hour more if the change falls into them.
OneStop == {Slice(<<Flight("AMS", d, "HUB", 50), Flight("HUB", 50 + l, "DEL", 60 + l)>>,
                  60 + l - d) : d \in {43, 45}, l \in {4, 5, 6, 12, 13}}
             \cup {Slice(<<Flight("AMS", 46, "HUB", 56), Flight("HUB", 56 + l, "DEL", 66 + l)>>,
                         20 + l) : l \in {5, 6, 12, 13}}

\* In the second pass at both ends, so that the duration fits an hour early.
Repeated == {Slice(<<Flight("AMS", 50, "FRA", 51)>>, 1),
             Slice(<<Flight("AMS", 50, "FRA", 51), Flight("FRA", 59, "DEL", 75)>>, 25),
             Slice(<<Flight("AMS", 48, "FRA", 49), Flight("FRA", 59, "DEL", 75)>>, 27)}

\* A schedule that names an hour the hub's clock leaves out.
Skipped == {Slice(<<[Flight("AMS", 45, "HUB", 54) EXCEPT !.arriving_at = 60],
                    Flight("HUB", 62, "DEL", 72)>>, 27),
            Slice(<<Flight("AMS", 44, "HUB", 48),
                    [Flight("HUB", 54, "DEL", 64) EXCEPT !.departing_at = 60]>>, 20)}

\* Another airport, one stop too many, a duration and a total that do not fit.
Others == {Slice(<<Flight("FRA", 45, "DEL", 61)>>, 16),
           Slice(<<Flight("AMS", 45, "HUB", 53)>>, 8),
           Slice(<<Flight("AMS", 45, "FRA", 47), Flight("FRA", 53, "HUB", 60),
                   Flight("HUB", 66, "DEL", 76)>>, 31),
           Slice(<<[Flight("AMS", 45, "DEL", 61) EXCEPT !.duration = 14]>>, 16),
           Slice(<<Flight("AMS", 45, "DEL", 61)>>, 14)}

MCSlices == Direct \cup OneStop \cup Repeated \cup Skipped \cup Others
=============================================================================
