----------------------------- MODULE MCPlanning -----------------------------
(***************************************************************************)
(* Values for the constants of Planning: three fields and a text, two      *)
(* variables of nine, five files of layer 2, four catalogs of airports and *)
(* eight of ground rows.                                                   *)
(***************************************************************************)
EXTENDS Planning, TLC

CONSTANTS AMS, EIN, DUS, GRQ, DEL, BOM, XXX, All

Limit == <<"ground_travel", "max_ground_travel_minutes">>
Shortest == <<"layover", "layover_min_minutes">>
Longest == <<"layover", "layover_max_minutes">>
DbPath == <<"cache", "db_path">>

MCSchema == (Limit :> "number") @@ (Shortest :> "number") @@ (Longest :> "number")
              @@ (DbPath :> "text")

Number(n) == [form |-> "number", n |-> n]
Digits(n) == [form |-> "digits", n |-> n]
Word == [form |-> "word", n |-> 0]

MCDefaults == (Limit :> Number(150)) @@ (Shortest :> Number(180)) @@ (Longest :> Number(360))
                @@ (DbPath :> Word)

\* None, a missing one, one of the field's value, one with a key too many in
\* the place of a number, one with a value in the place of a section.
MCOverrides ==
    {[found |-> "none", tree |-> <<>>], [found |-> "missing", tree |-> <<>>],
     [found |-> "read", tree |-> Limit :> Number(60)],
     [found |-> "read", tree |-> Append(Limit, "car") :> Number(60)],
     [found |-> "read", tree |-> <<"cache">> :> Word]}

Is(path, value) == [path |-> path, value |-> value]

\* Two values of a field, one that is none, a key below the field, the section
\* in its place, a bound of the layover above the other, a text, a misspelt and
\* a malformed name.
MCVariables ==
    {Is(Limit, Digits(60)), Is(Limit, Digits(90)), Is(Limit, Word),
     Is(Append(Limit, "car"), Digits(60)), Is(<<"ground_travel">>, Word),
     Is(Shortest, Digits(400)), Is(DbPath, Digits(1)),
     Is(<<"layover", "mn">>, Digits(180)), Is(<<"layover", "">>, Digits(180))}

MCEnvironments == UNION {[1..n -> MCVariables] : n \in 0..2}

Airport(code) == [iata |-> code, complete |-> TRUE]
Ground(code, priority, minutes) ==
    [to_airport |-> code, priority |-> priority, minutes |-> minutes, complete |-> TRUE]

GoodAirports == <<Airport(DEL), Airport(GRQ), Airport(AMS), Airport(DUS), Airport(EIN),
                  Airport(BOM)>>

\* One code twice, one row incomplete, and none.
MCAirportFiles ==
    {GoodAirports, Append(GoodAirports, Airport(DEL)),
     Append(GoodAirports, [iata |-> XXX, complete |-> FALSE]), <<>>}

GoodGround == <<Ground(GRQ, 4, 120), Ground(AMS, 1, 30), Ground(DUS, 3, 90), Ground(EIN, 2, 60)>>

\* All the airports are origins, a code or a priority twice, a gap in the
\* priorities, an origin that is no airport, one row incomplete, and none.
MCGroundFiles ==
    {GoodGround, GoodGround \o <<Ground(DEL, 5, 60), Ground(BOM, 6, 151)>>,
     Append(GoodGround, Ground(AMS, 5, 30)), Append(GoodGround, Ground(DEL, 1, 30)),
     Append(GoodGround, Ground(DEL, 6, 30)), Append(GoodGround, Ground(XXX, 5, 30)),
     Append(GoodGround, [Ground(DEL, 5, 30) EXCEPT !.complete = FALSE]), <<>>}

MCRequests == {All, DUS, DEL, XXX}
=============================================================================
