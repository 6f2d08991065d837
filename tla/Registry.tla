------------------------------ MODULE Registry ------------------------------
(***************************************************************************)
(* airports/registry.py: the merge of config/airports.yaml and             *)
(* config/ground_access.yaml into the registry of origins, which have a    *)
(* ground leg and a priority, and destinations, which have neither.        *)
(***************************************************************************)
EXTENDS Integers, Sequences

CONSTANTS AirportFiles,  \* what airports.yaml may list, rows [iata, complete]
          GroundFiles    \* what ground_access.yaml may list, rows [to_airport,
                         \* priority, minutes, complete]; a row is complete if it
                         \* has every key, of its type

ASSUME RegistryAssumption ==
    /\ \A f \in AirportFiles \cup GroundFiles : Len(f) \in Nat /\ DOMAIN f = 1..Len(f)
    /\ \A f \in AirportFiles : \A i \in DOMAIN f : f[i].complete \in BOOLEAN
    /\ \A f \in GroundFiles : \A i \in DOMAIN f :
         f[i].priority \in Int /\ f[i].minutes \in Nat /\ f[i].complete \in BOOLEAN

VARIABLES airport_rows, ground_rows,  \* the two files
          catalog,      \* "ground", "airports", "merged", "refused"
          ground,       \* ground_by_iata and priority_by_iata: the rows, as inserted
          airports,     \* by_iata: the codes, as inserted
          destinations, \* those of them without a ground leg
          origins       \* the ground rows in the order of origin_order

registryVars == <<airport_rows, ground_rows, catalog, ground, airports, destinations, origins>>

RegistryInit == /\ airport_rows \in AirportFiles
                /\ ground_rows \in GroundFiles
                /\ catalog = "ground"
                /\ ground = <<>>
                /\ airports = <<>>
                /\ destinations = <<>>
                /\ origins = <<>>

-----------------------------------------------------------------------------

\* The codes of a sequence of ground rows.
Codes(rows) == {rows[i].to_airport : i \in DOMAIN rows}
Priorities(rows) == {rows[i].priority : i \in DOMAIN rows}
Known == {airports[i] : i \in DOMAIN airports}

\* AirportRegistryError: there is no registry.
RefuseCatalog == /\ catalog' = "refused"
                 /\ UNCHANGED <<airport_rows, ground_rows, ground, airports, destinations, origins>>

NoRows == /\ catalog = "ground"
          /\ airport_rows = <<>> \/ ground_rows = <<>>
          /\ RefuseCatalog

ReadingGround == /\ catalog = "ground"
                 /\ airport_rows # <<>>
                 /\ Len(ground) < Len(ground_rows)

GroundRow == ground_rows[Len(ground) + 1]

\* Mutant: a second row for an airport is not noticed.
UsableIfPriorityIsNew(row) == row.complete /\ row.priority \notin Priorities(ground)

UsableGround(row) == /\ row.complete
                     /\ row.to_airport \notin Codes(ground)
                     /\ row.priority \notin Priorities(ground)

ReadGroundRow == /\ ReadingGround
                 /\ UsableGround(GroundRow)
                 /\ ground' = Append(ground, GroundRow)
                 /\ UNCHANGED <<airport_rows, ground_rows, catalog, airports, destinations, origins>>

RefuseGroundRow == ReadingGround /\ ~UsableGround(GroundRow) /\ RefuseCatalog

GroundRead == catalog = "ground" /\ ground # <<>> /\ Len(ground) = Len(ground_rows)

\* The priorities are 1, 2, ... as many as there are origins.
AcceptPriorities ==
    /\ GroundRead
    /\ Priorities(ground) = 1..Len(ground)
    /\ catalog' = "airports"
    /\ UNCHANGED <<airport_rows, ground_rows, ground, airports, destinations, origins>>

RefusePriorities == GroundRead /\ Priorities(ground) # 1..Len(ground) /\ RefuseCatalog

ReadingAirports == catalog = "airports" /\ Len(airports) < Len(airport_rows)

AirportRow == airport_rows[Len(airports) + 1]

UsableAirport(row) == row.complete /\ row.iata \notin Known

\* An airport gets its ground leg here, and is a destination if there is none.
ReadAirportRow ==
    /\ ReadingAirports
    /\ UsableAirport(AirportRow)
    /\ airports' = Append(airports, AirportRow.iata)
    /\ destinations' = IF AirportRow.iata \in Codes(ground)
                       THEN destinations ELSE Append(destinations, AirportRow.iata)
    /\ UNCHANGED <<airport_rows, ground_rows, catalog, ground, origins>>

RefuseAirportRow == ReadingAirports /\ ~UsableAirport(AirportRow) /\ RefuseCatalog

AirportsRead == catalog = "airports" /\ Len(airports) = Len(airport_rows)

Rows(s) == {s[i] : i \in DOMAIN s}

\* sorted(ground_by_iata, key = priority)
SortedByPriority(rows) ==
    CHOOSE s \in [DOMAIN rows -> Rows(rows)] :
      \A i, j \in DOMAIN s : i < j => s[i].priority < s[j].priority

MergeCatalogs ==
    /\ AirportsRead
    /\ Codes(ground) \subseteq Known
    /\ origins' = SortedByPriority(ground)
    /\ catalog' = "merged"
    /\ UNCHANGED <<airport_rows, ground_rows, ground, airports, destinations>>

\* A ground row of an airport that airports.yaml does not list.
RefuseStrangers == AirportsRead /\ ~(Codes(ground) \subseteq Known) /\ RefuseCatalog

RegistryNext == \/ NoRows
                \/ ReadGroundRow \/ RefuseGroundRow
                \/ AcceptPriorities \/ RefusePriorities
                \/ ReadAirportRow \/ RefuseAirportRow
                \/ MergeCatalogs \/ RefuseStrangers

-----------------------------------------------------------------------------

\* Two files that make a registry: complete rows, no airport twice, every origin
\* an airport, and the priorities of the n origins are 1 to n.
SoundCatalogs ==
    /\ airport_rows # <<>> /\ ground_rows # <<>>
    /\ \A i \in DOMAIN airport_rows : airport_rows[i].complete
    /\ \A i \in DOMAIN ground_rows : ground_rows[i].complete
    /\ \A i, j \in DOMAIN airport_rows : airport_rows[i].iata = airport_rows[j].iata => i = j
    /\ \A i, j \in DOMAIN ground_rows : ground_rows[i].to_airport = ground_rows[j].to_airport => i = j
    /\ Codes(ground_rows) \subseteq {airport_rows[i].iata : i \in DOMAIN airport_rows}
    /\ Priorities(ground_rows) = 1..Len(ground_rows)

\* The registry is refused exactly for what a document of the two files can be
\* blamed for: the checks, each at its place in the loops, add up to the whole
\* condition.  An accepted one partitions the airports: the i-th origin is the
\* one of priority i, and a destination is an airport without a ground row.
CatalogsAreRefusedForCause ==
    /\ catalog = "refused" => ~SoundCatalogs
    /\ catalog = "merged" =>
         /\ SoundCatalogs
         /\ Len(origins) = Len(ground_rows) /\ Rows(origins) = Rows(ground_rows)
         /\ \A i \in DOMAIN origins : origins[i].priority = i
         /\ Rows(destinations) = Known \ Codes(ground_rows)
=============================================================================
