------------------------------ MODULE Planning ------------------------------
(***************************************************************************)
(* orchestration/plan.py and ground_filter.py: from the command's request  *)
(* to the tuple of search tasks.  The settings are loaded first (Config),  *)
(* the registry is built when it is first asked for (Registry); then       *)
(* either all origins are filtered by their ground travel and planned one  *)
(* after the other, or the one of --origin is.  Nothing is planned twice   *)
(* in a process, so the module-level registry is built once.               *)
(***************************************************************************)
EXTENDS Config, Registry

CONSTANTS Requests,                \* what may be asked for: Everything or an airport
          Everything,              \* --all-origins
          GroundLimit,             \* ground_travel.max_ground_travel_minutes,
          LayoverMin, LayoverMax   \* layover.layover_min_minutes and _max_: fields

ASSUME PlanningAssumption ==
    \A p \in {GroundLimit, LayoverMin, LayoverMax} : p \in DOMAIN Schema /\ Schema[p] = "number"

VARIABLES request,    \* Everything, or the code of --origin in capitals
          plan,       \* "waiting", "filtering", "planning", "built", "refused"
          plannable,  \* the origins within the ground limit, ground rows
          excluded,   \* the GROUND_TRAVEL_EXCEEDED rejections, by their origin
          planned,    \* how many of the plannable origins have their tasks
          tasks       \* the plan

planVars == <<request, plan, plannable, excluded, planned, tasks>>

vars == <<configVars, registryVars, planVars>>

Init == /\ ConfigInit
        /\ RegistryInit
        /\ request \in Requests
        /\ plan = "waiting"
        /\ plannable = <<>>
        /\ excluded = <<>>
        /\ planned = 0
        /\ tasks = <<>>

-----------------------------------------------------------------------------

\* Mutant: the primaries are not taken together.
WaveWithoutPrimaries(priority) == priority - 2

\* _wave_for_priority: the three primaries together, then one origin a wave.
WaveOf(priority) == IF priority <= 3 THEN 1 ELSE priority - 2

\* _build_tasks_for_mode
TasksForMode(origin, mode, wave) ==
    [i \in DOMAIN destinations |->
       [origin |-> origin.to_airport, destination |-> destinations[i], max_stops |-> mode,
        priority |-> origin.priority, wave |-> wave]]

\* build_dual_mode_plan_for_origin, whose tasks are given the wave.
DualMode(origin, wave) == TasksForMode(origin, 0, wave) \o TasksForMode(origin, 1, wave)

\* Every task has a SearchRequest, whose validator compares the bounds of the
\* layover; load_config does not.
RequestsAreValid == destinations = <<>> \/ settings[LayoverMin] <= settings[LayoverMax]

Ready == config = "loaded" /\ catalog = "merged"

RefusePlan == /\ plan' = "refused"
              /\ UNCHANGED <<request, plannable, excluded, planned, tasks>>

\* --all-origins
PlanAll == /\ Ready
           /\ plan = "waiting"
           /\ request = Everything
           /\ plan' = "filtering"
           /\ UNCHANGED <<request, plannable, excluded, planned, tasks>>

\* The origins that the filter has looked at.
Filtered == Len(plannable) + Len(excluded)

\* Mutant: an origin exactly at the limit is excluded.
BelowLimit(origin) == origin.minutes < settings[GroundLimit]

\* filter_origins_by_ground_limit: only what exceeds the limit is excluded.
WithinLimit(origin) == origin.minutes <= settings[GroundLimit]

\* One round of the filter's loop.
FilterOrigin ==
    /\ plan = "filtering"
    /\ Filtered < Len(origins)
    /\ LET origin == origins[Filtered + 1]
       IN  IF WithinLimit(origin)
           THEN plannable' = Append(plannable, origin) /\ UNCHANGED excluded
           ELSE excluded' = Append(excluded, origin.to_airport) /\ UNCHANGED plannable
    /\ UNCHANGED <<request, plan, planned, tasks>>

FilterDone == /\ plan = "filtering"
              /\ Filtered = Len(origins)
              /\ plan' = "planning"
              /\ UNCHANGED <<request, plannable, excluded, planned, tasks>>

\* One round of build_multi_origin_plan's loop.  The priority it asserts is
\* there: plannable holds ground rows.
PlanOrigin ==
    /\ plan = "planning"
    /\ planned < Len(plannable)
    /\ IF RequestsAreValid
       THEN /\ tasks' = tasks \o DualMode(plannable[planned + 1],
                                          WaveOf(plannable[planned + 1].priority))
            /\ planned' = planned + 1
            /\ UNCHANGED <<request, plan, plannable, excluded>>
       ELSE RefusePlan

PlanDone == /\ plan = "planning"
            /\ planned = Len(plannable)
            /\ plan' = "built"
            /\ UNCHANGED <<request, plannable, excluded, planned, tasks>>

\* build_dual_mode_plan_for_origin on its own: no filter, and wave 0.
PlanSingle ==
    /\ Ready
    /\ plan = "waiting"
    /\ request # Everything
    /\ request \in Codes(ground)
    /\ RequestsAreValid
    /\ \E i \in DOMAIN origins : /\ origins[i].to_airport = request
                                 /\ tasks' = DualMode(origins[i], 0)
    /\ plan' = "built"
    /\ UNCHANGED <<request, plannable, excluded, planned>>

\* _origin_priority raises for a code that is not known or a destination's.
RefuseSingle == /\ Ready
                /\ plan = "waiting"
                /\ request # Everything
                /\ request \notin Codes(ground) \/ ~RequestsAreValid
                /\ RefusePlan

PlanNext == \/ PlanAll \/ FilterOrigin \/ FilterDone \/ PlanOrigin \/ PlanDone
            \/ PlanSingle \/ RefuseSingle

Next == \/ ConfigNext /\ UNCHANGED <<registryVars, planVars>>
        \/ config = "loaded" /\ RegistryNext /\ UNCHANGED <<configVars, planVars>>
        \/ PlanNext /\ UNCHANGED <<configVars, registryVars>>

Spec == Init /\ [][Next]_vars

-----------------------------------------------------------------------------

Tasks == [origin : Codes(ground), destination : Rows(destinations), max_stops : {0, 1},
          priority : Nat \ {0}, wave : Nat]

\* Every variable keeps to its range; the loops stay within their bounds.
TypeOK ==
    /\ config \in {"start", "environment", "loaded", "refused"}
    /\ read \in 0..Len(environment)
    /\ config = "loaded" => settings \in [DOMAIN Schema -> Int]
    /\ catalog \in {"ground", "airports", "merged", "refused"}
    /\ Len(ground) <= Len(ground_rows) /\ Len(airports) <= Len(airport_rows)
    /\ Rows(ground) \subseteq Rows(ground_rows)
    /\ Rows(destinations) \subseteq Known
    /\ plan \in {"waiting", "filtering", "planning", "built", "refused"}
    /\ plan # "waiting" => Ready
    /\ Rows(plannable) \subseteq Rows(origins)
    /\ planned \in 0..Len(plannable)
    /\ Rows(tasks) \subseteq Tasks

\* The origins that may be planned (D7).
Wanted == {g \in Rows(ground) : g.minutes <= settings[GroundLimit]}

\* In a plan, task s comes before task t.
Before(s, t) ==
    \/ s.priority < t.priority
    \/ /\ s.priority = t.priority
       /\ \/ s.max_stops < t.max_stops
          \/ /\ s.max_stops = t.max_stops
             /\ \E i, j \in DOMAIN destinations :
                  i < j /\ destinations[i] = s.destination /\ destinations[j] = t.destination

\* A plan of --all-origins searches every origin within the ground limit to every
\* destination in both modes and nothing else, each combination once, in the order
\* of priority, mode and destination, in waves that do not fall: the flat tuple of
\* 160 tasks that the report, the early-stop replay and the cache keys are computed
\* from.
PlanCoversEveryPair ==
    plan = "built" /\ request = Everything =>
      /\ \A g \in Wanted : \A d \in Rows(destinations) : \A mode \in {0, 1} :
           \E k \in DOMAIN tasks :
             /\ tasks[k].origin = g.to_airport /\ tasks[k].priority = g.priority
             /\ tasks[k].destination = d /\ tasks[k].max_stops = mode
      /\ \A k \in DOMAIN tasks : \E g \in Wanted : tasks[k].origin = g.to_airport
      /\ \A k, l \in DOMAIN tasks :
           k < l => Before(tasks[k], tasks[l]) /\ tasks[k].wave <= tasks[l].wave
      /\ \A k \in DOMAIN tasks : tasks[k].origin # tasks[k].destination

\* The limit is hard: it is "evaluated per origin before any task for that origin is
\* planned" (D7 in DECISIONS.md, ground_filter.py), so no task of a plan, whoever
\* asked for it, starts at an origin beyond it.
NoTaskBeyondTheLimit ==
    \A k \in DOMAIN tasks : \E g \in Wanted : tasks[k].origin = g.to_airport
=============================================================================
