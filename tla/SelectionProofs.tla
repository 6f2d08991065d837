--------------------------- MODULE SelectionProofs ---------------------------
(***************************************************************************)
(* Theorems about Selection, for every set of flights, offers, origins,    *)
(* destinations and thresholds.                                            *)
(***************************************************************************)
EXTENDS Report, FiniteSetTheorems, TLAPS

\* Before the replay there is no verdict and no walk under way.
NoVerdictYet ==
    stage \in {"collecting", "analysing"} => verdicts = <<>> /\ walk = FreshWalk

\* What the loop of evaluate_destination_early_stop knows after some origins:
\* prior holds, in order, the earlier ones with a fare, low is the lowest of
\* their fares, and none of them undercut.
WalkKnows(w, d) ==
    /\ \A i \in DOMAIN w.prior : w.prior[i] \in Earlier(w.at, d)
    /\ \A m \in Earlier(w.at, d) : \E i \in DOMAIN w.prior : w.prior[i] = m
    /\ \A i, j \in DOMAIN w.prior : i < j => w.prior[i] < w.prior[j]
    /\ w.prior # <<>> => \E m \in Earlier(w.at, d) : w.low \in Fares(m, d)
    /\ \A m \in Earlier(w.at, d) : \A q \in Fares(m, d) : w.low <= q
    /\ \A m \in 1..(w.at - 1) : ~Undercuts(m, d)

WalkSound ==
    stage = "replaying" /\ Len(verdicts) < Len(Destinations) => WalkKnows(walk, Walked)

IInv == TypeOK /\ NoVerdictYet /\ WalkSound /\ VerdictsAreGrounded

-----------------------------------------------------------------------------
\* What the helpers return.

\* Appending an element of the type keeps a list in its type.
LEMMA AppendType ==
    ASSUME NEW T, NEW s \in Seq(T), NEW e \in T
    PROVE  /\ Append(s, e) \in Seq(T)
           /\ Len(Append(s, e)) = Len(s) + 1
           /\ Len(s) \in Nat
           /\ \A i \in 1..Len(s) : Append(s, e)[i] = s[i]
           /\ Append(s, e)[Len(s) + 1] = e
  OBVIOUS

\* Destinations has an entry at every place up to its length.
LEMMA PlacesInOrder ==
    /\ Len(Destinations) \in Nat \ {0}
    /\ \A n \in 1..Len(Destinations) : Destinations[n] \in Places
  BY SelectionAssumption DEF Places

\* The number of tasks is a natural number.
LEMMA NumTasksNat == ASSUME planned \in Seq(Origins) PROVE NumTasks \in Nat
<1>1. Len(planned) \in Nat /\ TasksPerOrigin \in Nat
  BY PlacesInOrder DEF TasksPerOrigin
<1> QED BY <1>1 DEF NumTasks

\* Fares are prices of offers.
LEMMA FaresAreNat ==
    ASSUME valid \in Seq(SUBSET Offered)
    PROVE  \A i, d : Fares(i, d) \subseteq Nat
  BY SelectionAssumption DEF Fares

\* While the results and the plan stay, so do the fares and what is said of them.
LEMMA FaresStay ==
    ASSUME UNCHANGED <<valid, planned>>
    PROVE  \A n, d : /\ Fares(n, d)' = Fares(n, d)
                     /\ Earlier(n, d)' = Earlier(n, d)
                     /\ Undercuts(n, d)' <=> Undercuts(n, d)
<1>1. \A n, d : Fares(n, d)' = Fares(n, d)
  BY DEF Fares, Task
<1>2. \A n, d : Earlier(n, d)' = Earlier(n, d)
  BY <1>1 DEF Earlier
<1> QED BY <1>1, <1>2 DEF Undercuts

\* A walk that has not begun knows nothing.
LEMMA FreshWalkKnows == ASSUME NEW d PROVE WalkKnows(FreshWalk, d)
<1>1. Earlier(1, d) = {} /\ FreshWalk.at = 1 /\ FreshWalk.prior = <<>>
  BY DEF Earlier, FreshWalk
<1> QED BY <1>1 DEF WalkKnows

-----------------------------------------------------------------------------
\* Type correctness.

\* The analysis of two pools is of its type.
LEMMA AnalysisType ==
    ASSUME NEW direct \in SUBSET Offered, NEW stop \in SUBSET Offered
    PROVE  Analysis(direct, stop) \in
             [direct : SUBSET Offered, stop : SUBSET Offered, tier : Tiers,
              divergence : BOOLEAN]
<1>1. CASE direct = {} \/ stop = {}
  BY <1>1 DEF Analysis, Tiers
<1>2. CASE direct # {} /\ stop # {}
  <2> DEFINE x == CHOOSE y \in direct : TRUE
             z == CHOOSE y \in stop : TRUE
  <2>1. x \in direct /\ z \in stop
    BY <1>2
  <2>2. DirectTier(x.price - z.price, z.price) \in Tiers
    BY DEF DirectTier, Tiers
  <2>3. Comparison(x, z) \in [direct : SUBSET Offered, stop : SUBSET Offered,
                              tier : Tiers, divergence : BOOLEAN]
    BY <2>1, <2>2 DEF Comparison
  <2> QED BY <1>2, <2>3 DEF Analysis
<1> QED BY <1>1, <1>2

\* The initial states have their types.
LEMMA TypeInit == Init => TypeOK
<1> SUFFICES ASSUME Init PROVE TypeOK
  OBVIOUS
<1>1. planned \in Seq(Origins)
  <2>1. CASE planned \in Plannable
    <3>1. PICK n \in 1..Len(Registry) : planned \in [1..n -> Origins]
      BY <2>1 DEF Plannable
    <3>2. Len(Registry) \in Nat
      BY SelectionAssumption
    <3> QED BY <3>1, <3>2
  <2>2. CASE \E o \in Origins : planned = <<o>>
    BY <2>2
  <2> QED BY <2>1, <2>2 DEF Init
<1>2. NumTasks \in Nat /\ Len(planned) \in Nat
  BY <1>1, NumTasksNat
<1>3. origins \in {Registry} \cup {<<o>> : o \in Origins}
  BY DEF Init
<1>4. walk \in [at : 1..(Len(planned) + 1), prior : Seq(Nat), low : Nat, last : Seq(Nat)]
  BY <1>2 DEF Init, FreshWalk
<1> QED BY <1>1, <1>2, <1>3, <1>4, PlacesInOrder DEF Init, TypeOK

\* Every step keeps the types.
LEMMA TypeNext == TypeOK /\ [Next]_vars => TypeOK'
<1> SUFFICES ASSUME TypeOK, [Next]_vars PROVE TypeOK'
  OBVIOUS
<1> USE PlacesInOrder
<1>0. UNCHANGED plan => NumTasks' = NumTasks
  BY DEF plan, NumTasks, TasksPerOrigin
<1>n. NumTasks \in Nat
  BY NumTasksNat DEF TypeOK
<1>p. Len(planned) \in Nat
  BY DEF TypeOK
<1>k. /\ walk.at \in 1..(Len(planned) + 1) /\ walk.prior \in Seq(Nat)
      /\ walk.low \in Nat /\ walk.last \in Seq(Nat)
      /\ walk = [at |-> walk.at, prior |-> walk.prior, low |-> walk.low, last |-> walk.last]
  BY DEF TypeOK
<1>1. CASE CollectTask
  <2>1. PICK found \in SUBSET Offered : valid' = Append(valid, found)
    BY <1>1 DEF CollectTask
  <2>2. valid \in Seq(SUBSET Offered) /\ Len(valid) < NumTasks
    BY <1>1 DEF CollectTask, TypeOK
  <2>3. valid' \in Seq(SUBSET Offered) /\ Len(valid') <= NumTasks
    BY <1>n, <2>1, <2>2, AppendType
  <2> QED BY <1>0, <1>1, <2>3 DEF CollectTask, TypeOK, tables, plan
<1>2. CASE Collected
  BY <1>0, <1>2 DEF Collected, TypeOK, tables, plan
<1>3. CASE AnalyseDestination
  <2> DEFINE d == Destinations[Len(analyses) + 1]
  <2>0. \A k \in DOMAIN valid : valid[k] \subseteq Offered
    BY DEF TypeOK
  <2>1. Cheapest(DirectPool(d)) \in SUBSET Offered
    BY <2>0 DEF Cheapest, DirectPool, TasksTo
  <2>2. Cheapest(OneStopPool(d)) \in SUBSET Offered
    BY <2>0 DEF Cheapest, OneStopPool, TasksTo
  <2>3. Analysis(Cheapest(DirectPool(d)), Cheapest(OneStopPool(d))) \in
          [direct : SUBSET Offered, stop : SUBSET Offered, tier : Tiers,
           divergence : BOOLEAN]
    BY <2>1, <2>2, AnalysisType
  <2>4. analyses' = Append(analyses,
          Analysis(Cheapest(DirectPool(d)), Cheapest(OneStopPool(d))))
    BY <1>3 DEF AnalyseDestination
  <2>5. /\ analyses' \in Seq([direct : SUBSET Offered, stop : SUBSET Offered,
                              tier : Tiers, divergence : BOOLEAN])
        /\ Len(analyses') <= Len(Destinations)
    <3>1. /\ analyses \in Seq([direct : SUBSET Offered, stop : SUBSET Offered,
                               tier : Tiers, divergence : BOOLEAN])
          /\ Len(analyses) < Len(Destinations)
      BY <1>3 DEF AnalyseDestination, TypeOK
    <3> QED BY <2>3, <2>4, <3>1, AppendType
  <2> QED BY <1>0, <1>3, <2>5 DEF AnalyseDestination, TypeOK, tables, plan
<1>4. CASE Analysed
  BY <1>0, <1>4 DEF Analysed, TypeOK, tables, plan
<1>w. ASSUME NEW v \in [triggered : BOOLEAN, at : Nat, margin : Int, against : Seq(Nat)],
             Conclude(v), Len(verdicts) < Len(Destinations)
      PROVE  TypeOK'
  <2>1. /\ verdicts' \in Seq([triggered : BOOLEAN, at : Nat, margin : Int,
                              against : Seq(Nat)])
        /\ Len(verdicts') <= Len(Destinations)
    <3>1. /\ verdicts \in Seq([triggered : BOOLEAN, at : Nat, margin : Int,
                               against : Seq(Nat)])
          /\ verdicts' = Append(verdicts, v)
      BY <1>w DEF Conclude, TypeOK
    <3> QED BY <1>w, <3>1, AppendType
  <2>2. walk' \in [at : 1..(Len(planned) + 1), prior : Seq(Nat), low : Nat, last : Seq(Nat)]
    BY <1>w, <1>p DEF Conclude, FreshWalk, TypeOK
  <2> QED BY <1>0, <1>w, <2>1, <2>2 DEF Conclude, TypeOK, tables, plan
<1>5. CASE SkipOrigin
  <2>1. walk' \in [at : 1..(Len(planned) + 1), prior : Seq(Nat), low : Nat, last : Seq(Nat)]
    <3>1. walk.at <= Len(planned) /\ walk' = [walk EXCEPT !.at = @ + 1]
      BY <1>5 DEF SkipOrigin, Walking
    <3>2. walk' = [at |-> walk.at + 1, prior |-> walk.prior, low |-> walk.low,
                   last |-> walk.last]
      BY <1>k, <3>1
    <3>3. walk.at + 1 \in 1..(Len(planned) + 1)
      BY <1>k, <1>p, <3>1
    <3> QED BY <1>k, <3>2, <3>3
  <2> QED BY <1>0, <1>5, <2>1 DEF SkipOrigin, TypeOK, tables, plan
<1>6. CASE TriggerAtOrigin
  <2>1. PICK p \in Nat : Conclude([triggered |-> TRUE, at |-> walk.at,
                                   margin |-> walk.low - p, against |-> walk.prior])
    BY <1>6, FaresAreNat DEF TriggerAtOrigin, TypeOK
  <2>2. [triggered |-> TRUE, at |-> walk.at, margin |-> walk.low - p, against |-> walk.prior]
          \in [triggered : BOOLEAN, at : Nat, margin : Int, against : Seq(Nat)]
    BY <1>k, <1>p
  <2>3. Len(verdicts) < Len(Destinations)
    BY <1>6 DEF TriggerAtOrigin, Walking
  <2> QED BY <1>w, <2>1, <2>2, <2>3
<1>7. CASE PassOrigin
  <2>1. PICK p \in Nat :
           walk' = [at |-> walk.at + 1, prior |-> Append(walk.prior, walk.at),
                    low |-> IF walk.prior = <<>> \/ p < walk.low THEN p ELSE walk.low,
                    last |-> IF Len(walk.prior) >= 2 THEN walk.prior ELSE walk.last]
    BY <1>7, FaresAreNat DEF PassOrigin, TypeOK
  <2>2. walk' \in [at : 1..(Len(planned) + 1), prior : Seq(Nat), low : Nat, last : Seq(Nat)]
    <3>1. walk.at <= Len(planned)
      BY <1>7 DEF PassOrigin, Walking
    <3>2. Append(walk.prior, walk.at) \in Seq(Nat)
      BY <1>k, <1>p, AppendType
    <3>3. (IF walk.prior = <<>> \/ p < walk.low THEN p ELSE walk.low) \in Nat
      BY <1>k
    <3>4. (IF Len(walk.prior) >= 2 THEN walk.prior ELSE walk.last) \in Seq(Nat)
      BY <1>k
    <3>5. walk.at + 1 \in 1..(Len(planned) + 1)
      BY <1>k, <1>p, <3>1
    <3> QED BY <2>1, <3>2, <3>3, <3>4, <3>5
  <2> QED BY <1>0, <1>7, <2>2 DEF PassOrigin, TypeOK, tables, plan
<1>8. CASE EndOfWalk
  <2>1. (IF walk.last # <<>> THEN walk.last ELSE walk.prior) \in Seq(Nat)
    BY <1>k
  <2>2. [triggered |-> FALSE, at |-> 0, margin |-> 0,
         against |-> IF walk.last # <<>> THEN walk.last ELSE walk.prior]
          \in [triggered : BOOLEAN, at : Nat, margin : Int, against : Seq(Nat)]
    BY <2>1
  <2>3. /\ Conclude([triggered |-> FALSE, at |-> 0, margin |-> 0,
                     against |-> IF walk.last # <<>> THEN walk.last ELSE walk.prior])
        /\ Len(verdicts) < Len(Destinations)
    BY <1>8 DEF EndOfWalk
  <2> QED BY <1>w, <2>2, <2>3
<1>9. CASE Replayed
  BY <1>0, <1>9 DEF Replayed, TypeOK, tables, plan
<1>10. CASE Deduplicate
  <2>1. survivors' \subseteq Offered
    <3>1. \A k \in DOMAIN valid : valid[k] \subseteq Offered
      BY DEF TypeOK
    <3> QED BY <1>10, <3>1 DEF Deduplicate, Survivors, Combined
  <2> QED BY <1>0, <1>10, <2>1 DEF Deduplicate, TypeOK, tables, plan
<1>11. CASE RankAndCut
  BY <1>0, <1>11 DEF RankAndCut, TypeOK, plan
<1>12. CASE UNCHANGED vars
  BY <1>0, <1>12 DEF vars, TypeOK, tables, plan
<1> QED BY <1>1, <1>2, <1>3, <1>4, <1>5, <1>6, <1>7, <1>8, <1>9, <1>10, <1>11, <1>12
        DEF Next

-----------------------------------------------------------------------------
\* The replay.

\* While the results and the plan stay, a grounded verdict stays grounded, and
\* what a walk knows stays known.
LEMMA GroundsStay ==
    ASSUME UNCHANGED <<valid, planned>>
    PROVE  \A v, d : /\ Grounded(v, d)' <=> Grounded(v, d)
                     /\ WalkKnows(v, d)' <=> WalkKnows(v, d)
<1>1. \A v, d : Grounded(v, d)' <=> Grounded(v, d)
  BY FaresStay DEF Grounded
<1>2. \A v, d : WalkKnows(v, d)' <=> WalkKnows(v, d)
  BY FaresStay DEF WalkKnows
<1> QED BY <1>1, <1>2

\* The origins before the next one are those before this one, and this one if
\* it has a fare.
LEMMA EarlierNext ==
    ASSUME NEW n \in Nat \ {0}, NEW d
    PROVE  \A m : m \in Earlier(n + 1, d)
                     <=> m \in Earlier(n, d) \/ (m = n /\ Fares(m, d) # {})
<1>1. 1..((n + 1) - 1) = (1..(n - 1)) \cup {n}
  OBVIOUS
<1> QED BY <1>1 DEF Earlier

\* An origin without a fare adds nothing to what the walk knows.
LEMMA SkipKnows ==
    ASSUME TypeOK, NEW d, WalkKnows(walk, d), Fares(walk.at, d) = {}
    PROVE  WalkKnows([walk EXCEPT !.at = @ + 1], d)
<1> DEFINE w == [walk EXCEPT !.at = @ + 1]
<1>1. walk.at \in Nat \ {0}
  BY DEF TypeOK
<1>2. w.at = walk.at + 1 /\ w.prior = walk.prior /\ w.low = walk.low
  BY DEF TypeOK
<1>3. Earlier(walk.at + 1, d) = Earlier(walk.at, d)
  <2>1. \A m : m \in Earlier(walk.at + 1, d) <=> m \in Earlier(walk.at, d)
    BY <1>1, EarlierNext
  <2> QED BY <2>1
<1>4. ~Undercuts(walk.at, d)
  BY DEF Undercuts
<1>5. \A m \in 1..((walk.at + 1) - 1) : ~Undercuts(m, d)
  <2>1. \A m \in 1..((walk.at + 1) - 1) : m \in 1..(walk.at - 1) \/ m = walk.at
    BY <1>1
  <2> QED BY <1>4, <2>1 DEF WalkKnows
<1> QED BY <1>2, <1>3, <1>5 DEF WalkKnows

\* If the origin undercuts, its lowest fare triggers.
LEMMA UndercutTriggers ==
    ASSUME TypeOK, NEW d, WalkKnows(walk, d), NEW p \in Fares(walk.at, d),
           IsFare(p, walk.at, d), Undercuts(walk.at, d)
    PROVE  Triggers(p)
<1>n. /\ walk.prior \in Seq(Nat) /\ walk.low \in Nat /\ Threshold \in Nat
      /\ \A i, e : Fares(i, e) \subseteq Nat
  BY FaresAreNat, SelectionAssumption DEF TypeOK
<1>1. Len(walk.prior) >= 2
  <2>1. PICK m1, m2 \in Earlier(walk.at, d) : m1 < m2
    BY DEF Undercuts
  <2>2. PICK i, j \in DOMAIN walk.prior : walk.prior[i] = m1 /\ walk.prior[j] = m2
    BY DEF WalkKnows
  <2>3. i # j
    BY <1>n, <2>1, <2>2
  <2> QED BY <1>n, <2>3
<1>2. PICK m \in Earlier(walk.at, d) : walk.low \in Fares(m, d)
  BY <1>n, <1>1 DEF WalkKnows
<1>3. PICK r \in Fares(walk.at, d) :
        \A e \in Earlier(walk.at, d) : \A q \in Fares(e, d) : q - r >= Threshold
  BY DEF Undercuts
<1>4. walk.low - r >= Threshold /\ p <= r
  BY <1>2, <1>3 DEF IsFare
<1>5. walk.low - p >= Threshold
  BY <1>n, <1>4
<1> QED BY <1>1, <1>5 DEF Triggers

\* The bookkeeping of an origin that did not trigger is right.
LEMMA PassKnows ==
    ASSUME TypeOK, NEW d, WalkKnows(walk, d), NEW p \in Fares(walk.at, d),
           IsFare(p, walk.at, d), ~Triggers(p), NEW last
    PROVE  WalkKnows([at |-> walk.at + 1,
                      prior |-> Append(walk.prior, walk.at),
                      low |-> IF walk.prior = <<>> \/ p < walk.low THEN p ELSE walk.low,
                      last |-> last], d)
<1> DEFINE low == IF walk.prior = <<>> \/ p < walk.low THEN p ELSE walk.low
           prior == Append(walk.prior, walk.at)
           at == walk.at
<1>n. /\ walk.prior \in Seq(Nat) /\ walk.low \in Nat /\ at \in Nat \ {0}
      /\ \A i, e : Fares(i, e) \subseteq Nat
  BY FaresAreNat DEF TypeOK
<1>1. Earlier(at + 1, d) = Earlier(at, d) \cup {at}
  BY <1>n, EarlierNext
<1>a. /\ prior \in Seq(Nat) /\ Len(walk.prior) \in Nat /\ Len(prior) = Len(walk.prior) + 1
      /\ \A i \in 1..Len(walk.prior) : prior[i] = walk.prior[i]
      /\ prior[Len(walk.prior) + 1] = at
  BY <1>n, AppendType
<1>b. \A i \in DOMAIN prior : i \in DOMAIN walk.prior \/ i = Len(walk.prior) + 1
  BY <1>n, <1>a
<1>c. DOMAIN walk.prior = 1..Len(walk.prior) /\ DOMAIN prior = 1..Len(prior)
  BY <1>n, <1>a
<1>2. \A i \in DOMAIN prior : prior[i] \in Earlier(at + 1, d)
  <2> SUFFICES ASSUME NEW i \in DOMAIN prior PROVE prior[i] \in Earlier(at + 1, d)
    OBVIOUS
  <2>1. CASE i \in DOMAIN walk.prior
    BY <1>1, <1>a, <1>c, <2>1 DEF WalkKnows
  <2>2. CASE i = Len(walk.prior) + 1
    BY <1>1, <1>a, <2>2
  <2> QED BY <1>b, <2>1, <2>2
<1>3. \A m \in Earlier(at + 1, d) : \E i \in DOMAIN prior : prior[i] = m
  <2> SUFFICES ASSUME NEW m \in Earlier(at + 1, d) PROVE \E i \in DOMAIN prior : prior[i] = m
    OBVIOUS
  <2>1. CASE m \in Earlier(at, d)
    <3>1. PICK i \in DOMAIN walk.prior : walk.prior[i] = m
      BY <2>1 DEF WalkKnows
    <3>2. i \in DOMAIN prior /\ prior[i] = m
      BY <1>a, <1>c, <3>1
    <3> QED BY <3>2
  <2>2. CASE m = at
    <3>1. Len(walk.prior) + 1 \in DOMAIN prior
      BY <1>a, <1>c
    <3> QED BY <1>a, <2>2, <3>1
  <2> QED BY <1>1, <2>1, <2>2
<1>4. \A i, j \in DOMAIN prior : i < j => prior[i] < prior[j]
  <2> SUFFICES ASSUME NEW i \in DOMAIN prior, NEW j \in DOMAIN prior, i < j
               PROVE prior[i] < prior[j]
    OBVIOUS
  <2>1. i \in DOMAIN walk.prior
    BY <1>a, <1>c
  <2>2. CASE j \in DOMAIN walk.prior
    BY <1>a, <1>c, <2>1, <2>2 DEF WalkKnows
  <2>3. CASE j = Len(walk.prior) + 1
    <3>1. walk.prior[i] \in 1..(at - 1)
      BY <2>1 DEF WalkKnows, Earlier
    <3> QED BY <1>n, <1>a, <1>c, <2>1, <2>3, <3>1
  <2> QED BY <1>b, <2>2, <2>3
<1>5. \E m \in Earlier(at + 1, d) : low \in Fares(m, d)
  <2>1. CASE walk.prior = <<>> \/ p < walk.low
    BY <1>1, <2>1
  <2>2. CASE ~(walk.prior = <<>> \/ p < walk.low)
    BY <1>1, <2>2 DEF WalkKnows
  <2> QED BY <2>1, <2>2
<1>6. \A m \in Earlier(at + 1, d) : \A q \in Fares(m, d) : low <= q
  <2> SUFFICES ASSUME NEW m \in Earlier(at + 1, d), NEW q \in Fares(m, d) PROVE low <= q
    OBVIOUS
  <2>1. p \in Nat /\ q \in Nat
    BY <1>n
  <2>2. CASE m = at
    BY <1>n, <2>1, <2>2 DEF IsFare
  <2>3. CASE m \in Earlier(at, d)
    <3>1. walk.prior # <<>>
      BY <2>3 DEF WalkKnows
    <3>2. walk.low <= q
      BY <2>3 DEF WalkKnows
    <3> QED BY <1>n, <2>1, <3>1, <3>2
  <2> QED BY <1>1, <2>2, <2>3
<1>7. \A m \in 1..((at + 1) - 1) : ~Undercuts(m, d)
  <2>1. ~Undercuts(at, d)
    BY UndercutTriggers
  <2>2. \A m \in 1..((at + 1) - 1) : m \in 1..(at - 1) \/ m = at
    BY <1>n
  <2> QED BY <2>1, <2>2 DEF WalkKnows
<1> QED BY <1>2, <1>3, <1>4, <1>5, <1>6, <1>7 DEF WalkKnows

\* A verdict that triggers is grounded.
LEMMA TriggerGrounded ==
    ASSUME TypeOK, NEW d, WalkKnows(walk, d), walk.at <= Len(planned),
           NEW p \in Fares(walk.at, d), Triggers(p)
    PROVE  Grounded([triggered |-> TRUE, at |-> walk.at, margin |-> walk.low - p,
                     against |-> walk.prior], d)
<1>t. Threshold \in Nat
  BY SelectionAssumption
<1>n. /\ walk.prior \in Seq(Nat) /\ walk.low \in Nat /\ walk.at \in Nat \ {0}
      /\ Threshold \in Nat /\ p \in Nat /\ Len(planned) \in Nat
      /\ \A i, e : Fares(i, e) \subseteq Nat
  BY <1>t, FaresAreNat DEF TypeOK
<1>1. Len(walk.prior) >= 2 /\ walk.low - p >= Threshold
  BY DEF Triggers
<1>2. \E m1, m2 \in Earlier(walk.at, d) : m1 < m2
  <2>1. 1 \in DOMAIN walk.prior /\ 2 \in DOMAIN walk.prior
    BY <1>n, <1>1
  <2> QED BY <2>1 DEF WalkKnows
<1>3. \A m \in Earlier(walk.at, d) : \A q \in Fares(m, d) :
        walk.low - p <= q - p /\ q - p >= Threshold
  <2> SUFFICES ASSUME NEW m \in Earlier(walk.at, d), NEW q \in Fares(m, d)
               PROVE walk.low - p <= q - p /\ q - p >= Threshold
    OBVIOUS
  <2>1. walk.low <= q /\ q \in Nat
    BY <1>n DEF WalkKnows
  <2> QED BY <1>n, <1>1, <2>1
<1>4. Undercuts(walk.at, d)
  BY <1>2, <1>3 DEF Undercuts
<1>5. {walk.prior[i] : i \in DOMAIN walk.prior} = Earlier(walk.at, d)
  BY DEF WalkKnows
<1>6. \A m \in 1..(walk.at - 1) : ~Undercuts(m, d)
  BY DEF WalkKnows
<1>7. walk.at \in 1..Len(planned)
  BY <1>n
<1> QED BY <1>3, <1>4, <1>5, <1>6, <1>7 DEF Grounded

\* The verdict after the last origin is grounded.
LEMMA EndGrounded ==
    ASSUME TypeOK, NEW d, WalkKnows(walk, d), walk.at > Len(planned), NEW against
    PROVE  Grounded([triggered |-> FALSE, at |-> 0, margin |-> 0, against |-> against], d)
<1>1. \A m \in 1..Len(planned) : m \in 1..(walk.at - 1)
  BY DEF TypeOK
<1> QED BY <1>1 DEF Grounded, WalkKnows

\* A walk known to be right is the state's, if nothing it speaks of changes.
LEMMA WalkStays ==
    ASSUME UNCHANGED <<valid, planned>>, NEW w, NEW d, WalkKnows(w, d),
           walk' = w, Walked' = d
    PROVE  WalkKnows(walk, Walked)'
<1>1. WalkKnows(w, d)'
  BY GroundsStay
<1> QED BY <1>1 DEF WalkKnows

\* Verdicts grounded before the step are grounded after it.
LEMMA VerdictsStay ==
    ASSUME UNCHANGED <<valid, planned>>,
           \A n \in DOMAIN verdicts' : Grounded(verdicts'[n], Destinations[n])
    PROVE  VerdictsAreGrounded'
<1>1. \A v, d : Grounded(v, d) => Grounded(v, d)'
  BY GroundsStay
<1>2. \A n \in DOMAIN verdicts' : Grounded(verdicts[n], Destinations[n])'
  <2> SUFFICES ASSUME NEW n \in DOMAIN verdicts'
               PROVE  Grounded(verdicts[n], Destinations[n])'
    OBVIOUS
  <2>1. PICK v : v = verdicts'[n]
    OBVIOUS
  <2>2. Grounded(v, Destinations[n])'
    BY <1>1, <2>1
  <2> QED BY <2>1, <2>2 DEF Grounded
<1> QED BY <1>2 DEF VerdictsAreGrounded

\* A step that gives a grounded verdict keeps the invariant, and the walk of
\* the next destination starts with nothing known.
LEMMA ConcludeSound ==
    ASSUME TypeOK, VerdictsAreGrounded, NEW v, Conclude(v), stage = "replaying",
           Grounded(v, Walked)
    PROVE  (NoVerdictYet /\ WalkSound /\ VerdictsAreGrounded)'
<1>0. /\ UNCHANGED <<valid, planned, stage>> /\ verdicts' = Append(verdicts, v)
      /\ walk' = FreshWalk
  BY DEF Conclude, plan
<1>1. NoVerdictYet'
  BY <1>0 DEF NoVerdictYet
<1>2. WalkSound'
  <2>1. WalkKnows(FreshWalk, Walked')
    BY FreshWalkKnows
  <2> QED BY <1>0, <2>1, WalkStays DEF WalkSound
<1>3. VerdictsAreGrounded'
  <2>1. /\ DOMAIN verdicts' = 1..(Len(verdicts) + 1) /\ DOMAIN verdicts = 1..Len(verdicts)
        /\ \A n \in 1..Len(verdicts) : verdicts'[n] = verdicts[n]
        /\ verdicts'[Len(verdicts) + 1] = v /\ Len(verdicts) \in Nat
    BY <1>0 DEF TypeOK
  <2>2. \A n \in DOMAIN verdicts' : Grounded(verdicts'[n], Destinations[n])
    <3> SUFFICES ASSUME NEW n \in DOMAIN verdicts'
                 PROVE  Grounded(verdicts'[n], Destinations[n])
      OBVIOUS
    <3>1. CASE n \in 1..Len(verdicts)
      BY <2>1, <3>1 DEF VerdictsAreGrounded
    <3>2. CASE n = Len(verdicts) + 1
      BY <2>1, <3>2 DEF Walked
    <3> QED BY <2>1, <3>1, <3>2
  <2> QED BY <1>0, <2>2, VerdictsStay
<1> QED BY <1>1, <1>2, <1>3

\* The initial states satisfy the invariant.
LEMMA GroundsInit == Init => IInv
<1> SUFFICES ASSUME Init PROVE IInv
  OBVIOUS
<1>1. NoVerdictYet /\ WalkSound /\ VerdictsAreGrounded
  BY DEF Init, NoVerdictYet, WalkSound, VerdictsAreGrounded
<1> QED BY <1>1, TypeInit DEF IInv

\* Every step keeps it.
LEMMA GroundsNext == IInv /\ [Next]_vars => (NoVerdictYet /\ WalkSound /\ VerdictsAreGrounded)'
<1> SUFFICES ASSUME IInv, [Next]_vars
             PROVE  (NoVerdictYet /\ WalkSound /\ VerdictsAreGrounded)'
  OBVIOUS
<1>t. TypeOK /\ NoVerdictYet /\ WalkSound /\ VerdictsAreGrounded
  BY DEF IInv
<1>k. walk.at \in Nat \ {0} /\ Len(planned) \in Nat /\ Len(verdicts) \in Nat
  BY <1>t DEF TypeOK
<1>1. CASE CollectTask
  BY <1>1, <1>t DEF CollectTask, NoVerdictYet, WalkSound, VerdictsAreGrounded
<1>2. CASE Collected
  BY <1>2, <1>t DEF Collected, NoVerdictYet, WalkSound, VerdictsAreGrounded
<1>3. CASE AnalyseDestination
  BY <1>3, <1>t DEF AnalyseDestination, NoVerdictYet, WalkSound, VerdictsAreGrounded
<1>4. CASE Analysed
  <2>1. /\ UNCHANGED <<valid, planned>> /\ walk' = FreshWalk /\ verdicts' = <<>>
        /\ stage' = "replaying"
    BY <1>4, <1>t DEF Analysed, NoVerdictYet, plan
  <2>2. WalkKnows(FreshWalk, Walked')
    BY FreshWalkKnows
  <2>3. WalkSound'
    BY <2>1, <2>2, WalkStays DEF WalkSound
  <2> QED BY <2>1, <2>3 DEF NoVerdictYet, VerdictsAreGrounded
<1>s. ASSUME NEW w, UNCHANGED <<plan, stage, valid, verdicts>>, walk' = w,
             WalkKnows(w, Walked), stage = "replaying"
      PROVE  (NoVerdictYet /\ WalkSound /\ VerdictsAreGrounded)'
  <2>0. UNCHANGED <<valid, planned, verdicts>> /\ Walked' = Walked
    BY <1>s DEF plan, Walked
  <2>1. WalkSound'
    BY <1>s, <2>0, WalkStays DEF WalkSound
  <2>2. VerdictsAreGrounded'
    BY <1>t, <2>0, VerdictsStay DEF VerdictsAreGrounded
  <2> QED BY <1>s, <2>1, <2>2 DEF NoVerdictYet
<1>5. CASE SkipOrigin
  <2>1. /\ UNCHANGED <<plan, stage, valid, verdicts>> /\ stage = "replaying"
        /\ walk' = [walk EXCEPT !.at = @ + 1] /\ Fares(walk.at, Walked) = {}
        /\ WalkKnows(walk, Walked)
    BY <1>5, <1>t DEF SkipOrigin, Walking, WalkSound
  <2>2. WalkKnows([walk EXCEPT !.at = @ + 1], Walked)
    BY <1>t, <2>1, SkipKnows
  <2> QED BY <1>s, <2>1, <2>2
<1>6. CASE TriggerAtOrigin
  <2>1. /\ stage = "replaying" /\ walk.at <= Len(planned) /\ WalkKnows(walk, Walked)
    BY <1>6, <1>t DEF TriggerAtOrigin, Walking, WalkSound
  <2>2. PICK p \in Fares(walk.at, Walked) :
          /\ Triggers(p)
          /\ Conclude([triggered |-> TRUE, at |-> walk.at, margin |-> walk.low - p,
                       against |-> walk.prior])
    BY <1>6 DEF TriggerAtOrigin
  <2>3. Grounded([triggered |-> TRUE, at |-> walk.at, margin |-> walk.low - p,
                  against |-> walk.prior], Walked)
    BY <1>t, <2>1, <2>2, TriggerGrounded
  <2> QED BY <1>t, <2>1, <2>2, <2>3, ConcludeSound
<1>7. CASE PassOrigin
  <2>1. /\ UNCHANGED <<plan, stage, valid, verdicts>> /\ stage = "replaying"
        /\ WalkKnows(walk, Walked)
    BY <1>7, <1>t DEF PassOrigin, Walking, WalkSound
  <2>2. PICK p \in Fares(walk.at, Walked) :
          /\ IsFare(p, walk.at, Walked) /\ ~Triggers(p)
          /\ walk' = [at |-> walk.at + 1,
                      prior |-> Append(walk.prior, walk.at),
                      low |-> IF walk.prior = <<>> \/ p < walk.low THEN p ELSE walk.low,
                      last |-> IF Len(walk.prior) >= 2 THEN walk.prior ELSE walk.last]
    BY <1>7 DEF PassOrigin
  <2>3. WalkKnows(walk', Walked)
    BY <1>t, <2>1, <2>2, PassKnows
  <2> QED BY <1>s, <2>1, <2>3
<1>8. CASE EndOfWalk
  <2>1. stage = "replaying" /\ walk.at > Len(planned) /\ WalkKnows(walk, Walked)
    BY <1>8, <1>t DEF EndOfWalk, WalkSound
  <2>2. PICK against : Conclude([triggered |-> FALSE, at |-> 0, margin |-> 0,
                                 against |-> against])
    BY <1>8 DEF EndOfWalk
  <2>3. Grounded([triggered |-> FALSE, at |-> 0, margin |-> 0, against |-> against], Walked)
    BY <1>t, <2>1, EndGrounded
  <2> QED BY <1>t, <2>1, <2>2, <2>3, ConcludeSound
<1>u. ASSUME UNCHANGED <<plan, valid, walk, verdicts>>,
             stage' \notin {"collecting", "analysing", "replaying"}
      PROVE  (NoVerdictYet /\ WalkSound /\ VerdictsAreGrounded)'
  <2>1. UNCHANGED <<valid, planned, verdicts>>
    BY <1>u DEF plan
  <2> QED BY <1>t, <1>u, <2>1, VerdictsStay DEF NoVerdictYet, WalkSound, VerdictsAreGrounded
<1>9. CASE Replayed
  BY <1>9, <1>u DEF Replayed
<1>10. CASE Deduplicate
  BY <1>10, <1>u DEF Deduplicate
<1>11. CASE RankAndCut
  BY <1>11, <1>u DEF RankAndCut
<1>12. CASE UNCHANGED vars
  <2>1. UNCHANGED <<valid, planned, verdicts, stage, walk>> /\ Walked' = Walked
    BY <1>12 DEF vars, plan, Walked
  <2>2. WalkSound'
    BY <1>t, <2>1, WalkStays DEF WalkSound
  <2>3. VerdictsAreGrounded'
    BY <1>t, <2>1, VerdictsStay DEF VerdictsAreGrounded
  <2> QED BY <1>t, <2>1, <2>2, <2>3 DEF NoVerdictYet
<1> QED BY <1>1, <1>2, <1>3, <1>4, <1>5, <1>6, <1>7, <1>8, <1>9, <1>10, <1>11, <1>12
        DEF Next

\* The invariant holds in every run of the selection.
THEOREM Invariance == Spec => []IInv
<1>1. IInv /\ [Next]_vars => IInv'
  BY TypeNext, GroundsNext DEF IInv
<1> QED BY <1>1, GroundsInit, PTL DEF Spec

\* Every variable keeps to its range, whatever the tasks found: the loops end
\* with one analysis and one verdict per destination at most.
THEOREM TypeCorrect == Spec => []TypeOK
<1>1. IInv => TypeOK
  BY DEF IInv
<1> QED BY <1>1, Invariance, PTL

\* For every registry, threshold and set of fares, the loop of
\* evaluate_destination_early_stop decides D12: what it says triggered did, it
\* was the first that could, and where it says nothing triggered nothing could.
THEOREM VerdictsAreSound == Spec => []VerdictsAreGrounded
<1>1. IInv => VerdictsAreGrounded
  BY DEF IInv
<1> QED BY <1>1, Invariance, PTL

-----------------------------------------------------------------------------
\* The orderings of the code as total orders.

\* The keys compared term by term.
LEMMA TwoTerms ==
    ASSUME NEW a1 \in Int, NEW a2 \in Int, NEW b1 \in Int, NEW b2 \in Int
    PROVE  LexLess(<<a1, a2>>, <<b1, b2>>) <=> a1 < b1 \/ (a1 = b1 /\ a2 < b2)
  <1>. DEFINE a == <<a1, a2>>
              b == <<b1, b2>>
  <1>0. /\ DOMAIN a = 1..2 /\ a[1] = a1 /\ a[2] = a2 /\ b[1] = b1 /\ b[2] = b2
    OBVIOUS
  <1>. HIDE DEF a, b
  <1>1. ASSUME a1 < b1 \/ (a1 = b1 /\ a2 < b2) PROVE LexLess(a, b)
    <2>1. CASE a1 < b1
      <3>1. 1 \in DOMAIN a /\ a[1] < b[1] /\ \A j \in 1..(1 - 1) : a[j] = b[j]
        BY <1>0, <2>1
      <3>. QED
        BY <3>1 DEF LexLess
    <2>2. CASE a1 = b1 /\ a2 < b2
      <3>1. 2 \in DOMAIN a /\ a[2] < b[2] /\ \A j \in 1..(2 - 1) : a[j] = b[j]
        BY <1>0, <2>2
      <3>. QED
        BY <3>1 DEF LexLess
    <2>. QED
      BY <1>1, <2>1, <2>2
  <1>2. ASSUME LexLess(a, b) PROVE a1 < b1 \/ (a1 = b1 /\ a2 < b2)
    <2>1. PICK i \in 1..2 : a[i] < b[i] /\ \A j \in 1..(i - 1) : a[j] = b[j]
      BY <1>0, <1>2 DEF LexLess
    <2>2. i = 1 \/ i = 2
      OBVIOUS
    <2>3. i = 2 => a[1] = b[1]
      BY <2>1
    <2>. QED
      BY <1>0, <2>1, <2>2, <2>3
  <1>. QED
    BY <1>1, <1>2 DEF a, b

\* The same of keys of four terms.
LEMMA FourTerms ==
    ASSUME NEW a1 \in Int, NEW a2 \in Int, NEW a3 \in Int, NEW a4 \in Int,
           NEW b1 \in Int, NEW b2 \in Int, NEW b3 \in Int, NEW b4 \in Int
    PROVE  LexLess(<<a1, a2, a3, a4>>, <<b1, b2, b3, b4>>) <=>
             \/ a1 < b1
             \/ a1 = b1 /\ a2 < b2
             \/ a1 = b1 /\ a2 = b2 /\ a3 < b3
             \/ a1 = b1 /\ a2 = b2 /\ a3 = b3 /\ a4 < b4
  <1>. DEFINE a == <<a1, a2, a3, a4>>
              b == <<b1, b2, b3, b4>>
              less == \/ a1 < b1
                      \/ a1 = b1 /\ a2 < b2
                      \/ a1 = b1 /\ a2 = b2 /\ a3 < b3
                      \/ a1 = b1 /\ a2 = b2 /\ a3 = b3 /\ a4 < b4
  <1>0. /\ DOMAIN a = 1..4 /\ a[1] = a1 /\ a[2] = a2 /\ a[3] = a3 /\ a[4] = a4
        /\ b[1] = b1 /\ b[2] = b2 /\ b[3] = b3 /\ b[4] = b4
    OBVIOUS
  <1>. HIDE DEF a, b
  <1>1. ASSUME NEW i \in 1..4, a[i] < b[i], \A j \in 1..(i - 1) : a[j] = b[j]
        PROVE  LexLess(a, b)
    BY <1>0, <1>1 DEF LexLess
  <1>2. ASSUME less PROVE LexLess(a, b)
    <2>1. CASE a1 < b1
      BY <1>0, <1>1, <2>1
    <2>2. CASE a1 = b1 /\ a2 < b2
      <3>1. \A j \in 1..(2 - 1) : a[j] = b[j]
        BY <1>0, <2>2
      <3>. QED
        BY <1>0, <1>1, <2>2, <3>1
    <2>3. CASE a1 = b1 /\ a2 = b2 /\ a3 < b3
      <3>1. \A j \in 1..(3 - 1) : j = 1 \/ j = 2
        OBVIOUS
      <3>2. \A j \in 1..(3 - 1) : a[j] = b[j]
        BY <1>0, <2>3, <3>1
      <3>. QED
        BY <1>0, <1>1, <2>3, <3>2
    <2>4. CASE a1 = b1 /\ a2 = b2 /\ a3 = b3 /\ a4 < b4
      <3>1. \A j \in 1..(4 - 1) : j = 1 \/ j = 2 \/ j = 3
        OBVIOUS
      <3>2. \A j \in 1..(4 - 1) : a[j] = b[j]
        BY <1>0, <2>4, <3>1
      <3>. QED
        BY <1>0, <1>1, <2>4, <3>2
    <2>. QED
      BY <1>2, <2>1, <2>2, <2>3, <2>4
  <1>3. ASSUME LexLess(a, b) PROVE less
    <2>1. PICK i \in 1..4 : a[i] < b[i] /\ \A j \in 1..(i - 1) : a[j] = b[j]
      BY <1>0, <1>3 DEF LexLess
    <2>2. i = 1 \/ i = 2 \/ i = 3 \/ i = 4
      OBVIOUS
    <2>3. /\ i >= 2 => a[1] = b[1]
          /\ i >= 3 => a[2] = b[2]
          /\ i >= 4 => a[3] = b[3]
      BY <2>1
    <2>. QED
      BY <1>0, <2>1, <2>2, <2>3
  <1>. QED
    BY <1>2, <1>3 DEF a, b

\* The types of what the keys are made of.
LEMMA KeyTypes ==
    ASSUME NEW x \in Offered
    PROVE  /\ x.flight \in DOMAIN Flight /\ x.price \in Nat /\ Id[x] \in Nat
           /\ Flight[x.flight] \in [origin : Origins, destination : Places,
                                    stops : {0, 1}, time : Nat, penalty : Nat]
           /\ AdjustedScore(x) \in Int /\ PlainScore(x) \in Int
  <1>1. x.flight \in DOMAIN Flight /\ x.price \in Nat /\ Id[x] \in Nat /\ Bonus \in Nat
    BY SelectionAssumption
  <1>2. Flight[x.flight] \in [origin : Origins, destination : Places,
                              stops : {0, 1}, time : Nat, penalty : Nat]
    BY <1>1, SelectionAssumption
  <1>. QED
    BY <1>1, <1>2 DEF AdjustedScore, PlainScore

\* Cheaper, in its terms.
LEMMA CheaperTerms ==
    ASSUME NEW x \in Offered, NEW y \in Offered
    PROVE  Cheaper(x, y) <=> x.price < y.price \/ (x.price = y.price /\ Id[x] < Id[y])
  <1>1. /\ x.price \in Int /\ y.price \in Int /\ Id[x] \in Int /\ Id[y] \in Int
    BY KeyTypes
  <1>. QED
    BY <1>1, TwoTerms DEF Cheaper, PriceKey

\* Precedes, in its terms.
LEMMA PrecedesTerms ==
    ASSUME NEW x \in Offered, NEW y \in Offered
    PROVE  LET sx == AdjustedScore(x)
               sy == AdjustedScore(y)
               tx == Flight[x.flight].time
               ty == Flight[y.flight].time
           IN  Precedes(x, y) <=>
                 \/ sx < sy
                 \/ sx = sy /\ x.price < y.price
                 \/ sx = sy /\ x.price = y.price /\ tx < ty
                 \/ sx = sy /\ x.price = y.price /\ tx = ty /\ Id[x] < Id[y]
  <1>1. /\ x.price \in Int /\ y.price \in Int /\ Id[x] \in Int /\ Id[y] \in Int
        /\ AdjustedScore(x) \in Int /\ AdjustedScore(y) \in Int
        /\ Flight[x.flight].time \in Int /\ Flight[y.flight].time \in Int
    BY KeyTypes
  <1>. DEFINE sx == AdjustedScore(x)
              sy == AdjustedScore(y)
              tx == Flight[x.flight].time
              ty == Flight[y.flight].time
              px == x.price
              py == y.price
              ix == Id[x]
              iy == Id[y]
  <1>2. Precedes(x, y) <=> LexLess(<<sx, px, tx, ix>>, <<sy, py, ty, iy>>)
    BY DEF Precedes, TiebreakKey
  <1>3. LexLess(<<sx, px, tx, ix>>, <<sy, py, ty, iy>>) <=>
          \/ sx < sy
          \/ sx = sy /\ px < py
          \/ sx = sy /\ px = py /\ tx < ty
          \/ sx = sy /\ px = py /\ tx = ty /\ ix < iy
    <2>1. /\ sx \in Int /\ px \in Int /\ tx \in Int /\ ix \in Int
          /\ sy \in Int /\ py \in Int /\ ty \in Int /\ iy \in Int
      BY <1>1
    <2>. HIDE DEF sx, sy, tx, ty, px, py, ix, iy
    <2>. QED
      BY <2>1, FourTerms
  <1>. QED
    BY <1>2, <1>3

\* No two itineraries have one itinerary_id.
LEMMA IdsDiffer ==
    ASSUME NEW x \in Offered, NEW y \in Offered, x # y
    PROVE  Id[x] # Id[y]
  BY SelectionAssumption

\* The key of the price orders all itineraries.
LEMMA CheaperOrders ==
    /\ \A x \in Offered : ~Cheaper(x, x)
    /\ \A x, y \in Offered : x = y \/ Cheaper(x, y) \/ Cheaper(y, x)
    /\ \A x, y, z \in Offered : Cheaper(x, y) /\ Cheaper(y, z) => Cheaper(x, z)
  <1>1. \A x \in Offered : ~Cheaper(x, x)
    BY CheaperTerms, KeyTypes
  <1>2. ASSUME NEW x \in Offered, NEW y \in Offered, x # y
        PROVE  Cheaper(x, y) \/ Cheaper(y, x)
    BY <1>2, CheaperTerms, KeyTypes, IdsDiffer
  <1>3. ASSUME NEW x \in Offered, NEW y \in Offered, NEW z \in Offered,
               Cheaper(x, y), Cheaper(y, z)
        PROVE  Cheaper(x, z)
    <2>1. /\ x.price \in Nat /\ y.price \in Nat /\ z.price \in Nat
          /\ Id[x] \in Nat /\ Id[y] \in Nat /\ Id[z] \in Nat
      BY KeyTypes
    <2>2. /\ x.price < y.price \/ (x.price = y.price /\ Id[x] < Id[y])
          /\ y.price < z.price \/ (y.price = z.price /\ Id[y] < Id[z])
      BY <1>3, CheaperTerms
    <2>3. x.price < z.price \/ (x.price = z.price /\ Id[x] < Id[z])
      BY <2>1, <2>2
    <2>. QED
      BY <2>3, CheaperTerms
  <1>. QED
    BY <1>1, <1>2, <1>3

\* So does the key of the ranking.
LEMMA PrecedesOrders ==
    /\ \A x \in Offered : ~Precedes(x, x)
    /\ \A x, y \in Offered : x = y \/ Precedes(x, y) \/ Precedes(y, x)
    /\ \A x, y, z \in Offered : Precedes(x, y) /\ Precedes(y, z) => Precedes(x, z)
  <1>0. \A x \in Offered : /\ x.price \in Nat /\ Id[x] \in Nat /\ AdjustedScore(x) \in Int
                           /\ Flight[x.flight].time \in Nat
    BY KeyTypes
  <1>1. \A x \in Offered : ~Precedes(x, x)
    BY <1>0, PrecedesTerms
  <1>2. ASSUME NEW x \in Offered, NEW y \in Offered, x # y
        PROVE  Precedes(x, y) \/ Precedes(y, x)
    <2>1. Id[x] # Id[y]
      BY <1>2, IdsDiffer
    <2>. QED
      BY <1>0, <2>1, PrecedesTerms
  <1>3. ASSUME NEW x \in Offered, NEW y \in Offered, NEW z \in Offered,
               Precedes(x, y), Precedes(y, z)
        PROVE  Precedes(x, z)
    BY <1>0, <1>3, PrecedesTerms
  <1>. QED
    BY <1>1, <1>2, <1>3

-----------------------------------------------------------------------------
\* The places in an order.

\* R orders S strictly.
StrictlyOrders(R, S) ==
    /\ \A x \in S : <<x, x>> \notin R
    /\ \A x, y \in S : x = y \/ <<x, y>> \in R \/ <<y, x>> \in R
    /\ \A x, y, z \in S : <<x, y>> \in R /\ <<y, z>> \in R => <<x, z>> \in R

\* The place of x when S is sorted by R.
PlaceIn(x, S, R) == 1 + Cardinality({y \in S : <<y, x>> \in R})

\* The places are within 1..Cardinality(S) and follow the order.
LEMMA PlacesFollow ==
    ASSUME NEW S, IsFiniteSet(S), NEW R, StrictlyOrders(R, S)
    PROVE  /\ Cardinality(S) \in Nat
           /\ \A x \in S : PlaceIn(x, S, R) \in 1..Cardinality(S)
           /\ \A x, y \in S : <<x, y>> \in R <=> PlaceIn(x, S, R) < PlaceIn(y, S, R)
           /\ \A x, y \in S : PlaceIn(x, S, R) = PlaceIn(y, S, R) => x = y
  <1>. DEFINE Before(x) == {y \in S : <<y, x>> \in R}
  <1>0. Cardinality(S) \in Nat
    BY FS_CardinalityType
  <1>1. ASSUME NEW x \in S
        PROVE  /\ IsFiniteSet(Before(x)) /\ Cardinality(Before(x)) \in Nat
               /\ Cardinality(Before(x)) < Cardinality(S)
    <2>1. Before(x) \in SUBSET S /\ Before(x) # S
      BY DEF StrictlyOrders
    <2>. HIDE DEF Before
    <2>2. IsFiniteSet(Before(x)) /\ Cardinality(Before(x)) <= Cardinality(S)
          /\ Cardinality(Before(x)) # Cardinality(S)
      BY <2>1, FS_Subset
    <2>3. Cardinality(Before(x)) \in Nat
      BY <2>2, FS_CardinalityType
    <2>. QED
      BY <1>0, <2>2, <2>3
  <1>2. ASSUME NEW x \in S, NEW y \in S, <<x, y>> \in R
        PROVE  Cardinality(Before(x)) < Cardinality(Before(y))
    <2>1. Before(x) \in SUBSET Before(y)
      BY <1>2 DEF StrictlyOrders
    <2>2. x \in Before(y) /\ x \notin Before(x)
      BY <1>2 DEF StrictlyOrders
    <2>3. IsFiniteSet(Before(y)) /\ Cardinality(Before(y)) \in Nat
          /\ Cardinality(Before(x)) \in Nat
      BY <1>1
    <2>. HIDE DEF Before
    <2>4. Cardinality(Before(x)) <= Cardinality(Before(y))
          /\ Cardinality(Before(x)) # Cardinality(Before(y))
      BY <2>1, <2>2, <2>3, FS_Subset
    <2>. QED
      BY <2>3, <2>4
  <1>3. \A x \in S : PlaceIn(x, S, R) = 1 + Cardinality(Before(x))
    BY DEF PlaceIn
  <1>. HIDE DEF Before
  <1>4. \A x \in S : PlaceIn(x, S, R) \in 1..Cardinality(S)
    BY <1>0, <1>1, <1>3
  <1>5. \A x, y \in S : <<x, y>> \in R => PlaceIn(x, S, R) < PlaceIn(y, S, R)
    BY <1>1, <1>2, <1>3
  <1>6. ASSUME NEW x \in S, NEW y \in S, PlaceIn(x, S, R) < PlaceIn(y, S, R)
        PROVE  <<x, y>> \in R
    <2>1. PlaceIn(x, S, R) \in Int /\ PlaceIn(y, S, R) \in Int
      BY <1>4
    <2>2. x # y /\ <<y, x>> \notin R
      BY <1>5, <1>6, <2>1
    <2>. QED
      BY <2>2 DEF StrictlyOrders
  <1>7. ASSUME NEW x \in S, NEW y \in S, PlaceIn(x, S, R) = PlaceIn(y, S, R), x # y
        PROVE  FALSE
    <2>1. PlaceIn(x, S, R) \in Int /\ PlaceIn(y, S, R) \in Int
      BY <1>4
    <2>2. <<x, y>> \in R \/ <<y, x>> \in R
      BY <1>7 DEF StrictlyOrders
    <2>. QED
      BY <1>5, <1>7, <2>1, <2>2
  <1>. QED
    BY <1>0, <1>4, <1>5, <1>6, <1>7

\* No place is left out.
LEMMA PlacesAreAll ==
    ASSUME NEW S, IsFiniteSet(S), NEW R, StrictlyOrders(R, S),
           NEW i \in 1..Cardinality(S)
    PROVE  \E x \in S : PlaceIn(x, S, R) = i
  <1>. DEFINE T == 1..Cardinality(S)
              f == [x \in S |-> PlaceIn(x, S, R)]
  <1>1. /\ Cardinality(S) \in Nat
        /\ \A x \in S : PlaceIn(x, S, R) \in T
        /\ \A x, y \in S : PlaceIn(x, S, R) = PlaceIn(y, S, R) => x = y
    BY PlacesFollow
  <1>2. IsFiniteSet(T) /\ Cardinality(T) = Cardinality(S)
    BY <1>1, FS_Interval
  <1>3. f \in Injection(S, T)
    BY <1>1 DEF Injection, IsInjective
  <1>. HIDE DEF f, T
  <1>4. f \in Surjection(S, T)
    BY <1>2, <1>3, FS_Injection
  <1>5. \E x \in S : f[x] = i
    BY <1>4 DEF Surjection, T
  <1>. QED
    BY <1>5 DEF f

\* What a cut at the k-th place leaves: the places 1, 2, ... up to its size.
LEMMA CutPlaces ==
    ASSUME NEW S, IsFiniteSet(S), NEW R, StrictlyOrders(R, S), NEW k \in Nat
    PROVE  LET C == {x \in S : PlaceIn(x, S, R) <= k}
           IN  /\ IsFiniteSet(C)
               /\ {PlaceIn(x, S, R) : x \in C} = 1..Cardinality(C)
               /\ Cardinality(C) = IF k <= Cardinality(S) THEN k ELSE Cardinality(S)
  <1>. DEFINE C == {x \in S : PlaceIn(x, S, R) <= k}
              n == IF k <= Cardinality(S) THEN k ELSE Cardinality(S)
              f == [x \in C |-> PlaceIn(x, S, R)]
  <1>1. /\ Cardinality(S) \in Nat
        /\ \A x \in S : PlaceIn(x, S, R) \in 1..Cardinality(S)
        /\ \A x, y \in S : PlaceIn(x, S, R) = PlaceIn(y, S, R) => x = y
    BY PlacesFollow
  <1>2. n \in Nat /\ IsFiniteSet(1..n) /\ Cardinality(1..n) = n
    <2>1. n \in Nat
      BY <1>1
    <2>. HIDE DEF n
    <2>. QED
      BY <2>1, FS_Interval
  <1>3. \A x \in C : PlaceIn(x, S, R) \in 1..n
    BY <1>1
  <1>4. \A i \in 1..n : \E x \in C : PlaceIn(x, S, R) = i
    <2>. SUFFICES ASSUME NEW i \in 1..n PROVE \E x \in C : PlaceIn(x, S, R) = i
      OBVIOUS
    <2>1. i \in 1..Cardinality(S) /\ i <= k
      BY <1>1
    <2>2. PICK x \in S : PlaceIn(x, S, R) = i
      BY <2>1, PlacesAreAll
    <2>. QED
      BY <2>1, <2>2
  <1>5. \A x, y \in C : PlaceIn(x, S, R) = PlaceIn(y, S, R) => x = y
    BY <1>1
  <1>6. C \in SUBSET S
    OBVIOUS
  <1>. HIDE DEF C, n
  <1>7. f \in Injection(C, 1..n) /\ f \in Surjection(C, 1..n)
    BY <1>3, <1>4, <1>5 DEF Injection, IsInjective, Surjection
  <1>. HIDE DEF f
  <1>8. IsFiniteSet(C) /\ Cardinality(C) = n
    BY <1>2, <1>7, FS_Injection
  <1>9. {PlaceIn(x, S, R) : x \in C} = 1..n
    BY <1>3, <1>4
  <1>10. {PlaceIn(x, S, R) : x \in C} = 1..Cardinality(C)
    BY <1>8, <1>9
  <1>. QED
    BY <1>8, <1>10 DEF C, n

\* Some itinerary has the first place: what sorted()[0] and min() rest on.
LEMMA FirstExists ==
    ASSUME NEW S, IsFiniteSet(S), S # {}, NEW R, StrictlyOrders(R, S)
    PROVE  \E x \in S : PlaceIn(x, S, R) = 1 /\ \A y \in S \ {x} : <<x, y>> \in R
  <1>1. /\ Cardinality(S) \in Nat
        /\ \A x \in S : PlaceIn(x, S, R) \in 1..Cardinality(S)
        /\ \A x, y \in S : <<x, y>> \in R <=> PlaceIn(x, S, R) < PlaceIn(y, S, R)
        /\ \A x, y \in S : PlaceIn(x, S, R) = PlaceIn(y, S, R) => x = y
    BY PlacesFollow
  <1>2. 1 \in 1..Cardinality(S)
    BY <1>1
  <1>3. PICK x \in S : PlaceIn(x, S, R) = 1
    BY <1>2, PlacesAreAll
  <1>4. ASSUME NEW y \in S \ {x} PROVE <<x, y>> \in R
    <2>1. PlaceIn(y, S, R) \in 1..Cardinality(S) /\ PlaceIn(y, S, R) # 1
      BY <1>1, <1>3
    <2>2. PlaceIn(x, S, R) < PlaceIn(y, S, R)
      BY <1>3, <2>1
    <2>. QED
      BY <1>1, <2>2
  <1>. QED
    BY <1>3, <1>4

\* Of some itineraries one is the cheapest.
LEMMA CheapestExists ==
    ASSUME NEW S, S \subseteq Offered, S # {}
    PROVE  \E x \in S : \A y \in S \ {x} : Cheaper(x, y)
  <1>. DEFINE R == {p \in S \X S : Cheaper(p[1], p[2])}
  <1>1. IsFiniteSet(S)
    BY SelectionAssumption, FS_Subset
  <1>2. \A x, y \in S : <<x, y>> \in R <=> Cheaper(x, y)
    OBVIOUS
  <1>. HIDE DEF R
  <1>3. StrictlyOrders(R, S)
    BY <1>2, CheaperOrders DEF StrictlyOrders
  <1>4. PICK x \in S : \A y \in S \ {x} : <<x, y>> \in R
    BY <1>1, <1>3, FirstExists
  <1>. QED
    BY <1>2, <1>4

\* The ranking by score numbers the itineraries in their order, and a cut at the
\* k-th place leaves the first ones.
LEMMA ScoreRanks ==
    ASSUME NEW S, S \subseteq Offered
    PROVE  /\ IsFiniteSet(S)
           /\ \A x \in S : RankByScore(x, S) \in 1..Cardinality(S)
           /\ \A x, y \in S : Precedes(x, y) <=> RankByScore(x, S) < RankByScore(y, S)
           /\ \A x, y \in S : RankByScore(x, S) = RankByScore(y, S) => x = y
           /\ \A k \in Nat :
                LET C == {x \in S : RankByScore(x, S) <= k}
                IN  /\ IsFiniteSet(C)
                    /\ {RankByScore(x, S) : x \in C} = 1..Cardinality(C)
                    /\ Cardinality(C) = IF k <= Cardinality(S) THEN k ELSE Cardinality(S)
  <1>. DEFINE R == {p \in S \X S : Precedes(p[1], p[2])}
  <1>1. IsFiniteSet(S)
    BY SelectionAssumption, FS_Subset
  <1>2. \A x, y \in S : <<x, y>> \in R <=> Precedes(x, y)
    OBVIOUS
  <1>. HIDE DEF R
  <1>3. StrictlyOrders(R, S)
    BY <1>2, PrecedesOrders DEF StrictlyOrders
  <1>4. \A x \in S : RankByScore(x, S) = PlaceIn(x, S, R)
    BY <1>2 DEF RankByScore, PlaceIn
  <1>5. /\ \A x \in S : PlaceIn(x, S, R) \in 1..Cardinality(S)
        /\ \A x, y \in S : <<x, y>> \in R <=> PlaceIn(x, S, R) < PlaceIn(y, S, R)
        /\ \A x, y \in S : PlaceIn(x, S, R) = PlaceIn(y, S, R) => x = y
    BY <1>1, <1>3, PlacesFollow
  <1>6. ASSUME NEW k \in Nat
        PROVE  LET C == {x \in S : RankByScore(x, S) <= k}
               IN  /\ IsFiniteSet(C)
                   /\ {RankByScore(x, S) : x \in C} = 1..Cardinality(C)
                   /\ Cardinality(C) = IF k <= Cardinality(S) THEN k ELSE Cardinality(S)
    <2>. DEFINE C == {x \in S : RankByScore(x, S) <= k}
                D == {x \in S : PlaceIn(x, S, R) <= k}
    <2>1. /\ IsFiniteSet(D)
          /\ {PlaceIn(x, S, R) : x \in D} = 1..Cardinality(D)
          /\ Cardinality(D) = IF k <= Cardinality(S) THEN k ELSE Cardinality(S)
      BY <1>1, <1>3, CutPlaces
    <2>2. C = D
      BY <1>4
    <2>3. {RankByScore(x, S) : x \in C} = {PlaceIn(x, S, R) : x \in C}
      BY <1>4
    <2>. QED
      BY <2>1, <2>2, <2>3
  <1>. QED
    BY <1>1, <1>2, <1>4, <1>5, <1>6

\* The ranking by price gives no place twice.
LEMMA PriceRanks ==
    ASSUME NEW S, S \subseteq Offered
    PROVE  \A x, y \in S : RankByPrice(x, S) = RankByPrice(y, S) => x = y
  <1>. DEFINE R == {p \in S \X S : Cheaper(p[1], p[2])}
  <1>1. IsFiniteSet(S)
    BY SelectionAssumption, FS_Subset
  <1>2. \A x, y \in S : <<x, y>> \in R <=> Cheaper(x, y)
    OBVIOUS
  <1>. HIDE DEF R
  <1>3. StrictlyOrders(R, S)
    BY <1>2, CheaperOrders DEF StrictlyOrders
  <1>4. \A x \in S : RankByPrice(x, S) = PlaceIn(x, S, R)
    BY <1>2 DEF RankByPrice, PlaceIn
  <1>. QED
    BY <1>1, <1>3, <1>4, PlacesFollow

\* A non-empty set of itineraries has a first one.
LEMMA FirstOfRanking ==
    ASSUME NEW S, S \subseteq Offered, S # {}
    PROVE  \E x \in S : /\ RankByScore(x, S) = 1
                        /\ \A y \in S : x = y \/ Precedes(x, y)
  <1>. DEFINE R == {p \in S \X S : Precedes(p[1], p[2])}
  <1>1. IsFiniteSet(S)
    BY ScoreRanks
  <1>2. \A x, y \in S : <<x, y>> \in R <=> Precedes(x, y)
    OBVIOUS
  <1>. HIDE DEF R
  <1>3. StrictlyOrders(R, S)
    BY <1>2, PrecedesOrders DEF StrictlyOrders
  <1>4. PICK x \in S : PlaceIn(x, S, R) = 1 /\ \A y \in S \ {x} : <<x, y>> \in R
    BY <1>1, <1>3, FirstExists
  <1>5. RankByScore(x, S) = 1
    BY <1>2, <1>4 DEF RankByScore, PlaceIn
  <1>. QED
    BY <1>2, <1>4, <1>5

-----------------------------------------------------------------------------
\* What is found, and what is made of it.

\* What the searches found fits the tasks.
FoundFits == \A k \in DOMAIN valid : \A x \in valid[k] : Fits(x, Task(k))

\* The analysis of the pools of the n-th destination.
AnalysisOf(n) == Analysis(Cheapest(DirectPool(Destinations[n])),
                          Cheapest(OneStopPool(Destinations[n])))

\* What stays true of the results once they are computed: every analysis is the
\* one of its destination's pools, what survived is what deduplication left of all
\* that was found, and the tables are cut from it.
Kept ==
    /\ \A i \in DOMAIN planned : \E j \in DOMAIN origins : origins[j] = planned[i]
    /\ stage = "collecting" => analyses = <<>>
    /\ stage \notin {"collecting", "analysing"} => Len(analyses) = Len(Destinations)
    /\ \A n \in DOMAIN analyses : analyses[n] = AnalysisOf(n)
    /\ Deduplicated => survivors = Survivors(Combined)
    /\ stage = "done" =>
         /\ top = RankItineraries(survivors)
         /\ by_origin = [o \in Origins |-> IF \E i \in DOMAIN origins : origins[i] = o
                                           THEN BestOfOrigin(o, survivors) ELSE {}]
         /\ by_destination = [d \in Places |-> TopOfDestination(d, survivors)]

KInv == TypeOK /\ FoundFits /\ Kept

\* What the searches found fits the tasks, in every step.
LEMMA FoundNext == TypeOK /\ FoundFits /\ [Next]_vars => FoundFits'
  <1>. SUFFICES ASSUME TypeOK, FoundFits, [Next]_vars PROVE FoundFits'
    OBVIOUS
  <1>1. CASE CollectTask
    <2>1. PICK found : /\ \A x \in found : Fits(x, Task(Len(valid) + 1))
                       /\ found \in SUBSET Offered
                       /\ valid' = Append(valid, found)
      BY <1>1 DEF CollectTask
    <2>2. valid \in Seq(SUBSET Offered)
      BY DEF TypeOK
    <2>3. /\ DOMAIN valid' = 1..(Len(valid) + 1) /\ Len(valid) \in Nat
          /\ DOMAIN valid = 1..Len(valid)
          /\ \A k \in 1..Len(valid) : valid'[k] = valid[k]
          /\ valid'[Len(valid) + 1] = found
      BY <2>1, <2>2, AppendType
    <2>4. \A k \in DOMAIN valid' : \A x \in valid'[k] : Fits(x, Task(k))
      BY <2>1, <2>3 DEF FoundFits
    <2>5. \A k : Task(k)' = Task(k)
      BY <1>1 DEF CollectTask, Task, plan
    <2>. QED
      BY <2>4, <2>5 DEF FoundFits, Fits
  <1>2. CASE UNCHANGED <<plan, valid>>
    BY <1>2 DEF FoundFits, Task, plan
  <1>3. UNCHANGED <<plan, valid>> \/ CollectTask
    BY DEF Next, vars, Collected, AnalyseDestination, Analysed, SkipOrigin,
           TriggerAtOrigin, PassOrigin, EndOfWalk, Replayed, Deduplicate, RankAndCut,
           Conclude, plan
  <1>. QED
    BY <1>1, <1>2, <1>3

\* While the results and the plan stay, so do the pools and what is made of them.
LEMMA PoolsStay ==
    ASSUME UNCHANGED <<valid, planned>>
    PROVE  /\ Combined' = Combined
           /\ \A n : AnalysisOf(n)' = AnalysisOf(n)
  <1>1. \A d : DirectPool(d)' = DirectPool(d) /\ OneStopPool(d)' = OneStopPool(d)
    BY DEF DirectPool, OneStopPool, TasksTo, Task
  <1>2. \A n : AnalysisOf(n)' = AnalysisOf(n)
    BY <1>1 DEF AnalysisOf
  <1>. QED
    BY <1>2 DEF Combined

\* The origins with tasks are origins of the run.
LEMMA KeptInit == Init => Kept
  <1>. SUFFICES ASSUME Init PROVE Kept
    OBVIOUS
  <1>1. \A i \in DOMAIN planned : \E j \in DOMAIN origins : origins[j] = planned[i]
    <2>1. CASE origins = Registry /\ planned \in Plannable
      <3>1. PICK m \in 1..Len(Registry) : planned \in [1..m -> Origins]
        BY <2>1 DEF Plannable
      <3>. QED
        BY <2>1, <3>1 DEF Origins
    <2>2. CASE \E o \in Origins : origins = <<o>> /\ planned = <<o>>
      BY <2>2
    <2>. QED
      BY <2>1, <2>2 DEF Init
  <1>. QED
    BY <1>1 DEF Init, Kept, Deduplicated

\* Every step keeps it: nothing that is computed once is computed from what a
\* later step still changes.
LEMMA KeptNext == TypeOK /\ Kept /\ [Next]_vars => Kept'
  <1>. SUFFICES ASSUME TypeOK, Kept, [Next]_vars PROVE Kept'
    OBVIOUS
  <1>0. UNCHANGED <<origins, planned>>
    BY DEF Next, vars, CollectTask, Collected, AnalyseDestination, Analysed, SkipOrigin,
           TriggerAtOrigin, PassOrigin, EndOfWalk, Replayed, Deduplicate, RankAndCut,
           Conclude, plan
  <1>1. CASE CollectTask
    BY <1>0, <1>1 DEF CollectTask, Kept, Deduplicated
  <1>2. CASE Collected
    BY <1>0, <1>2 DEF Collected, Kept, Deduplicated
  <1>a. ASSUME UNCHANGED valid
        PROVE  Combined' = Combined /\ \A n : AnalysisOf(n)' = AnalysisOf(n)
    BY <1>0, <1>a, PoolsStay
  <1>3. CASE AnalyseDestination
    <2>1. /\ UNCHANGED <<valid, stage>> /\ stage = "analysing"
          /\ analyses' = Append(analyses, AnalysisOf(Len(analyses) + 1))
      BY <1>3 DEF AnalyseDestination, AnalysisOf
    <2>2. /\ DOMAIN analyses' = 1..(Len(analyses) + 1)
          /\ DOMAIN analyses = 1..Len(analyses) /\ Len(analyses) \in Nat
          /\ \A n \in 1..Len(analyses) : analyses'[n] = analyses[n]
          /\ analyses'[Len(analyses) + 1] = AnalysisOf(Len(analyses) + 1)
      <3>. DEFINE a == AnalysisOf(Len(analyses) + 1)
      <3>1. analyses' = Append(analyses, a)
        BY <2>1
      <3>. HIDE DEF a
      <3>2. /\ DOMAIN analyses' = 1..(Len(analyses) + 1)
            /\ DOMAIN analyses = 1..Len(analyses) /\ Len(analyses) \in Nat
            /\ \A n \in 1..Len(analyses) : analyses'[n] = analyses[n]
            /\ analyses'[Len(analyses) + 1] = a
        BY <3>1 DEF TypeOK
      <3>. QED
        BY <3>2 DEF a
    <2>3. \A n \in DOMAIN analyses' : analyses'[n] = AnalysisOf(n)'
      BY <1>a, <2>1, <2>2 DEF Kept
    <2>. QED
      BY <1>0, <2>1, <2>3 DEF Kept, Deduplicated
  <1>4. CASE Analysed
    BY <1>0, <1>4, <1>a DEF Analysed, Kept, Deduplicated
  <1>5. ASSUME UNCHANGED <<valid, analyses, survivors, tables, stage>> PROVE Kept'
    <2>1. /\ Combined' = Combined /\ \A n : AnalysisOf(n)' = AnalysisOf(n)
          /\ UNCHANGED <<top, by_origin, by_destination>>
      BY <1>5, <1>a DEF tables
    <2>. QED
      BY <1>0, <1>5, <2>1 DEF Kept, Deduplicated
  <1>6. CASE SkipOrigin \/ TriggerAtOrigin \/ PassOrigin \/ EndOfWalk
    BY <1>5, <1>6 DEF SkipOrigin, TriggerAtOrigin, PassOrigin, EndOfWalk, Conclude
  <1>7. CASE Replayed
    BY <1>0, <1>7, <1>a DEF Replayed, Kept, Deduplicated
  <1>8. CASE Deduplicate
    BY <1>0, <1>8, <1>a DEF Deduplicate, Kept, Deduplicated
  <1>9. CASE RankAndCut
    BY <1>0, <1>9, <1>a DEF RankAndCut, Kept, Deduplicated
  <1>10. CASE UNCHANGED vars
    BY <1>5, <1>10 DEF vars
  <1>. QED
    BY <1>1, <1>2, <1>3, <1>4, <1>6, <1>7, <1>8, <1>9, <1>10 DEF Next

\* No result goes stale: the analyses, the survivors and the tables are, in every
\* state after they were computed, what their definitions make of all that was
\* found, and what was found fits its task.
THEOREM KeptInvariance == Spec => []KInv
  <1>1. Init => KInv
    BY TypeInit, KeptInit DEF KInv, Init, FoundFits
  <1>2. KInv /\ [Next]_vars => KInv'
    BY TypeNext, FoundNext, KeptNext DEF KInv
  <1>. QED
    BY <1>1, <1>2, PTL DEF Spec

\* How \div behaves where Task uses it.
LEMMA QuotientBelow ==
    ASSUME NEW L \in Nat \ {0}, NEW n \in Nat, NEW a \in Nat, a < n * L
    PROVE  a \div L \in 0..(n - 1)
  <1>. DEFINE q == a \div L
  <1>1. q \in Nat /\ L * q <= a
    OBVIOUS
  <1>. HIDE DEF q
  <1>2. ASSUME q >= n PROVE FALSE
    <2>1. L * (q - n) >= 0
      BY <1>1, <1>2
    <2>2. L * q = L * (q - n) + n * L
      BY <1>1
    <2>3. n * L \in Int /\ L * q \in Int /\ L * (q - n) \in Int
      BY <1>1
    <2>. QED
      BY <1>1, <2>1, <2>2, <2>3
  <1>. QED
    BY <1>1, <1>2 DEF q

\* A task is a direct or a one-stop search from a planned origin.
LEMMA TaskShape ==
    ASSUME TypeOK, NEW k \in DOMAIN valid
    PROVE  /\ Task(k).max_stops \in {0, 1}
           /\ \E i \in DOMAIN planned : Task(k).origin = planned[i]
           /\ k \in 1..NumTasks
  <1>. DEFINE L == Len(Destinations)
              T == TasksPerOrigin
  <1>1. L \in Nat \ {0} /\ T = 2 * L /\ T \in Nat \ {0}
    BY PlacesInOrder DEF TasksPerOrigin
  <1>2. Len(planned) \in Nat /\ DOMAIN planned = 1..Len(planned)
    BY DEF TypeOK
  <1>3. k \in 1..NumTasks
    <2>1. NumTasks \in Nat
      BY NumTasksNat DEF TypeOK
    <2>. QED
      BY <2>1 DEF TypeOK
  <1>4. NumTasks = Len(planned) * T
    BY DEF NumTasks
  <1>. DEFINE r == (k - 1) % T
  <1>5. r \in Nat /\ r < 2 * L
    <2>. HIDE DEF T, L
    <2>1. k - 1 \in Nat
      BY <1>3
    <2>2. r \in 0..(T - 1)
      BY <1>1, <2>1
    <2>. QED
      BY <1>1, <2>2
  <1>6. Task(k).max_stops = r \div L
    BY DEF Task
  <1>7. Task(k).origin = planned[((k - 1) \div T) + 1]
    BY DEF Task
  <1>. HIDE DEF L, T, r
  <1>8. r \div L \in 0..(2 - 1)
    BY <1>1, <1>5, QuotientBelow
  <1>9. (k - 1) \div T \in 0..(Len(planned) - 1)
    <2>1. k - 1 \in Nat /\ k - 1 < Len(planned) * T
      <3>1. Len(planned) * T \in Int
        BY <1>1, <1>2
      <3>. QED
        BY <1>3, <1>4, <3>1
    <2>. QED
      BY <1>1, <1>2, <2>1, QuotientBelow
  <1>10. ((k - 1) \div T) + 1 \in DOMAIN planned
    BY <1>2, <1>9
  <1>. QED
    BY <1>3, <1>6, <1>7, <1>8, <1>10

\* The pools are what was found to the destination: a one-stop flight is only
\* ever found by a one-stop search.
LEMMA PoolIsFound ==
    ASSUME TypeOK, FoundFits, NEW d
    PROVE  /\ OneStopPool(d) = {x \in To(d, Combined) : Stops(x) = 1}
           /\ DirectPool(d) \subseteq {x \in To(d, Combined) : Stops(x) = 0}
           /\ DirectPool(d) \subseteq Offered /\ OneStopPool(d) \subseteq Offered
  <1>1. ASSUME NEW k \in DOMAIN valid, NEW x \in valid[k]
        PROVE  /\ x \in Offered /\ x \in Combined /\ Stops(x) \in {0, 1}
               /\ Flight[x.flight].destination = Task(k).destination
               /\ Stops(x) <= Task(k).max_stops /\ Task(k).max_stops \in {0, 1}
    <2>1. x \in Offered /\ x \in Combined
      BY <1>1 DEF TypeOK, Combined
    <2>. QED
      BY <1>1, <2>1, TaskShape, KeyTypes DEF FoundFits, Fits, Stops
  <1>2. ASSUME NEW x \in OneStopPool(d)
        PROVE  x \in To(d, Combined) /\ Stops(x) = 1 /\ x \in Offered
    BY <1>1 DEF OneStopPool, TasksTo, To
  <1>3. ASSUME NEW x \in To(d, Combined), Stops(x) = 1
        PROVE  x \in OneStopPool(d)
    <2>1. PICK k \in DOMAIN valid : x \in valid[k]
      BY DEF To, Combined
    <2>2. k \in TasksTo(d, 1)
      BY <1>1, <1>3, <2>1 DEF TasksTo, To
    <2>. QED
      BY <1>3, <2>1, <2>2 DEF OneStopPool
  <1>4. ASSUME NEW x \in DirectPool(d)
        PROVE  x \in To(d, Combined) /\ Stops(x) = 0 /\ x \in Offered
    BY <1>1 DEF DirectPool, TasksTo, To
  <1>5. OneStopPool(d) = {x \in To(d, Combined) : Stops(x) = 1}
    <2>1. {x \in To(d, Combined) : Stops(x) = 1} \subseteq OneStopPool(d)
      BY <1>3
    <2>. QED
      BY <1>2, <2>1
  <1>. QED
    BY <1>2, <1>4, <1>5

\* A pool has at most one cheapest itinerary.
LEMMA CheapestIsOne ==
    ASSUME NEW S, S \subseteq Offered, NEW x \in Cheapest(S)
    PROVE  /\ Cheapest(S) = {x}
           /\ \A y \in S : x = y \/ Cheaper(x, y)
           /\ \A y \in S : x.price <= y.price
  <1>1. x \in S /\ \A y \in S : x = y \/ Cheaper(x, y)
    BY DEF Cheapest
  <1>2. ASSUME NEW y \in Cheapest(S), y # x PROVE FALSE
    <2>1. Cheaper(x, y) /\ Cheaper(y, x) /\ y \in S
      BY <1>1, <1>2 DEF Cheapest
    <2>. QED
      BY <1>1, <2>1, CheaperOrders
  <1>3. ASSUME NEW y \in S PROVE x.price <= y.price
    <2>1. x.price \in Nat /\ y.price \in Nat
      BY <1>1, KeyTypes
    <2>. QED
      BY <1>1, <2>1, CheaperTerms
  <1>. QED
    BY <1>1, <1>2, <1>3

\* A pool that is not empty has one.
LEMMA CheapestOfPool ==
    ASSUME NEW S, S \subseteq Offered, S # {}
    PROVE  Cheapest(S) # {}
  BY CheapestExists DEF Cheapest

\* What the analysis of two pools quotes.
LEMMA AnalysisQuotes ==
    ASSUME NEW D, D \subseteq Offered, NEW S, S \subseteq Offered
    PROVE  LET a == Analysis(Cheapest(D), Cheapest(S))
           IN  /\ a.direct = Cheapest(D) /\ a.stop = Cheapest(S)
               /\ \A v \in a.direct, w \in a.stop :
                    /\ a.tier = DirectTier(v.price - w.price, w.price)
                    /\ a.divergence = (FavoursDirect(a.tier) # (AdjustedScore(v) < AdjustedScore(w)))
               /\ a.direct = {} \/ a.stop = {} =>
                    a.tier = IF a.direct = {} THEN "NOT_AVAILABLE" ELSE "RECOMMENDED"
  <1>. DEFINE a == Analysis(Cheapest(D), Cheapest(S))
  <1>1. CASE Cheapest(D) = {} \/ Cheapest(S) = {}
    BY <1>1 DEF Analysis
  <1>2. CASE Cheapest(D) # {} /\ Cheapest(S) # {}
    <2>1. PICK v \in Cheapest(D), w \in Cheapest(S) : TRUE
      BY <1>2
    <2>2. Cheapest(D) = {v} /\ Cheapest(S) = {w}
      BY <2>1, CheapestIsOne
    <2>3. (CHOOSE x \in {v} : TRUE) = v /\ (CHOOSE x \in {w} : TRUE) = w
      OBVIOUS
    <2>4. a = Comparison(v, w)
      BY <2>2, <2>3 DEF Analysis
    <2>5. /\ a.direct = {v} /\ a.stop = {w}
          /\ a.tier = DirectTier(v.price - w.price, w.price)
          /\ a.divergence = (FavoursDirect(a.tier) # (AdjustedScore(v) < AdjustedScore(w)))
      BY <2>4 DEF Comparison
    <2>. QED
      BY <2>2, <2>5
  <1>. QED
    BY <1>1, <1>2

-----------------------------------------------------------------------------
\* The divergence flag.

\* What the flag is compared without: ties.  A direct flight is never as much
\* slower than a one-stop flight to the same destination as the bonus is worth.
DirectIsNotMuchSlower ==
    \A f, g \in DOMAIN Flight :
      Flight[f].stops = 0 /\ Flight[g].stops = 1
        /\ Flight[f].destination = Flight[g].destination
        => Flight[f].time + Flight[f].penalty < Flight[g].time + Flight[g].penalty + Bonus

\* Then comparing the scores is comparing the ranking's keys: where the scores
\* are equal, the direct itinerary is the dearer one.
LEMMA TiesFallToTheStop ==
    ASSUME DirectIsNotMuchSlower, NEW x \in Offered, NEW y \in Offered,
           Stops(x) = 0, Stops(y) = 1,
           Flight[x.flight].destination = Flight[y.flight].destination
    PROVE  AdjustedScore(x) < AdjustedScore(y) <=> Precedes(x, y)
  <1>1. /\ x.price \in Nat /\ y.price \in Nat /\ Bonus \in Nat
        /\ x.flight \in DOMAIN Flight /\ y.flight \in DOMAIN Flight
        /\ Flight[x.flight].time \in Nat /\ Flight[y.flight].time \in Nat
        /\ Flight[x.flight].penalty \in Nat /\ Flight[y.flight].penalty \in Nat
        /\ AdjustedScore(x) \in Int /\ AdjustedScore(y) \in Int
    BY KeyTypes, SelectionAssumption
  <1>2. AdjustedScore(x) = AdjustedScore(y) => y.price < x.price
    BY <1>1 DEF DirectIsNotMuchSlower, AdjustedScore, PlainScore, Stops
  <1>. QED
    BY <1>1, <1>2, PrecedesTerms

\* What the flag of an analysis says: whether the tier disagrees with the scores.
LEMMA FlagComparesScores ==
    ASSUME KInv, NEW n \in DOMAIN analyses,
           NEW x \in analyses[n].direct, NEW y \in analyses[n].stop
    PROVE  /\ analyses[n].divergence
                = (FavoursDirect(analyses[n].tier) # (AdjustedScore(x) < AdjustedScore(y)))
           /\ x \in Offered /\ Stops(x) = 0 /\ y \in Offered /\ Stops(y) = 1
           /\ Flight[x.flight].destination = Flight[y.flight].destination
  <1>. DEFINE d == Destinations[n]
              a == Analysis(Cheapest(DirectPool(d)), Cheapest(OneStopPool(d)))
  <1>0. analyses[n] = a /\ TypeOK /\ FoundFits
    BY DEF KInv, Kept, AnalysisOf
  <1>1. /\ OneStopPool(d) = {z \in To(d, Combined) : Stops(z) = 1}
        /\ DirectPool(d) \subseteq {z \in To(d, Combined) : Stops(z) = 0}
        /\ DirectPool(d) \subseteq Offered /\ OneStopPool(d) \subseteq Offered
    BY <1>0, PoolIsFound
  <1>2. /\ a.direct = Cheapest(DirectPool(d)) /\ a.stop = Cheapest(OneStopPool(d))
        /\ a.divergence = (FavoursDirect(a.tier) # (AdjustedScore(x) < AdjustedScore(y)))
    BY <1>0, <1>1, AnalysisQuotes
  <1>3. x \in DirectPool(d) /\ y \in OneStopPool(d)
    BY <1>0, <1>2 DEF Cheapest
  <1>. QED
    BY <1>0, <1>1, <1>2, <1>3 DEF To

\* Then it tells of the ranking where the scores order the two as the keys do.
LEMMA FlagIsTrue ==
    ASSUME KInv, NEW n \in DOMAIN analyses,
           NEW x \in analyses[n].direct, NEW y \in analyses[n].stop,
           AdjustedScore(x) < AdjustedScore(y) <=> Precedes(x, y)
    PROVE  analyses[n].divergence <=> (FavoursDirect(analyses[n].tier) # Precedes(x, y))
  <1>. DEFINE favours == FavoursDirect(analyses[n].tier)
              less == AdjustedScore(x) < AdjustedScore(y)
  <1>1. analyses[n].divergence = (favours # less)
    BY FlagComparesScores
  <1>2. favours \in BOOLEAN /\ Precedes(x, y) \in BOOLEAN /\ less \in BOOLEAN
    BY DEF FavoursDirect, Precedes, LexLess
  <1>3. less = Precedes(x, y)
    BY <1>2
  <1>. HIDE DEF favours, less
  <1>4. analyses[n].divergence <=> (favours # Precedes(x, y))
    BY <1>1, <1>2, <1>3, Zenon
  <1>. QED
    BY <1>4 DEF favours

\* score_policy_divergence is set exactly when the tier favours the itinerary
\* that the ranking puts second, for all tiers, prices and bonuses, provided no
\* direct flight is so slow that the bonus only just outweighs it: there
\* analyze_destination compares with "<" what the ranking decides by the price.
THEOREM DivergenceIsTrue ==
    ASSUME DirectIsNotMuchSlower
    PROVE  Spec => []DivergenceAgreesWithRanking
  <1>1. KInv => DivergenceAgreesWithRanking
    <2>. SUFFICES ASSUME KInv, NEW n \in DOMAIN analyses,
                         NEW x \in analyses[n].direct, NEW y \in analyses[n].stop
                  PROVE  analyses[n].divergence
                           <=> (FavoursDirect(analyses[n].tier) # Precedes(x, y))
      BY DEF DivergenceAgreesWithRanking
    <2>1. AdjustedScore(x) < AdjustedScore(y) <=> Precedes(x, y)
      BY FlagComparesScores, TiesFallToTheStop
    <2>. QED
      BY <2>1, FlagIsTrue
  <1>. QED
    BY <1>1, KeptInvariance, PTL

\* The flag where the two scores are not the same.
FlagTrueButForTies ==
    \A n \in DOMAIN analyses :
      \A x \in analyses[n].direct, y \in analyses[n].stop :
        AdjustedScore(x) # AdjustedScore(y) =>
          (analyses[n].divergence <=> (FavoursDirect(analyses[n].tier) # Precedes(x, y)))

\* Without any provision on the flights, a tie of the two scores is the only case
\* in which score_policy_divergence may not tell of the ranking.
THEOREM OnlyTiesMislead == Spec => []FlagTrueButForTies
  <1>1. KInv => FlagTrueButForTies
    <2>. SUFFICES ASSUME KInv, NEW n \in DOMAIN analyses,
                         NEW x \in analyses[n].direct, NEW y \in analyses[n].stop,
                         AdjustedScore(x) # AdjustedScore(y)
                  PROVE  analyses[n].divergence
                           <=> (FavoursDirect(analyses[n].tier) # Precedes(x, y))
      BY DEF FlagTrueButForTies
    <2>1. x \in Offered /\ y \in Offered
      BY FlagComparesScores
    <2>2. AdjustedScore(x) \in Int /\ AdjustedScore(y) \in Int
      BY <2>1, KeyTypes
    <2>3. AdjustedScore(x) < AdjustedScore(y) <=> Precedes(x, y)
      BY <2>1, <2>2, PrecedesTerms
    <2>. QED
      BY <2>3, FlagIsTrue
  <1>. QED
    BY <1>1, KeptInvariance, PTL

-----------------------------------------------------------------------------
\* Deduplication.

\* Two offers of one flight are scored in the order of their prices.
LEMMA OneFlightOneOrder ==
    ASSUME NEW x \in Offered, NEW y \in Offered, x.flight = y.flight, Cheaper(x, y)
    PROVE  Precedes(x, y)
  <1>1. /\ x.price \in Nat /\ y.price \in Nat /\ Bonus \in Nat
        /\ Flight[x.flight].time \in Nat /\ Flight[x.flight].penalty \in Nat
    BY KeyTypes, SelectionAssumption
  <1>2. x.price < y.price \/ (x.price = y.price /\ Id[x] < Id[y])
    BY CheaperTerms
  <1>3. /\ x.price < y.price => AdjustedScore(x) < AdjustedScore(y)
        /\ x.price = y.price => AdjustedScore(x) = AdjustedScore(y)
    BY <1>1 DEF AdjustedScore, PlainScore, Stops
  <1>4. Flight[x.flight].time = Flight[y.flight].time
    OBVIOUS
  <1>. QED
    BY <1>2, <1>3, <1>4, PrecedesTerms

\* What was found is what was offered.
LEMMA CombinedIsOffered == TypeOK => Combined \subseteq Offered
  BY DEF TypeOK, Combined

\* deduplicate keeps one itinerary of every flight, the cheapest.
LEMMA OneSurvives ==
    ASSUME NEW S, S \subseteq Offered, NEW x \in S
    PROVE  \E s \in Survivors(S) : /\ s.flight = x.flight
                                   /\ s = x \/ Cheaper(s, x)
                                   /\ \A t \in Survivors(S) : t.flight = x.flight => t = s
  <1>. DEFINE F == {y \in S : y.flight = x.flight}
  <1>1. PICK s \in F : \A y \in F \ {s} : Cheaper(s, y)
    <2>1. F \subseteq Offered /\ F # {}
      OBVIOUS
    <2>. HIDE DEF F
    <2>. QED
      BY <2>1, CheapestExists
  <1>2. s \in Survivors(S)
    BY <1>1 DEF Survivors
  <1>3. ASSUME NEW t \in Survivors(S), t.flight = x.flight, t # s
        PROVE  FALSE
    <2>1. t \in F \ {s} /\ s \in S \ {t} /\ s.flight = t.flight
      BY <1>1, <1>3 DEF Survivors
    <2>2. Cheaper(s, t) /\ Cheaper(t, s)
      BY <1>1, <1>3, <2>1 DEF Survivors
    <2>. QED
      BY <2>1, <2>2, CheaperOrders
  <1>. QED
    BY <1>1, <1>2, <1>3

\* deduplicate by the price never drops an itinerary that the scoring would have
\* ranked before the one it keeps, whatever was offered at which price.
THEOREM DuplicatesAreOutranked == Spec => []NoDuplicateOutranks
  <1>1. KInv => NoDuplicateOutranks
    <2>. SUFFICES ASSUME KInv, Deduplicated, NEW x \in Combined
                  PROVE  \E s \in survivors : /\ s.flight = x.flight
                                              /\ ~Precedes(x, s)
                                              /\ \A t \in survivors : t.flight = x.flight => t = s
      BY DEF NoDuplicateOutranks
    <2>1. survivors = Survivors(Combined) /\ Combined \subseteq Offered
      BY CombinedIsOffered DEF KInv, Kept
    <2>2. PICK s \in survivors : /\ s.flight = x.flight
                                 /\ s = x \/ Cheaper(s, x)
                                 /\ \A t \in survivors : t.flight = x.flight => t = s
      BY <2>1, OneSurvives
    <2>3. s \in Offered /\ x \in Offered
      BY <2>1 DEF Survivors
    <2>4. ~Precedes(x, s)
      BY <2>2, <2>3, OneFlightOneOrder, PrecedesOrders
    <2>. QED
      BY <2>2, <2>4
  <1>. QED
    BY <1>1, KeptInvariance, PTL

-----------------------------------------------------------------------------
\* The analyses and the ranking.

\* Deduplication does not lose the cheapest one-stop itinerary of a destination.
LEMMA CheapestSurvives ==
    ASSUME NEW S, S \subseteq Offered, NEW d
    PROVE  Cheapest({x \in To(d, S) : Stops(x) = 1})
             = Cheapest({x \in To(d, Survivors(S)) : Stops(x) = 1})
  <1>. DEFINE P == {x \in To(d, S) : Stops(x) = 1}
              Q == {x \in To(d, Survivors(S)) : Stops(x) = 1}
  <1>1. Q \subseteq P /\ P \subseteq S
    BY DEF To, Survivors
  <1>2. ASSUME NEW x \in P, NEW y \in S, y.flight = x.flight PROVE y \in P
    BY <1>2 DEF To, Stops
  <1>3. ASSUME NEW x \in Cheapest(P) PROVE x \in Cheapest(Q)
    <2>1. x \in P /\ \A y \in P \ {x} : Cheaper(x, y)
      BY <1>3 DEF Cheapest
    <2>2. x \in Survivors(S)
      BY <1>1, <1>2, <2>1 DEF Survivors
    <2>3. x \in Q
      BY <2>1, <2>2 DEF To
    <2>. QED
      BY <1>1, <2>1, <2>3 DEF Cheapest
  <1>4. ASSUME NEW x \in Cheapest(Q) PROVE x \in Cheapest(P)
    <2>1. x \in Q /\ \A y \in Q \ {x} : Cheaper(x, y)
      BY <1>4 DEF Cheapest
    <2>2. ASSUME NEW y \in P, y # x PROVE Cheaper(x, y)
      <3>1. PICK s \in Survivors(S) : s.flight = y.flight /\ (s = y \/ Cheaper(s, y))
        BY <1>1, OneSurvives
      <3>2. s \in Q
        BY <3>1 DEF To, Stops
      <3>3. x = s \/ Cheaper(x, s)
        BY <2>1, <3>2
      <3>. QED
        BY <1>1, <2>1, <2>2, <3>1, <3>2, <3>3, CheaperOrders
    <2>. QED
      BY <1>1, <2>1, <2>2 DEF Cheapest
  <1>. QED
    BY <1>3, <1>4

\* The tier of a difference beyond the ladder's last step.
LEMMA NotRecommended ==
    ASSUME NEW diff \in Int, NEW base, DirectTier(diff, base) = "NOT_RECOMMENDED"
    PROVE  diff > GoodDiff
  <1>1. GoodDiff \in Int
    BY SelectionAssumption
  <1>2. ~(diff <= GoodDiff)
    BY DEF DirectTier
  <1>. QED
    BY <1>1, <1>2

\* Whatever the searches found, the analyses, which are made of the pools, tell
\* of the fares that the ranking shows, which is made of what deduplication left.
THEOREM AnalysesAreOfTheRanking == Spec => []AnalysesQuoteTheRanking
  <1>1. KInv => AnalysesQuoteTheRanking
    <2>. SUFFICES ASSUME KInv, Deduplicated, NEW n \in DOMAIN analyses
                  PROVE  LET a == analyses[n]
                             d == Destinations[n]
                         IN  /\ a.stop = Cheapest({x \in To(d, survivors) : Stops(x) = 1})
                             /\ a.tier = "NOT_RECOMMENDED" =>
                                  \E s \in a.stop : \A x \in DirectPool(d) :
                                    x.price - s.price > GoodDiff
      BY DEF AnalysesQuoteTheRanking
    <2>. DEFINE a == analyses[n]
                d == Destinations[n]
    <2>1. /\ survivors = Survivors(Combined) /\ Combined \subseteq Offered
          /\ a = Analysis(Cheapest(DirectPool(d)), Cheapest(OneStopPool(d)))
          /\ TypeOK /\ FoundFits
      BY CombinedIsOffered DEF KInv, Kept, AnalysisOf
    <2>2. /\ OneStopPool(d) = {x \in To(d, Combined) : Stops(x) = 1}
          /\ DirectPool(d) \subseteq Offered /\ OneStopPool(d) \subseteq Offered
      BY <2>1, PoolIsFound
    <2>3. /\ a.direct = Cheapest(DirectPool(d)) /\ a.stop = Cheapest(OneStopPool(d))
          /\ \A v \in a.direct, w \in a.stop :
               a.tier = DirectTier(v.price - w.price, w.price)
          /\ a.direct = {} \/ a.stop = {} => a.tier # "NOT_RECOMMENDED"
      BY <2>1, <2>2, AnalysisQuotes
    <2>. HIDE DEF a, d
    <2>4. a.stop = Cheapest({x \in To(d, survivors) : Stops(x) = 1})
      BY <2>1, <2>2, <2>3, CheapestSurvives
    <2>5. ASSUME a.tier = "NOT_RECOMMENDED"
          PROVE  \E s \in a.stop : \A x \in DirectPool(d) : x.price - s.price > GoodDiff
      <3>1. PICK v \in a.direct, w \in a.stop : TRUE
        BY <2>3, <2>5
      <3>2. v \in DirectPool(d) /\ w \in OneStopPool(d)
        BY <2>3, <3>1 DEF Cheapest
      <3>3. v.price \in Nat /\ w.price \in Nat
        BY <2>2, <3>2, KeyTypes
      <3>4. v.price - w.price > GoodDiff
        BY <2>3, <2>5, <3>1, <3>3, NotRecommended
      <3>5. \A x \in DirectPool(d) : v.price <= x.price /\ x.price \in Nat
        BY <2>2, <2>3, <3>1, CheapestIsOne, KeyTypes
      <3>6. GoodDiff \in Int
        BY SelectionAssumption
      <3>7. \A x \in DirectPool(d) : x.price - w.price > GoodDiff
        BY <3>3, <3>4, <3>5, <3>6
      <3>. QED
        BY <3>1, <3>7
    <2>. QED
      BY <2>4, <2>5 DEF a, d
  <1>. QED
    BY <1>1, KeptInvariance, PTL

-----------------------------------------------------------------------------
\* The tables.

\* The fields of the rows.
LEMMA RowFields ==
    ASSUME NEW x, NEW S
    PROVE  /\ Scored(x).itinerary = x
           /\ Ranked(x, S).itinerary = x
           /\ Ranked(x, S).by_score = RankByScore(x, S)
           /\ Ranked(x, S).by_price = RankByPrice(x, S)
  BY DEF Ranked, Scored

\* rank_itineraries numbers what it keeps 1, 2, ..., by the score.
LEMMA TopIsAnOrder ==
    ASSUME NEW S, S \subseteq Offered, top = RankItineraries(S)
    PROVE  RankingIsAnOrder
  <1>. DEFINE C == {x \in S : RankByScore(x, S) <= TopGlobal}
              f == [x \in C |-> Ranked(x, S)]
  <1>1. top = {Ranked(x, S) : x \in C}
    BY DEF RankItineraries
  <1>2. TopGlobal \in Nat
    BY SelectionAssumption
  <1>3. /\ IsFiniteSet(C) /\ {RankByScore(x, S) : x \in C} = 1..Cardinality(C)
        /\ C \subseteq S
    BY <1>2, ScoreRanks
  <1>. HIDE DEF C
  <1>4. f \in Bijection(C, top)
    <2>1. f \in Injection(C, top)
      BY <1>1, RowFields DEF Injection, IsInjective
    <2>2. f \in Surjection(C, top)
      BY <1>1 DEF Surjection
    <2>. QED
      BY <2>1, <2>2 DEF Bijection
  <1>. HIDE DEF f
  <1>5. Cardinality(top) = Cardinality(C)
    BY <1>3, <1>4, FS_Bijection DEF ExistsBijection
  <1>6. {e.by_score : e \in top} = {RankByScore(x, S) : x \in C}
    BY <1>1, RowFields
  <1>7. ASSUME NEW e \in top, NEW g \in top, e.by_price = g.by_price \/ e.by_score = g.by_score
        PROVE  e = g
    <2>1. PICK x \in C, y \in C : e = Ranked(x, S) /\ g = Ranked(y, S)
      BY <1>1
    <2>2. RankByPrice(x, S) = RankByPrice(y, S) \/ RankByScore(x, S) = RankByScore(y, S)
      BY <1>7, <2>1, RowFields
    <2>3. x = y
      BY <1>3, <2>1, <2>2, ScoreRanks, PriceRanks
    <2>. QED
      BY <2>1, <2>3
  <1>. QED
    BY <1>3, <1>5, <1>6, <1>7 DEF RankingIsAnOrder

\* The row of an origin is the first of its itineraries in the whole ranking.
LEMMA OriginRowIsFirst ==
    ASSUME NEW S, S \subseteq Offered, NEW o, NEW x \in From(o, S)
    PROVE  \E e \in BestOfOrigin(o, S) : RankByScore(e.itinerary, S) <= RankByScore(x, S)
  <1>1. From(o, S) \subseteq S /\ From(o, S) \subseteq Offered /\ From(o, S) # {}
    BY DEF From
  <1>2. PICK m \in From(o, S) : /\ RankByScore(m, From(o, S)) = 1
                                /\ m = x \/ Precedes(m, x)
    BY <1>1, FirstOfRanking
  <1>3. Scored(m) \in BestOfOrigin(o, S)
    BY <1>2 DEF BestOfOrigin
  <1>4. RankByScore(m, S) <= RankByScore(x, S)
    <2>1. RankByScore(m, S) \in Int /\ RankByScore(x, S) \in Int
      BY <1>1, ScoreRanks
    <2>. QED
      BY <1>1, <1>2, <2>1, ScoreRanks
  <1>. QED
    BY <1>3, <1>4, RowFields

\* A destination's table holds its first itineraries, as many as it may.
LEMMA TableIsACut ==
    ASSUME NEW S, S \subseteq Offered, NEW d, NEW x \in To(d, S)
    PROVE  \/ \E e \in TopOfDestination(d, S) : e.itinerary = x
           \/ Cardinality({e \in TopOfDestination(d, S) : Precedes(e.itinerary, x)})
                = TopPerDestination
  <1>. DEFINE T == To(d, S)
              k == TopPerDestination
              C == {y \in T : RankByScore(y, T) <= k}
              f == [y \in C |-> Scored(y)]
              B == {e \in TopOfDestination(d, S) : Precedes(e.itinerary, x)}
  <1>1. T \subseteq Offered /\ k \in Nat
    BY SelectionAssumption DEF To
  <1>2. TopOfDestination(d, S) = {Scored(y) : y \in C}
    BY DEF TopOfDestination
  <1>. HIDE DEF T, k
  <1>3. /\ IsFiniteSet(C)
        /\ Cardinality(C) = IF k <= Cardinality(T) THEN k ELSE Cardinality(T)
        /\ \A y \in T : RankByScore(y, T) \in 1..Cardinality(T)
        /\ \A y, z \in T : Precedes(y, z) <=> RankByScore(y, T) < RankByScore(z, T)
    BY <1>1, ScoreRanks
  <1>4. CASE x \in C
    BY <1>2, <1>4, RowFields
  <1>5. CASE x \notin C
    <2>1. x \in T /\ ~(RankByScore(x, T) <= k)
      BY <1>5 DEF T
    <2>2. RankByScore(x, T) \in 1..Cardinality(T)
      BY <1>3, <2>1
    <2>3. Cardinality(T) \in Int
      BY <1>1, ScoreRanks, FS_CardinalityType
    <2>4. Cardinality(C) = k
      BY <1>1, <1>3, <2>1, <2>2, <2>3
    <2>5. \A y \in C : Precedes(y, x)
      BY <1>1, <1>3, <2>1, <2>2
    <2>6. B = {Scored(y) : y \in C}
      BY <1>2, <2>5, RowFields
    <2>. HIDE DEF C, B
    <2>7. f \in Bijection(C, B)
      <3>1. f \in Injection(C, B)
        BY <2>6, RowFields DEF Injection, IsInjective
      <3>2. f \in Surjection(C, B)
        BY <2>6 DEF Surjection
      <3>. QED
        BY <3>1, <3>2 DEF Bijection
    <2>. HIDE DEF f
    <2>8. Cardinality(B) = k
      BY <1>3, <2>4, <2>7, FS_Bijection DEF ExistsBijection
    <2>. QED
      BY <2>8 DEF B, k
  <1>. QED
    BY <1>4, <1>5

\* The three tables are cuts of one order, for every cut, also of zero.
THEOREM TablesAreOneRanking == Spec => []TablesAgree
  <1>1. KInv => TablesAgree
    <2>. SUFFICES ASSUME KInv, stage = "done" PROVE TablesAgree
      BY DEF TablesAgree
    <2>1. /\ survivors = Survivors(Combined) /\ Combined \subseteq Offered
          /\ top = RankItineraries(survivors)
          /\ by_origin = [o \in Origins |-> IF \E i \in DOMAIN origins : origins[i] = o
                                            THEN BestOfOrigin(o, survivors) ELSE {}]
          /\ by_destination = [d \in Places |-> TopOfDestination(d, survivors)]
      BY CombinedIsOffered DEF KInv, Kept, Deduplicated
    <2>2. survivors \subseteq Combined /\ survivors \subseteq Offered
      BY <2>1 DEF Survivors
    <2>3. RankingIsAnOrder
      BY <2>1, <2>2, TopIsAnOrder
    <2>4. ASSUME NEW o \in Origins, NEW x \in From(o, survivors)
          PROVE  \E e \in by_origin[o] : RankByScore(e.itinerary, survivors)
                                           <= RankByScore(x, survivors)
      <3>1. x \in Combined /\ Flight[x.flight].origin = o
        BY <2>2 DEF From
      <3>2. PICK k \in DOMAIN valid : x \in valid[k]
        BY <3>1 DEF Combined
      <3>3. \E i \in DOMAIN planned : planned[i] = o
        BY <3>1, <3>2, TaskShape DEF KInv, FoundFits, Fits
      <3>4. \E i \in DOMAIN origins : origins[i] = o
        BY <3>3 DEF KInv, Kept
      <3>5. by_origin[o] = BestOfOrigin(o, survivors)
        BY <2>1, <3>4
      <3>. QED
        BY <2>2, <3>5, OriginRowIsFirst
    <2>5. ASSUME NEW d \in Places, NEW x \in To(d, survivors)
          PROVE  \/ \E e \in by_destination[d] : e.itinerary = x
                 \/ Cardinality({e \in by_destination[d] : Precedes(e.itinerary, x)})
                      = TopPerDestination
      <3>1. by_destination[d] = TopOfDestination(d, survivors)
        BY <2>1
      <3>. QED
        BY <2>2, <3>1, TableIsACut
    <2>. QED
      BY <2>3, <2>4, <2>5 DEF TablesAgree
  <1>. QED
    BY <1>1, KeptInvariance, PTL

-----------------------------------------------------------------------------
\* The report.

\* Making the documents does not disturb what they are made of: every run of
\* Report is one of Selection, whose theorems so hold of both artifacts.
THEOREM DocumentsOnlyRead == ReportSpec => Spec
  <1>1. ReportInit => Init
    BY DEF ReportInit
  <1>2. [ReportNext]_reportVars => [Next]_vars
    BY DEF ReportNext, Render, NothingToReport, BuildResults, reportVars
  <1>. QED
    BY <1>1, <1>2, PTL DEF ReportSpec, Spec

\* What the report was rendered from is what the run ended with.
RenderedFromTheEnd ==
    report.written =>
      /\ stage = "done" /\ top # {}
      /\ report.recommended = Recommended
      /\ report.direct_analysis = DirectRows
      /\ report.final_summary = UNION {SummaryOf(a) : a \in PrimaryAnalysis(Recommended)}

RInv == KInv /\ RenderedFromTheEnd

\* The report is made in the last state of the selection.
LEMMA RenderedInvariance == ReportSpec => []RInv
  <1>1. ReportInit => RInv
    BY TypeInit, KeptInit DEF ReportInit, RInv, KInv, Init, FoundFits, RenderedFromTheEnd,
                              NoDocument
  <1>2. RInv /\ [ReportNext]_reportVars => RInv'
    <2>. SUFFICES ASSUME RInv, [ReportNext]_reportVars PROVE RInv'
      OBVIOUS
    <2>1. [Next]_vars
      BY DEF ReportNext, Render, NothingToReport, BuildResults, reportVars
    <2>2. KInv'
      BY <2>1, TypeNext, FoundNext, KeptNext DEF RInv, KInv
    <2>3. CASE UNCHANGED <<vars, report>>
      <3>1. /\ UNCHANGED <<stage, top, report>> /\ DirectRows' = DirectRows
            /\ Recommended' = Recommended
            /\ (UNION {SummaryOf(a) : a \in PrimaryAnalysis(Recommended)})'
                  = UNION {SummaryOf(a) : a \in PrimaryAnalysis(Recommended)}
        BY <2>3 DEF vars, tables, DirectRows, DirectRow, Recommended, PrimaryAnalysis
      <3>. QED
        BY <2>2, <3>1 DEF RInv, RenderedFromTheEnd
    <2>4. CASE Next /\ UNCHANGED <<phase, report, results>>
      <3>1. stage # "done"
        BY <2>4 DEF Next, CollectTask, Collected, AnalyseDestination, Analysed, SkipOrigin,
             TriggerAtOrigin, PassOrigin, EndOfWalk, Walking, Replayed, Deduplicate, RankAndCut
      <3>. QED
        BY <2>2, <2>4, <3>1 DEF RInv, RenderedFromTheEnd
    <2>5. CASE Render /\ report' # report
      <3>1. /\ report' = Markdown /\ UNCHANGED <<stage, top>> /\ stage = "done" /\ top # {}
            /\ DirectRows' = DirectRows /\ Recommended' = Recommended
            /\ (UNION {SummaryOf(a) : a \in PrimaryAnalysis(Recommended)})'
                  = UNION {SummaryOf(a) : a \in PrimaryAnalysis(Recommended)}
        BY <2>5 DEF Render, vars, tables, DirectRows, DirectRow, Recommended, PrimaryAnalysis
      <3>2. /\ report'.recommended = Recommended
            /\ report'.direct_analysis = DirectRows
            /\ report'.final_summary = UNION {SummaryOf(a) : a \in PrimaryAnalysis(Recommended)}
        BY <3>1 DEF Markdown
      <3>. QED
        BY <2>2, <3>1, <3>2 DEF RInv, RenderedFromTheEnd
    <2>. QED
      BY <2>3, <2>4, <2>5 DEF ReportNext, Render, NothingToReport, BuildResults, reportVars
  <1>. QED
    BY <1>1, <1>2, PTL DEF ReportSpec

\* ranked[0] is the first of the ranking, and of all that was found.
LEMMA RecommendedIsFirst ==
    ASSUME KInv, stage = "done", top # {}
    PROVE  /\ Recommended \in survivors /\ Recommended \in Offered
           /\ \A y \in Combined : Recommended = y \/ Precedes(Recommended, y)
  <1>1. /\ survivors = Survivors(Combined) /\ Combined \subseteq Offered
        /\ top = RankItineraries(survivors)
    BY CombinedIsOffered DEF KInv, Kept, Deduplicated
  <1>2. survivors \subseteq Offered
    BY <1>1 DEF Survivors
  <1>3. top = {Ranked(x, survivors) : x \in {y \in survivors :
                                               RankByScore(y, survivors) <= TopGlobal}}
    BY <1>1 DEF RankItineraries
  <1>4. PICK x \in survivors : RankByScore(x, survivors) <= TopGlobal
    BY <1>3
  <1>5. PICK m \in survivors : /\ RankByScore(m, survivors) = 1
                               /\ \A y \in survivors : m = y \/ Precedes(m, y)
    BY <1>2, <1>4, FirstOfRanking
  <1>6. 1 <= TopGlobal
    <2>1. RankByScore(x, survivors) \in 1..Cardinality(survivors) /\ TopGlobal \in Nat
      BY <1>2, <1>4, ScoreRanks, SelectionAssumption
    <2>. QED
      BY <1>4, <2>1
  <1>7. Ranked(m, survivors) \in top /\ Ranked(m, survivors).by_score = 1
    BY <1>3, <1>5, <1>6, RowFields
  <1>8. PICK e \in top : e.by_score = 1 /\ Recommended = e.itinerary
    BY <1>7 DEF Recommended
  <1>9. Recommended = m
    <2>1. PICK y \in survivors : e = Ranked(y, survivors)
      BY <1>3, <1>8
    <2>2. RankByScore(y, survivors) = 1 /\ Recommended = y
      BY <1>8, <2>1, RowFields
    <2>. QED
      BY <1>2, <1>5, <2>2, ScoreRanks
  <1>10. ASSUME NEW y \in Combined PROVE m = y \/ Precedes(m, y)
    <2>1. PICK s \in survivors : s.flight = y.flight /\ (s = y \/ Cheaper(s, y))
      BY <1>1, OneSurvives
    <2>2. s = y \/ Precedes(s, y)
      BY <1>1, <1>2, <2>1, OneFlightOneOrder
    <2>3. m = s \/ Precedes(m, s)
      BY <1>5
    <2>. QED
      BY <1>1, <1>2, <2>2, <2>3, PrecedesOrders
  <1>. QED
    BY <1>2, <1>5, <1>9, <1>10

\* What comes first does not score more, and where it scores the same it does not
\* cost more.
LEMMA FirstScoresLeast ==
    ASSUME NEW x \in Offered, NEW y \in Offered, x = y \/ Precedes(x, y)
    PROVE  /\ AdjustedScore(x) <= AdjustedScore(y)
           /\ AdjustedScore(x) = AdjustedScore(y) => x.price <= y.price
  <1>1. /\ AdjustedScore(x) \in Int /\ AdjustedScore(y) \in Int
        /\ x.price \in Int /\ y.price \in Int
    BY KeyTypes
  <1>2. CASE x = y
    BY <1>1, <1>2
  <1>3. CASE Precedes(x, y)
    BY <1>1, <1>3, PrecedesTerms
  <1>. QED
    BY <1>2, <1>3

\* The analysis of the destination of the recommended flight, wherever in the
\* registry the code finds it.
LEMMA PrimaryRow ==
    ASSUME KInv, stage = "done", NEW r \in Offered
    PROVE  LET d == Flight[r.flight].destination
               row == CHOOSE n \in DOMAIN Destinations : Destinations[n] = d
               a == Analysis(Cheapest(DirectPool(d)), Cheapest(OneStopPool(d)))
           IN  /\ row \in DOMAIN analyses /\ analyses[row] = a
               /\ PrimaryAnalysis(r) = {a}
  <1>. DEFINE d == Flight[r.flight].destination
              row == CHOOSE n \in DOMAIN Destinations : Destinations[n] = d
              a == Analysis(Cheapest(DirectPool(d)), Cheapest(OneStopPool(d)))
  <1>1. d \in Places
    BY KeyTypes
  <1>2. DOMAIN analyses = DOMAIN Destinations
    <2>1. Len(analyses) = Len(Destinations)
      BY DEF KInv, Kept
    <2>2. DOMAIN analyses = 1..Len(analyses)
      BY DEF KInv, TypeOK
    <2>3. DOMAIN Destinations = 1..Len(Destinations)
      BY SelectionAssumption
    <2>. QED
      BY <2>1, <2>2, <2>3
  <1>3. \A n \in DOMAIN analyses : Destinations[n] = d => analyses[n] = a
    BY DEF KInv, Kept, AnalysisOf
  <1>4. \E n \in DOMAIN Destinations : Destinations[n] = d
    BY <1>1 DEF Places
  <1>5. row \in DOMAIN Destinations /\ Destinations[row] = d
    BY <1>4
  <1>. HIDE DEF d, row, a
  <1>6. row \in DOMAIN analyses /\ analyses[row] = a
    BY <1>2, <1>3, <1>5
  <1>7. PrimaryAnalysis(r) = {a}
    BY <1>3, <1>5, <1>6 DEF PrimaryAnalysis, d
  <1>. QED
    BY <1>6, <1>7 DEF d, row, a

\* A tier never speaks against a direct flight that costs no more.
LEMMA NoDearerIsFavoured ==
    ASSUME NEW diff \in Int, diff <= 0, NEW base
    PROVE  FavoursDirect(DirectTier(diff, base))
  <1>1. RecommendedDiff \in Nat
    BY SelectionAssumption
  <1>2. diff <= RecommendedDiff
    BY <1>1
  <1>3. DirectTier(diff, base) = "RECOMMENDED"
    BY <1>2 DEF DirectTier
  <1>. QED
    BY <1>3 DEF FavoursDirect

\* Where the summary of a destination's analysis recommends the kind of flight
\* that the first of all is not, the scores disagree with the tier.
LEMMA SummaryOrNote ==
    ASSUME TypeOK, FoundFits, NEW r \in Offered, NEW d,
           \A y \in Combined : r = y \/ Precedes(r, y),
           NEW a, a = Analysis(Cheapest(DirectPool(d)), Cheapest(OneStopPool(d))),
           NEW s \in SummaryOf(a), s.recommends # Kind(r), r \in a.direct \cup a.stop
    PROVE  a.divergence
  <1>1. /\ OneStopPool(d) = {x \in To(d, Combined) : Stops(x) = 1}
        /\ DirectPool(d) \subseteq {x \in To(d, Combined) : Stops(x) = 0}
        /\ DirectPool(d) \subseteq Offered /\ OneStopPool(d) \subseteq Offered
    BY PoolIsFound
  <1>2. /\ a.direct = Cheapest(DirectPool(d)) /\ a.stop = Cheapest(OneStopPool(d))
        /\ \A v \in a.direct, w \in a.stop :
             /\ a.tier = DirectTier(v.price - w.price, w.price)
             /\ a.divergence = (FavoursDirect(a.tier) # (AdjustedScore(v) < AdjustedScore(w)))
    BY <1>1, AnalysisQuotes
  <1>3. s.recommends = IF FavoursDirect(a.tier) THEN "direct" ELSE "stop"
    BY DEF SummaryOf
  <1>4. PICK v \in a.direct, w \in a.stop : TRUE
    <2>1. \E diff \in Difference(a) : TRUE
      BY DEF SummaryOf
    <2>. QED
      BY <2>1 DEF Difference
  <1>5. a.direct = {v} /\ a.stop = {w}
    <2>1. v \in Cheapest(DirectPool(d)) /\ w \in Cheapest(OneStopPool(d))
      BY <1>2, <1>4
    <2>2. Cheapest(DirectPool(d)) = {v}
      BY <1>1, <2>1, CheapestIsOne
    <2>3. Cheapest(OneStopPool(d)) = {w}
      BY <1>1, <2>1, CheapestIsOne
    <2>. QED
      BY <1>2, <2>2, <2>3
  <1>6. /\ v \in Combined /\ v \in Offered /\ Stops(v) = 0
        /\ w \in Combined /\ w \in Offered /\ Stops(w) = 1
    BY <1>1, <1>2, <1>4 DEF Cheapest, To
  <1>7. /\ AdjustedScore(v) \in Int /\ AdjustedScore(w) \in Int
        /\ v.price \in Int /\ w.price \in Int
    BY <1>6, KeyTypes
  <1>8. FavoursDirect(a.tier) \in BOOLEAN
    BY DEF FavoursDirect
  <1>9. a.divergence = (FavoursDirect(a.tier) # (AdjustedScore(v) < AdjustedScore(w)))
    BY <1>2, <1>4
  <1>10. CASE r = v
    <2>1. ~FavoursDirect(a.tier)
      BY <1>3, <1>6, <1>10 DEF Kind
    <2>2. /\ AdjustedScore(v) <= AdjustedScore(w)
          /\ AdjustedScore(v) = AdjustedScore(w) => v.price <= w.price
      BY <1>6, <1>10, FirstScoresLeast
    <2>3. ~(v.price <= w.price)
      <3>1. a.tier = DirectTier(v.price - w.price, w.price)
        BY <1>2, <1>4
      <3>2. v.price <= w.price => v.price - w.price \in Int /\ v.price - w.price <= 0
        BY <1>7
      <3>. QED
        BY <2>1, <3>1, <3>2, NoDearerIsFavoured
    <2>4. AdjustedScore(v) < AdjustedScore(w)
      BY <1>7, <2>2, <2>3
    <2>. QED
      BY <1>8, <1>9, <2>1, <2>4
  <1>11. CASE r = w
    <2>1. FavoursDirect(a.tier)
      BY <1>3, <1>6, <1>11 DEF Kind
    <2>2. AdjustedScore(w) <= AdjustedScore(v)
      BY <1>6, <1>11, FirstScoresLeast
    <2>3. ~(AdjustedScore(v) < AdjustedScore(w))
      BY <1>7, <2>2
    <2>. QED
      BY <1>8, <1>9, <2>1, <2>3
  <1>. QED
    BY <1>5, <1>10, <1>11

\* Only a destination of which one kind was not found has no summary.
LEMMA NoSummaryOneKind ==
    ASSUME TypeOK, FoundFits, NEW d, NEW a,
           a = Analysis(Cheapest(DirectPool(d)), Cheapest(OneStopPool(d))),
           SummaryOf(a) = {}
    PROVE  DirectPool(d) = {} \/ \A x \in To(d, Combined) : Stops(x) = 0
  <1>1. /\ OneStopPool(d) = {x \in To(d, Combined) : Stops(x) = 1}
        /\ DirectPool(d) \subseteq Offered /\ OneStopPool(d) \subseteq Offered
    BY PoolIsFound
  <1>2. a.direct = Cheapest(DirectPool(d)) /\ a.stop = Cheapest(OneStopPool(d))
    BY <1>1, AnalysisQuotes
  <1>3. a.direct = {} \/ a.stop = {}
    <2>. SUFFICES ASSUME NEW v \in a.direct, NEW w \in a.stop PROVE FALSE
      OBVIOUS
    <2>1. v.price - w.price \in Difference(a)
      BY DEF Difference
    <2>2. \A diff \in Difference(a) : \E s : s \in SummaryOf(a)
      BY DEF SummaryOf
    <2>. QED
      BY <2>1, <2>2
  <1>4. DirectPool(d) = {} \/ OneStopPool(d) = {}
    BY <1>1, <1>2, <1>3, CheapestOfPool
  <1>5. \A x \in To(d, Combined) : Stops(x) \in {0, 1}
    BY CombinedIsOffered, KeyTypes DEF To, Stops
  <1>. QED
    BY <1>1, <1>4, <1>5

\* For all fares, times, bonuses and steps of the ladder: the report does not
\* recommend, under "Final Recommendation", the other kind of flight than the one
\* it recommends on top, without the note that the scores disagree.
THEOREM SummariesFit == ReportSpec => []SummaryFitsTheRanking
  <1>1. RInv => SummaryFitsTheRanking
    <2>. DEFINE r == report.recommended
                d == Flight[r.flight].destination
                row == CHOOSE n \in DOMAIN Destinations : Destinations[n] = d
                a == Analysis(Cheapest(DirectPool(d)), Cheapest(OneStopPool(d)))
    <2>. SUFFICES ASSUME RInv, report.written
                  PROVE  /\ \A s \in report.final_summary :
                              s.recommends # Kind(r) =>
                                \/ report.direct_analysis[row].note
                                \/ r \notin analyses[row].direct \cup analyses[row].stop
                         /\ report.final_summary = {} =>
                              DirectPool(d) = {} \/ \A x \in To(d, survivors) : Stops(x) = 0
      BY DEF SummaryFitsTheRanking
    <2>1. /\ KInv /\ stage = "done" /\ top # {} /\ TypeOK /\ FoundFits
          /\ r = Recommended /\ report.direct_analysis = DirectRows
          /\ report.final_summary = UNION {SummaryOf(b) : b \in PrimaryAnalysis(r)}
      BY DEF RInv, RenderedFromTheEnd, KInv
    <2>2. r \in Offered /\ \A y \in Combined : r = y \/ Precedes(r, y)
      BY <2>1, RecommendedIsFirst
    <2>3. row \in DOMAIN analyses /\ analyses[row] = a /\ PrimaryAnalysis(r) = {a}
      BY <2>1, <2>2, PrimaryRow
    <2>4. survivors \subseteq Combined
      BY <2>1 DEF KInv, Kept, Deduplicated, Survivors
    <2>. HIDE DEF r, d, row, a
    <2>5. report.final_summary = SummaryOf(a)
      BY <2>1, <2>3
    <2>6. report.direct_analysis[row].note = a.divergence
      BY <2>1, <2>3 DEF DirectRows, DirectRow
    <2>7. ASSUME NEW s \in report.final_summary, s.recommends # Kind(r),
                 r \in analyses[row].direct \cup analyses[row].stop
          PROVE  report.direct_analysis[row].note
      <3>1. a = Analysis(Cheapest(DirectPool(d)), Cheapest(OneStopPool(d)))
        BY DEF a
      <3>2. a.divergence
        BY <2>1, <2>2, <2>3, <2>5, <2>7, <3>1, SummaryOrNote
      <3>. QED
        BY <2>6, <3>2
    <2>8. ASSUME report.final_summary = {}
          PROVE  DirectPool(d) = {} \/ \A x \in To(d, survivors) : Stops(x) = 0
      <3>1. a = Analysis(Cheapest(DirectPool(d)), Cheapest(OneStopPool(d)))
        BY DEF a
      <3>2. DirectPool(d) = {} \/ \A x \in To(d, Combined) : Stops(x) = 0
        BY <2>1, <2>5, <2>8, <3>1, NoSummaryOneKind
      <3>. QED
        BY <2>4, <3>2 DEF To
    <2>. QED
      BY <2>7, <2>8
  <1>. QED
    BY <1>1, RenderedInvariance, PTL

\* Only an empty cut makes the documents raise.
RaisedForAnEmptyCut ==
    /\ phase # "pending" => stage = "done"
    /\ phase = "raised" => top = {}

\* The ranking never shows more than was accepted.
LEMMA TopIsAccepted ==
    ASSUME KInv, stage = "done"
    PROVE  ~(Cardinality(survivors) < Cardinality(top))
  <1>. DEFINE C == {x \in survivors : RankByScore(x, survivors) <= TopGlobal}
              f == [x \in C |-> Ranked(x, survivors)]
  <1>1. /\ survivors = Survivors(Combined) /\ Combined \subseteq Offered
        /\ top = RankItineraries(survivors)
    BY CombinedIsOffered DEF KInv, Kept, Deduplicated
  <1>2. survivors \subseteq Offered
    BY <1>1 DEF Survivors
  <1>3. top = {Ranked(x, survivors) : x \in C} /\ C \in SUBSET survivors
    BY <1>1 DEF RankItineraries
  <1>4. IsFiniteSet(survivors)
    BY <1>2, ScoreRanks
  <1>. HIDE DEF C
  <1>5. /\ IsFiniteSet(C) /\ Cardinality(C) <= Cardinality(survivors)
    BY <1>3, <1>4, FS_Subset
  <1>6. f \in Surjection(C, top)
    BY <1>3 DEF Surjection
  <1>. HIDE DEF f
  <1>7. IsFiniteSet(top) /\ Cardinality(top) <= Cardinality(C)
    BY <1>5, <1>6, FS_Surjection
  <1>8. /\ Cardinality(top) \in Nat /\ Cardinality(C) \in Nat
        /\ Cardinality(survivors) \in Nat
    BY <1>4, <1>5, <1>7, FS_CardinalityType
  <1>. QED
    BY <1>5, <1>7, <1>8

\* build_results_document refuses an accepted_count below the number of ranked
\* itineraries; the pipeline never gives it one: a run that found something and
\* whose cut is not empty writes both artifacts or is still writing them.
THEOREM DocumentsAreNeverRefused == ReportSpec => []RaisedForAnEmptyCut
  <1>1. ReportInit => RaisedForAnEmptyCut
    BY DEF ReportInit, RaisedForAnEmptyCut
  <1>2. RInv /\ RaisedForAnEmptyCut /\ [ReportNext]_reportVars => RaisedForAnEmptyCut'
    <2>. SUFFICES ASSUME RInv, RaisedForAnEmptyCut, [ReportNext]_reportVars
                  PROVE  RaisedForAnEmptyCut'
      OBVIOUS
    <2>1. CASE Next /\ UNCHANGED <<phase, report, results>>
      <3>1. stage # "done"
        BY <2>1 DEF Next, CollectTask, Collected, AnalyseDestination, Analysed, SkipOrigin,
             TriggerAtOrigin, PassOrigin, EndOfWalk, Walking, Replayed, Deduplicate, RankAndCut
      <3>. QED
        BY <2>1, <3>1 DEF RaisedForAnEmptyCut
    <2>2. CASE Render
      BY <2>2 DEF Render, RaisedForAnEmptyCut, vars, tables
    <2>3. CASE NothingToReport
      BY <2>3 DEF NothingToReport, RaisedForAnEmptyCut, vars, tables
    <2>4. CASE BuildResults
      <3>1. ~(Cardinality(survivors) < Cardinality(top))
        BY <2>4, TopIsAccepted DEF BuildResults, RaisedForAnEmptyCut, RInv
      <3>. QED
        BY <2>4, <3>1 DEF BuildResults, RaisedForAnEmptyCut, vars, tables
    <2>5. CASE UNCHANGED reportVars
      BY <2>5 DEF reportVars, vars, tables, RaisedForAnEmptyCut
    <2>. QED
      BY <2>1, <2>2, <2>3, <2>4, <2>5 DEF ReportNext
  <1>. QED
    BY <1>1, <1>2, RenderedInvariance, PTL DEF ReportSpec
=============================================================================
