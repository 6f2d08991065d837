---------------------------- MODULE CliRunProofs ----------------------------
(***************************************************************************)
(* Theorems about RunStatus and CliRun for every number of tasks and       *)
(* offers and every set of rejection codes.                                *)
(***************************************************************************)
EXTENDS CliRun, FiniteSetTheorems, TLAPS

\* The two definitions of a run's status agree: whatever the tasks of a run
\* ended in, RunEnvelope accepts the status _compute_run_status gives it.
THEOREM StatusFitsEnvelope ==
    ASSUME NEW ledger0, DOMAIN ledger0 # {},
           \A t \in DOMAIN ledger0 : ledger0[t].state \in TaskStates
    PROVE  EnvelopeAccepts(StatusOf(ledger0), ledger0)
  <1>1. CASE AnyAccepted(ledger0)
    BY <1>1 DEF StatusOf, EnvelopeAccepts
  <1>2. CASE ~AnyAccepted(ledger0) /\ AllErrored(ledger0)
    BY <1>2 DEF StatusOf, EnvelopeAccepts
  <1>3. CASE ~AnyAccepted(ledger0) /\ ~AllErrored(ledger0)
    <2>1. \E t \in DOMAIN ledger0 : ledger0[t].state \in AnsweredStates
      BY <1>3 DEF AllErrored, TaskStates
    <2>. QED
      BY <1>3, <2>1 DEF StatusOf, EnvelopeAccepts
  <1>. QED
    BY <1>1, <1>2, <1>3

-----------------------------------------------------------------------------
\* What finalizing an answer keeps of it.

\* The number of accepted offers is one, and positive where an offer has no code.
LEMMA AcceptedCounts ==
    ASSUME NEW a \in Answers
    PROVE  /\ Accepted(a.offers) \in Nat
           /\ Accepted(a.offers) >= 1 <=> \E i \in DOMAIN a.offers : a.offers[i] = {}
  <1>. DEFINE Valid == {i \in DOMAIN a.offers : a.offers[i] = {}}
  <1>1. PICK n \in Nat : DOMAIN a.offers = 1..n
    <2>1. a.offers \in Offers \cup {<<>>}
      BY DEF Answers
    <2>2. a.offers = <<>> => DOMAIN a.offers = 1..0
      OBVIOUS
    <2>3. a.offers \in Offers => \E n \in Nat : DOMAIN a.offers = 1..n
      BY CliRunAssumption DEF Offers
    <2>. QED
      BY <2>1, <2>2, <2>3
  <1>2. IsFiniteSet(Valid)
    BY <1>1, FS_Interval, FS_Subset
  <1>3. Cardinality(Valid) \in Nat /\ (Cardinality(Valid) = 0 <=> Valid = {})
    BY <1>2, FS_CardinalityType, FS_EmptySet
  <1>. QED
    BY <1>3 DEF Accepted

\* The status _compute_run_status chooses is one that _finalize_run may store.
LEMMA FinalizeKeeps ==
    ASSUME NEW a \in Answers
    PROVE  /\ Finalize(a).state \in TaskStates
           /\ Finalize(a).state \in ErrorStates <=> a.state \in ErrorStates
           /\ Finalize(a).accepted >= 1 <=> \E i \in DOMAIN a.offers : a.offers[i] = {}
  <1>1. a.state \in ErrorStates \cup {"OK", "NO_OFFERS"}
    BY DEF Answers
  <1>. QED
    BY <1>1, AcceptedCounts
       DEF Finalize, FinalState, TaskStates, ErrorStates, AnsweredStates

\* The ledger holds the finalized outcomes of the first tasks of the plan, the
\* search answers every task, and only a run with something valid gets to write.
LedgerSound ==
    /\ answers \in Seq(Answers)
    /\ ledger \in Seq({Finalize(a) : a \in Answers})
    /\ Len(ledger) <= Len(answers)
    /\ \A t \in 1..Len(ledger) : ledger[t] = Finalize(answers[t])
    /\ stage = "searching" => answers = <<>> /\ ledger = <<>>
    /\ plan \in Seq(Origins)
    /\ stage \in {"finalizing", "enveloped"} => Len(answers) = Len(plan)
    /\ stage = "enveloped" => /\ mode = "all"
                              /\ Len(ledger) = Len(answers)
                              /\ status = StatusOf(ledger)
    /\ mode = "single" => Len(plan) = 1
    /\ mode = "single" /\ Len(answers) = 1 => answers[1].state \notin ErrorStates
    /\ stage = "writing" => SomeValid
    /\ stage \in {"searching", "finalizing", "enveloped"} => written = 0 /\ raised = "no"
    /\ stage = "writing" => raised = "no"
    /\ written \in Nat
    /\ mode \in {"all", "single"}

CliInv == LedgerSound /\ EnvelopeNeverRefuses /\ ExitTellsTruth

\* What the finalized ledger says of the answers.
LEMMA LedgerReflects ==
    ASSUME LedgerSound, Finalized \/ stage = "enveloped"
    PROVE  /\ plan # <<>> => EnvelopeAccepts(StatusOf(ledger), ledger)
           /\ AnyAccepted(ledger) <=> SomeValid
           /\ AllErrored(ledger) <=> ~ProviderAnswered
  <1>1. /\ Len(ledger) = Len(answers) /\ Len(answers) \in Nat /\ Len(answers) = Len(plan)
        /\ DOMAIN ledger = 1..Len(answers) /\ DOMAIN answers = 1..Len(answers)
    BY DEF LedgerSound, Finalized
  <1>2. \A t \in 1..Len(answers) :
          /\ answers[t] \in Answers
          /\ ledger[t] = Finalize(answers[t])
    BY <1>1 DEF LedgerSound
  <1>3. \A t \in 1..Len(answers) :
          /\ ledger[t].state \in TaskStates
          /\ ledger[t].state \in ErrorStates <=> answers[t].state \in ErrorStates
          /\ ledger[t].accepted >= 1 <=>
               \E i \in DOMAIN answers[t].offers : answers[t].offers[i] = {}
    BY <1>2, FinalizeKeeps
  <1>4. plan # <<>> => 1 \in DOMAIN ledger
    BY <1>1 DEF LedgerSound
  <1>5. plan # <<>> => EnvelopeAccepts(StatusOf(ledger), ledger)
    BY <1>1, <1>3, <1>4, StatusFitsEnvelope
  <1>6. AnyAccepted(ledger) <=> SomeValid
    BY <1>1, <1>3 DEF AnyAccepted, SomeValid, ValidIn
  <1>7. AllErrored(ledger) <=> ~ProviderAnswered
    BY <1>1, <1>3 DEF AllErrored, ProviderAnswered
  <1>. QED
    BY <1>5, <1>6, <1>7

\* Every stage of cmd_run keeps the invariant.
LEMMA CliStep ==
    ASSUME CliInv, [Next]_vars
    PROVE  CliInv'
  <1>. USE DEF CliInv
  <1>1. LedgerSound /\ EnvelopeNeverRefuses /\ ExitTellsTruth
    OBVIOUS
  <1>2. CASE SearchReturns
    <2>1. plan \in Seq(Origins) /\ Len(plan) \in Nat /\ DOMAIN plan = 1..Len(plan)
      BY <1>1 DEF LedgerSound
    <2>2. answers' \in Seq(Answers) /\ Len(answers') = Len(plan)
      BY <1>2, <2>1 DEF SearchReturns
    <2>3. ledger' = ledger /\ ledger = <<>> /\ Len(ledger) = 0
      BY <1>2, <1>1 DEF SearchReturns, LedgerSound
    <2>. QED
      BY <1>1, <1>2, <2>1, <2>2, <2>3
         DEF SearchReturns, LedgerSound, EnvelopeNeverRefuses, ExitTellsTruth
  <1>3. ASSUME SearchRaises \/ ProviderRaises \/ BadOffer \/ WriteFails
        PROVE  CliInv'
    <2>1. PICK where \in {"search", "provider", "offer", "write"} : Raise(where)
      BY <1>3 DEF SearchRaises, ProviderRaises, BadOffer, WriteFails
    <2>2. LedgerSound'
      BY <1>1, <2>1 DEF Raise, LedgerSound
    <2>. QED
      BY <2>1, <2>2 DEF Raise, EnvelopeNeverRefuses, ExitTellsTruth
  <1>4. CASE FinalizeTask
    BY <1>1, <1>4 DEF FinalizeTask, LedgerSound, EnvelopeNeverRefuses, ExitTellsTruth
  <1>5. CASE Report
    <2>1. SomeValid
      BY <1>1, <1>5, LedgerReflects DEF Report, Decided, LedgerSound, StatusOf
    <2>. QED
      BY <1>1, <1>5, <2>1
         DEF Report, Decided, Finalized, LedgerSound, EnvelopeNeverRefuses, ExitTellsTruth,
             SomeValid, ValidIn
  <1>6. CASE Envelop
    <2>1. plan # <<>> => EnvelopeAccepts(StatusOf(ledger), ledger)
      BY <1>1, <1>6, LedgerReflects DEF Envelop
    <2>2. LedgerSound'
      BY <1>1, <1>6, <2>1 DEF Envelop, Raise, Finalized, LedgerSound
    <2>3. stage = "finalizing" /\ raised = "no" /\ plan' = plan
      BY <1>1, <1>6 DEF Envelop, Raise, Finalized, LedgerSound
    <2>. QED
      BY <1>1, <1>6, <2>1, <2>2, <2>3
         DEF Envelop, Raise, Finalized, EnvelopeNeverRefuses, ExitTellsTruth
  <1>7. CASE Failed
    <2>1. LedgerSound'
      BY <1>1, <1>7 DEF Failed, ExitWith, LedgerSound, Finalized
    <2>2. ~ProviderAnswered /\ written = 0
      BY <1>1, <1>7, LedgerReflects DEF Failed, StatusOf, LedgerSound
    <2>. QED
      BY <1>1, <1>7, <2>1, <2>2
         DEF Failed, ExitWith, EnvelopeNeverRefuses, ExitTellsTruth, ProviderAnswered
  <1>8. CASE NoResults
    <2>1. LedgerSound'
      BY <1>1, <1>8 DEF NoResults, Decided, ExitWith, LedgerSound, Finalized
    <2>2. stage \in {"finalizing", "enveloped"} /\ (Finalized \/ stage = "enveloped")
      BY <1>8 DEF NoResults, Decided, Finalized
    <2>3. ~SomeValid /\ written = 0 /\ raised = "no"
      BY <1>1, <1>8, <2>2, LedgerReflects DEF NoResults, Decided, LedgerSound, StatusOf
    <2>4. ProviderAnswered
      <3>1. CASE mode = "all"
        BY <1>1, <1>8, <2>2, <3>1, LedgerReflects DEF NoResults, Decided, LedgerSound, StatusOf
      <3>2. CASE mode # "all"
        <4>1. 1 \in DOMAIN answers /\ answers[1].state \notin ErrorStates
          BY <1>1, <1>8, <3>2 DEF NoResults, Decided, Finalized, LedgerSound
        <4>. QED
          BY <4>1 DEF ProviderAnswered
      <3>. QED
        BY <3>1, <3>2
    <2>. QED
      BY <1>1, <1>8, <2>1, <2>3, <2>4
         DEF NoResults, ExitWith, EnvelopeNeverRefuses, ExitTellsTruth, ProviderAnswered,
             SomeValid, ValidIn
  <1>9. CASE WriteFile
    BY <1>1, <1>9 DEF WriteFile, LedgerSound, EnvelopeNeverRefuses, ExitTellsTruth,
                      SomeValid, ValidIn
  <1>10. CASE Succeed
    BY <1>1, <1>10 DEF Succeed, ExitWith, LedgerSound, EnvelopeNeverRefuses,
                       ExitTellsTruth, SomeValid, ValidIn
  <1>11. CASE UNCHANGED vars
    BY <1>1, <1>11 DEF vars, LedgerSound, EnvelopeNeverRefuses, ExitTellsTruth,
                       ProviderAnswered, SomeValid, ValidIn
  <1>. QED
    BY <1>2, <1>3, <1>4, <1>5, <1>6, <1>7, <1>8, <1>9, <1>10, <1>11 DEF Next

\* CliInv, from which the exit-code theorems follow, holds in every reachable state.
THEOREM CliInvariance == Spec => []CliInv
  <1>1. ASSUME Init PROVE CliInv
    <2>1. plan \in Seq(Origins) /\ (mode = "single" => Len(plan) = 1) /\ mode \in {"all", "single"}
      <3>1. Plans \subseteq Seq(Origins)
        BY CliRunAssumption
      <3>2. CASE mode = "all" /\ plan \in Plans
        BY <3>1, <3>2
      <3>3. CASE mode = "single" /\ \E o \in Origins : plan = <<o>>
        <4>1. PICK o \in Origins : plan = <<o>>
          BY <3>3
        <4>. QED
          BY <3>3, <4>1
      <3>. QED
        BY <1>1, <3>2, <3>3 DEF Init
    <2>2. answers \in Seq(Answers) /\ ledger \in Seq({Finalize(a) : a \in Answers})
      BY <1>1 DEF Init
    <2>3. Len(ledger) = 0 /\ Len(answers) = 0
      BY <1>1 DEF Init
    <2>. QED
      BY <1>1, <2>1, <2>2, <2>3
         DEF Init, CliInv, LedgerSound, EnvelopeNeverRefuses, ExitTellsTruth
  <1>. QED
    BY <1>1, CliStep, PTL DEF Spec

\* No run whose plan has a task dies of its own status: RunEnvelope accepts it.
THEOREM EnvelopeIsAccepted == Spec => []EnvelopeNeverRefuses
  <1>1. CliInv => EnvelopeNeverRefuses
    BY DEF CliInv
  <1>. QED
    BY <1>1, CliInvariance, PTL

\* What the exit code of a run without a traceback says of the search and of
\* the files is so.
THEOREM ExitCodesAreTrue == Spec => []ExitTellsTruth
  <1>1. CliInv => ExitTellsTruth
    BY DEF CliInv
  <1>. QED
    BY <1>1, CliInvariance, PTL
-----------------------------------------------------------------------------
(* Sums and the most frequent code *)

\* Induction over a finite set: of a set of bad subsets there is one that no
\* longer is bad when any element is taken out.
LEMMA MinimalSubset ==
    ASSUME NEW S, IsFiniteSet(S), NEW Bad, Bad \subseteq SUBSET S, Bad # {}
    PROVE  \E U \in Bad : \A a \in U : U \ {a} \notin Bad
  <1>1. IsWellFoundedOn(StrictSubsetOrdering(S), FiniteSubsetsOf(S))
    BY FS_StrictSubsetOrderingWellFounded
  <1>2. Bad \subseteq FiniteSubsetsOf(S)
    BY FS_FiniteSubsetsOfFinite
  <1>3. PICK U \in Bad : \A V \in Bad : <<V, U>> \notin StrictSubsetOrdering(S)
    BY <1>1, <1>2, WFMin
  <1>4. ASSUME NEW a \in U, U \ {a} \in Bad
        PROVE  <<U \ {a}, U>> \in StrictSubsetOrdering(S)
    <2>. DEFINE V == U \ {a}
    <2>1. V \in SUBSET S /\ U \in SUBSET S /\ V \subseteq U /\ V # U
      BY <1>4
    <2>. HIDE DEF V
    <2>2. <<V, U>> \in StrictSubsetOrdering(S)
      BY <2>1 DEF StrictSubsetOrdering
    <2>. QED
      BY <2>2 DEF V
  <1>. QED
    BY <1>3, <1>4

\* A finite set under a total order has a first element: what sorted()[0] and
\* min() rest on.  R is the order, as a set of pairs.
LEMMA FirstExists ==
    ASSUME NEW S, IsFiniteSet(S), S # {}, NEW R,
           \A x, y \in S : x = y \/ <<x, y>> \in R \/ <<y, x>> \in R,
           \A x, y, z \in S : <<x, y>> \in R /\ <<y, z>> \in R => <<x, z>> \in R
    PROVE  \E x \in S : \A y \in S \ {x} : <<x, y>> \in R
  <1>. DEFINE HasFirst(U) == \E x \in U : \A y \in U \ {x} : <<x, y>> \in R
              Bad == {U \in SUBSET S : U # {} /\ ~HasFirst(U)}
  <1>1. SUFFICES ASSUME Bad # {} PROVE FALSE
    BY DEF HasFirst
  <1>2. PICK U \in Bad : \A a \in U : U \ {a} \notin Bad
    <2>1. Bad \subseteq SUBSET S
      OBVIOUS
    <2>. HIDE DEF Bad
    <2>. QED
      BY <1>1, <2>1, MinimalSubset
  <1>3. PICK a \in U : TRUE
    OBVIOUS
  <1>. DEFINE V == U \ {a}
  <1>4. V \in SUBSET S /\ V \notin Bad
    BY <1>2, <1>3
  <1>5. CASE V = {}
    BY <1>3, <1>5
  <1>6. CASE V # {}
    <2>1. PICK m \in V : \A y \in V \ {m} : <<m, y>> \in R
      BY <1>4, <1>6
    <2>2. CASE <<m, a>> \in R
      BY <2>1, <2>2
    <2>3. CASE <<a, m>> \in R
      <3>1. \A y \in U \ {a} : y = m \/ <<m, y>> \in R
        BY <2>1
      <3>2. \A y \in U \ {a} : <<a, y>> \in R
        BY <2>1, <2>3, <3>1
      <3>. QED
        BY <1>3, <3>2
    <2>. QED
      BY <1>3, <2>1, <2>2, <2>3
  <1>. QED
    BY <1>5, <1>6

\* The element of a set that the sum takes next.
Pick(s) == CHOOSE x \in s : TRUE

\* The equations of the sum over the subsets of T.
SumsUp(g, c, T) ==
    /\ g \in [SUBSET T -> Nat]
    /\ g[{}] = 0
    /\ \A s \in SUBSET T : s # {} =>
         g[s] = ledger[Pick(s)].rejections[c] + g[s \ {Pick(s)}]

\* What satisfies them is the sum.
LEMMA TotalIs ==
    ASSUME NEW c, NEW T, IsFiniteSet(T), NEW g, SumsUp(g, c, T)
    PROVE  Total(c, T) = g[T]
  <1>. USE DEF SumsUp
  <1>. DEFINE Def(f) == [s \in SUBSET T |->
                           IF s = {} THEN 0
                           ELSE ledger[Pick(s)].rejections[c] + f[s \ {Pick(s)}]]
              iter == CHOOSE f : f = Def(f)
              Bad == {s \in SUBSET T : iter[s] # g[s]}
  <1>1. Total(c, T) = iter[T]
    BY DEF Total, MapThenSumSet, MapThenFoldSet, Pick
  <1>2. g = Def(g)
    <2>1. \A s \in SUBSET T :
            g[s] = IF s = {} THEN 0 ELSE ledger[Pick(s)].rejections[c] + g[s \ {Pick(s)}]
      OBVIOUS
    <2>. QED
      BY <2>1
  <1>3. iter = Def(iter)
    <2>. HIDE DEF Def
    <2>. QED
      BY <1>2
  <1>. HIDE DEF iter
  <1>4. ASSUME Bad # {} PROVE FALSE
    <2>1. PICK U \in Bad : \A a \in U : U \ {a} \notin Bad
      <3>1. Bad \subseteq SUBSET T
        OBVIOUS
      <3>. HIDE DEF Bad
      <3>. QED
        BY <1>4, <3>1, MinimalSubset
    <2>2. U # {}
      BY <1>3, <2>1
    <2>3. Pick(U) \in U
      BY <2>2 DEF Pick
    <2>4. U \ {Pick(U)} \in SUBSET T /\ U \ {Pick(U)} \notin Bad
      BY <2>1, <2>3
    <2>5. iter[U] = ledger[Pick(U)].rejections[c] + iter[U \ {Pick(U)}]
      BY <1>3, <2>1, <2>2
    <2>. QED
      BY <2>1, <2>2, <2>4, <2>5
  <1>. QED
    BY <1>1, <1>4

\* The offers of an answer: as many as the bound allows, each with its verdict.
LEMMA OffersOf ==
    ASSUME NEW a \in Answers
    PROVE  /\ \E n \in 0..MaxOffers : a.offers \in [1..n -> Verdicts]
           /\ a.state = "OK" => a.offers # <<>>
           /\ a.state # "OK" => a.offers = <<>>
  <1>1. CASE \E o \in Offers \ {<<>>} : a = [state |-> "OK", offers |-> o]
    BY <1>1 DEF Offers
  <1>2. CASE \E s \in ErrorStates \cup {"NO_OFFERS"} : a = [state |-> s, offers |-> <<>>]
    <2>1. a.offers = <<>> /\ a.state # "OK"
      BY <1>2 DEF ErrorStates
    <2>2. <<>> \in [1..0 -> Verdicts] /\ 0 \in 0..MaxOffers
      BY CliRunAssumption
    <2>. QED
      BY <2>1, <2>2
  <1>. QED
    BY <1>1, <1>2 DEF Answers

\* The verdicts of the tasks of T that name code c.
Named(c, T) == {p \in T \X (1..MaxOffers) : /\ p[2] \in DOMAIN answers[p[1]].offers
                                             /\ c \in answers[p[1]].offers[p[2]]}

\* How often a code occurs is a number, and zero where no offer has it.
LEMMA NamedFinite ==
    ASSUME NEW c, NEW T, IsFiniteSet(T)
    PROVE  /\ IsFiniteSet(Named(c, T))
           /\ Occurrences(c, T) = Cardinality(Named(c, T))
           /\ Occurrences(c, T) \in Nat
           /\ Occurrences(c, T) = 0 <=> Named(c, T) = {}
  <1>1. IsFiniteSet(T \X (1..MaxOffers))
    <2>1. MaxOffers \in Int
      BY CliRunAssumption
    <2>2. IsFiniteSet(1..MaxOffers)
      BY <2>1, FS_Interval
    <2>. QED
      BY <2>2, FS_Product
  <1>2. IsFiniteSet(Named(c, T))
    BY <1>1, FS_Subset DEF Named
  <1>3. Occurrences(c, T) = Cardinality(Named(c, T))
    BY DEF Occurrences, Named
  <1>. QED
    BY <1>2, <1>3, FS_CardinalityType, FS_EmptySet

\* Occurrences add up over the tasks.
LEMMA OccurrencesAdd ==
    ASSUME NEW c, NEW T, IsFiniteSet(T), NEW t \in T
    PROVE  Occurrences(c, T) = Occurrences(c, {t}) + Occurrences(c, T \ {t})
  <1>1. IsFiniteSet({t}) /\ IsFiniteSet(T \ {t})
    BY FS_Singleton, FS_Subset
  <1>2. Named(c, T) = Named(c, {t}) \cup Named(c, T \ {t})
    BY DEF Named
  <1>3. Named(c, {t}) \cap Named(c, T \ {t}) = {}
    BY DEF Named
  <1>4. /\ IsFiniteSet(Named(c, {t})) /\ IsFiniteSet(Named(c, T \ {t}))
        /\ Occurrences(c, {t}) = Cardinality(Named(c, {t}))
        /\ Occurrences(c, T \ {t}) = Cardinality(Named(c, T \ {t}))
        /\ Occurrences(c, T) = Cardinality(Named(c, T))
        /\ Occurrences(c, {t}) \in Nat /\ Occurrences(c, T \ {t}) \in Nat
    BY <1>1, NamedFinite
  <1>5. Cardinality(Named(c, T)) = Cardinality(Named(c, {t}))
                                     + Cardinality(Named(c, T \ {t})) - Cardinality({})
    BY <1>2, <1>3, <1>4, FS_Union
  <1>. QED
    BY <1>4, <1>5, FS_EmptySet

\* Those of one task are what its summary counts.
LEMMA OccurrencesOne ==
    ASSUME NEW c \in CodeSet, NEW t, answers[t] \in Answers
    PROVE  Occurrences(c, {t}) = Finalize(answers[t]).rejections[c]
  <1>. DEFINE o == answers[t].offers
              I == {i \in DOMAIN o : c \in o[i]}
              f == [i \in I |-> <<t, i>>]
  <1>1. PICK n \in 0..MaxOffers : DOMAIN o = 1..n
    BY OffersOf
  <1>2. MaxOffers \in Nat /\ n \in Nat /\ n <= MaxOffers
    BY CliRunAssumption
  <1>3. IsFiniteSet(I)
    BY <1>1, <1>2, FS_Interval, FS_Subset
  <1>4. \A i \in I : <<t, i>> \in Named(c, {t})
    BY <1>1, <1>2 DEF Named
  <1>5. \A p \in Named(c, {t}) : p[2] \in I /\ p = <<t, p[2]>>
    BY DEF Named
  <1>6. f \in Bijection(I, Named(c, {t}))
    <2>1. f \in [I -> Named(c, {t})]
      BY <1>4
    <2>2. IsInjective(f)
      BY DEF IsInjective
    <2>3. \A p \in Named(c, {t}) : \E i \in I : f[i] = p
      BY <1>5
    <2>. QED
      BY <2>1, <2>2, <2>3 DEF Bijection, Injection, Surjection
  <1>7. Cardinality(Named(c, {t})) = Cardinality(I)
    BY <1>3, <1>6, FS_Bijection DEF ExistsBijection
  <1>8. Finalize(answers[t]).rejections[c] = Cardinality(I)
    BY DEF Finalize, Rejected
  <1>. QED
    BY <1>7, <1>8, NamedFinite, FS_Singleton

\* origin_absence_reason and _dominant_rejection_code add up the counts of the
\* outcomes: for a finalized ledger that counts the offers themselves.
LEMMA TotalCounts ==
    ASSUME NEW T, IsFiniteSet(T), NEW c \in CodeSet,
           \A t \in T : answers[t] \in Answers /\ ledger[t] = Finalize(answers[t])
    PROVE  Total(c, T) = Occurrences(c, T)
  <1>. DEFINE g == [s \in SUBSET T |-> Occurrences(c, s)]
  <1>1. g[{}] = 0
    <2>1. Named(c, {}) = {}
      BY DEF Named
    <2>. QED
      BY <2>1, NamedFinite, FS_EmptySet
  <1>2. ASSUME NEW s \in SUBSET T, s # {}
        PROVE  g[s] = ledger[Pick(s)].rejections[c] + g[s \ {Pick(s)}]
    <2>1. Pick(s) \in s
      BY <1>2 DEF Pick
    <2>2. IsFiniteSet(s)
      BY FS_Subset
    <2>3. Occurrences(c, s) = Occurrences(c, {Pick(s)}) + Occurrences(c, s \ {Pick(s)})
      BY <2>1, <2>2, OccurrencesAdd
    <2>4. Occurrences(c, {Pick(s)}) = ledger[Pick(s)].rejections[c]
      BY <2>1, OccurrencesOne
    <2>. QED
      BY <2>3, <2>4
  <1>3. g \in [SUBSET T -> Nat]
    <2>1. \A s \in SUBSET T : Occurrences(c, s) \in Nat
      BY NamedFinite, FS_Subset
    <2>. QED
      BY <2>1
  <1>4. g[T] = Occurrences(c, T)
    OBVIOUS
  <1>. HIDE DEF g
  <1>5. SumsUp(g, c, T)
    BY <1>1, <1>2, <1>3 DEF SumsUp
  <1>6. Total(c, T) = g[T]
    BY <1>5, TotalIs
  <1>. QED
    BY <1>4, <1>6

\* The code that is blamed for the tasks of T is one they were given, and none
\* was given more often; none is blamed only if they were given none.
LEMMA DominantIsMostFrequent ==
    ASSUME NEW T, IsFiniteSet(T),
           \A t \in T : answers[t] \in Answers /\ ledger[t] = Finalize(answers[t])
    PROVE  \/ /\ DominantCode(T) = "no_offers"
              /\ \A c \in CodeSet : Occurrences(c, T) = 0
           \/ /\ DominantCode(T) \in CodeSet
              /\ Occurrences(DominantCode(T), T) >= 1
              /\ \A c \in CodeSet : Occurrences(c, T) <= Occurrences(DominantCode(T), T)
  <1>. DEFINE count(i) == Occurrences(Codes[i], T)
              totals == {i \in DOMAIN Codes : count(i) > 0}
              before(i, j) == count(i) > count(j) \/ (count(i) = count(j) /\ i >= j)
              best == {i \in totals : \A j \in totals : before(i, j)}
              R == {p \in totals \X totals : before(p[1], p[2])}
  <1>1. \A i \in DOMAIN Codes : /\ Codes[i] \in CodeSet
                                /\ Total(Codes[i], T) = count(i)
                                /\ count(i) \in Nat
    BY TotalCounts, NamedFinite DEF CodeSet
  <1>2. DominantCode(T) = IF totals = {} THEN "no_offers" ELSE Codes[CHOOSE i \in best : TRUE]
    <2>1. totals = {i \in DOMAIN Codes : Total(Codes[i], T) > 0}
      BY <1>1
    <2>2. best = {i \in totals : \A j \in totals :
                    \/ Total(Codes[i], T) > Total(Codes[j], T)
                    \/ Total(Codes[i], T) = Total(Codes[j], T) /\ i >= j}
      <3>1. \A i \in totals : i \in DOMAIN Codes
        OBVIOUS
      <3>. HIDE DEF totals, count
      <3>2. \A i, j \in totals :
              before(i, j) <=> \/ Total(Codes[i], T) > Total(Codes[j], T)
                               \/ Total(Codes[i], T) = Total(Codes[j], T) /\ i >= j
        BY <1>1, <3>1
      <3>. HIDE DEF before
      <3>. QED
        BY <3>2
    <2>. HIDE DEF totals, best
    <2>. QED
      BY <2>1, <2>2 DEF DominantCode
  <1>3. CASE totals = {}
    <2>1. \A c \in CodeSet : Occurrences(c, T) = 0
      BY <1>1, <1>3 DEF CodeSet
    <2>. QED
      BY <1>2, <1>3, <2>1
  <1>4. CASE totals # {}
    <2>1. DOMAIN Codes = 1..Len(Codes) /\ Len(Codes) \in Nat
      BY CliRunAssumption
    <2>2. IsFiniteSet(totals)
      <3>1. IsFiniteSet(1..Len(Codes))
        BY <2>1, FS_Interval
      <3>2. totals \subseteq 1..Len(Codes)
        BY <2>1
      <3>. HIDE DEF totals
      <3>. QED
        BY <3>1, <3>2, FS_Subset
    <2>a. \A i \in totals : i \in Nat /\ count(i) \in Nat
      BY <1>1, <2>1
    <2>. HIDE DEF totals, count
    <2>3. \A i, j \in totals : i = j \/ <<i, j>> \in R \/ <<j, i>> \in R
      <3>1. \A i, j \in totals : before(i, j) \/ before(j, i)
        BY <2>a
      <3>. HIDE DEF before
      <3>. QED
        BY <3>1
    <2>4. \A i, j, k \in totals : <<i, j>> \in R /\ <<j, k>> \in R => <<i, k>> \in R
      <3>. SUFFICES ASSUME NEW i \in totals, NEW j \in totals, NEW k \in totals,
                           before(i, j), before(j, k)
                    PROVE  before(i, k)
        OBVIOUS
      <3>. QED
        BY <2>a
    <2>5. PICK i \in totals : \A j \in totals \ {i} : <<i, j>> \in R
      <3>. HIDE DEF R
      <3>. QED
        BY <1>4, <2>2, <2>3, <2>4, FirstExists
    <2>6. i \in best
      <3>1. \A j \in totals : j = i \/ before(i, j)
        BY <2>5
      <3>2. before(i, i)
        BY <2>a
      <3>. QED
        BY <3>1, <3>2
    <2>. DEFINE k == CHOOSE j \in best : TRUE
    <2>7. k \in best
      BY <2>6
    <2>8. DominantCode(T) = Codes[k]
      BY <1>2, <1>4
    <2>. HIDE DEF k
    <2>9. \A j \in DOMAIN Codes : count(j) <= count(k)
      BY <1>1, <2>7, <2>a DEF totals, count
    <2>10. Codes[k] \in CodeSet /\ count(k) >= 1
      BY <1>1, <2>7 DEF totals, count
    <2>. QED
      BY <2>8, <2>9, <2>10 DEF CodeSet, count
  <1>. QED
    BY <1>3, <1>4

-----------------------------------------------------------------------------
(* The report and the message *)

\* The report that is made lists what failed.
LEMMA ReportLists ==
    ASSUME LedgerSound, Report
    PROVE  FailuresListed'
  <1>1. SUFFICES ASSUME mode = "all"
                 PROVE  FailuresListed'
    BY DEF Report, NoReport, FailuresListed
  <1>2. /\ stage = "enveloped" /\ status = StatusOf(ledger)
        /\ status \in {"COMPLETE", "PARTIAL"}
        /\ DOMAIN ledger = 1..Len(answers) /\ DOMAIN plan = 1..Len(answers)
        /\ Len(answers) \in Nat
    BY <1>1 DEF Report, Decided, LedgerSound
  <1>3. \A t \in 1..Len(answers) :
          ledger[t].state \in ErrorStates <=> answers[t].state \in ErrorStates
    BY <1>2, FinalizeKeeps DEF LedgerSound
  <1>4. FailedSearches = {t \in DOMAIN plan : AnsweredWith(t, ErrorStates)}
    BY <1>2, <1>3 DEF FailedSearches, AnsweredWith
  <1>5. HasErrors(ledger) <=> FailedSearches # {}
    BY DEF HasErrors, FailedSearches
  <1>6. status = "PARTIAL" <=> HasErrors(ledger)
    BY <1>2 DEF StatusOf
  <1>7. /\ report'.failed_searches = FailedSearches
        /\ plan' = plan /\ answers' = answers /\ status' = status
    BY <1>1 DEF Report
  <1>. QED
    BY <1>4, <1>5, <1>6, <1>7 DEF FailuresListed, AnsweredWith


\* Once every task is finalized, the ledger and the answers are in step.
LEMMA InStep ==
    ASSUME LedgerSound, Finalized \/ stage = "enveloped"
    PROVE  /\ DOMAIN ledger = DOMAIN plan /\ DOMAIN answers = DOMAIN plan
           /\ IsFiniteSet(DOMAIN plan)
           /\ \A t \in DOMAIN plan : /\ answers[t] \in Answers
                                     /\ ledger[t] = Finalize(answers[t])
  <1>1. /\ Len(ledger) = Len(answers) /\ Len(answers) \in Nat /\ Len(answers) = Len(plan)
        /\ DOMAIN ledger = 1..Len(answers) /\ DOMAIN answers = 1..Len(answers)
        /\ DOMAIN plan = 1..Len(answers)
    BY DEF LedgerSound, Finalized
  <1>2. IsFiniteSet(1..Len(answers))
    BY <1>1, FS_Interval
  <1>. QED
    BY <1>1, <1>2 DEF LedgerSound

\* What AbsencesExplained asks of the row of an origin whose tasks are T.
Explains(row, T) ==
    LET failed == \E t \in T : AnsweredWith(t, ErrorStates)
    IN  CASE row = "fare" -> ValidIn(T)
          [] row = "not_searched" -> T = {}
          [] row = "search_failed" -> ~ValidIn(T) /\ failed
          [] row = "no_offers" -> T # {} /\ \A t \in T : AnsweredWith(t, {"NO_OFFERS"})
          [] OTHER -> /\ ~ValidIn(T) /\ ~failed
                      /\ Occurrences(row, T) >= 1
                      /\ \A c \in CodeSet : Occurrences(c, T) <= Occurrences(row, T)

\* An OK answer has offers, and an offer that is not valid was given a code.
LEMMA NothingOffered ==
    ASSUME NEW T, IsFiniteSet(T), \A t \in T : answers[t] \in Answers,
           \A t \in T : ~AnsweredWith(t, ErrorStates), ~ValidIn(T),
           \A c \in CodeSet : Occurrences(c, T) = 0
    PROVE  \A t \in T : AnsweredWith(t, {"NO_OFFERS"})
  <1>. SUFFICES ASSUME NEW t \in T, answers[t].state = "OK" PROVE FALSE
    BY DEF AnsweredWith, Answers
  <1>1. PICK n \in 0..MaxOffers : answers[t].offers \in [1..n -> Verdicts]
    BY OffersOf
  <1>2. n # 0
    BY <1>1, OffersOf
  <1>3. /\ 1 \in DOMAIN answers[t].offers /\ 1 \in 1..MaxOffers
        /\ answers[t].offers[1] \subseteq CodeSet
    <2>1. MaxOffers \in Nat
      BY CliRunAssumption
    <2>. QED
      BY <1>1, <1>2, <2>1 DEF Verdicts
  <1>4. PICK c \in CodeSet : c \in answers[t].offers[1]
    BY <1>3 DEF ValidIn
  <1>5. <<t, 1>> \in Named(c, T)
    BY <1>3, <1>4 DEF Named
  <1>. QED
    BY <1>5, NamedFinite

\* The row of an origin is explained by the answers to its tasks.
LEMMA RowIsTrue ==
    ASSUME LedgerSound, stage = "enveloped", NEW o \in Origins
    PROVE  Explains(OriginRow(o), {t \in DOMAIN plan : plan[t] = o})
  <1>. DEFINE T == {t \in DOMAIN plan : plan[t] = o}
              row == OriginRow(o)
  <1>1. /\ DOMAIN ledger = DOMAIN plan /\ IsFiniteSet(DOMAIN plan)
        /\ \A t \in DOMAIN plan : answers[t] \in Answers /\ ledger[t] = Finalize(answers[t])
    BY InStep
  <1>2. TasksOf(o) = T /\ IsFiniteSet(T)
    BY <1>1, FS_Subset DEF TasksOf
  <1>3. \A t \in T : /\ answers[t] \in Answers /\ ledger[t] = Finalize(answers[t])
                     /\ ledger[t].state \in ErrorStates <=> AnsweredWith(t, ErrorStates)
                     /\ ledger[t].accepted >= 1 <=>
                          \E i \in DOMAIN answers[t].offers : answers[t].offers[i] = {}
    BY <1>1, FinalizeKeeps DEF AnsweredWith
  <1>4. (\E t \in T : ledger[t].accepted >= 1) <=> ValidIn(T)
    BY <1>3 DEF ValidIn
  <1>5. T \cap FailedSearches # {} <=> \E t \in T : AnsweredWith(t, ErrorStates)
    BY <1>1, <1>3 DEF FailedSearches
  <1>. HIDE DEF T
  <1>6. CASE ValidIn(T)
    <2>1. row = "fare"
      BY <1>2, <1>4, <1>6 DEF OriginRow
    <2>. QED
      BY <1>6, <2>1 DEF Explains, T
  <1>7. CASE T = {}
    <2>1. row = "not_searched"
      BY <1>2, <1>7 DEF OriginRow, AbsenceReason
    <2>. QED
      BY <1>7, <2>1 DEF Explains, T
  <1>8. CASE ~ValidIn(T) /\ \E t \in T : AnsweredWith(t, ErrorStates)
    <2>1. row = "search_failed"
      BY <1>2, <1>4, <1>5, <1>8 DEF OriginRow, AbsenceReason
    <2>. QED
      BY <1>8, <2>1 DEF Explains, T
  <1>9. CASE /\ ~ValidIn(T) /\ T # {}
             /\ ~\E t \in T : AnsweredWith(t, ErrorStates)
    <2>1. row = DominantCode(T)
      BY <1>2, <1>4, <1>5, <1>9 DEF OriginRow, AbsenceReason
    <2>2. CASE row = "no_offers" /\ \A c \in CodeSet : Occurrences(c, T) = 0
      <3>1. \A t \in T : AnsweredWith(t, {"NO_OFFERS"})
        BY <1>2, <1>3, <1>9, <2>2, NothingOffered
      <3>. QED
        BY <1>9, <2>2, <3>1 DEF Explains, T
    <2>3. CASE /\ row \in CodeSet /\ Occurrences(row, T) >= 1
               /\ \A c \in CodeSet : Occurrences(c, T) <= Occurrences(row, T)
      <3>1. CodeSet \cap Phrases = {}
        BY CliRunAssumption
      <3>2. row \notin {"fare", "not_searched", "search_failed", "no_offers"}
        BY <2>3, <3>1 DEF Phrases
      <3>. QED
        BY <1>9, <2>3, <3>2 DEF Explains, T
    <2>. QED
      BY <1>2, <1>3, <2>1, <2>2, <2>3, DominantIsMostFrequent
  <1>. QED
    BY <1>6, <1>7, <1>8, <1>9

\* The report that is made explains what is missing.
LEMMA ReportExplains ==
    ASSUME LedgerSound, Report
    PROVE  AbsencesExplained'
  <1>1. SUFFICES ASSUME mode = "all"
                 PROVE  AbsencesExplained'
    BY DEF Report, NoReport, AbsencesExplained
  <1>2. /\ stage = "enveloped" /\ plan' = plan /\ answers' = answers
        /\ report'.origin_comparison = [o \in Origins |-> OriginRow(o)]
    BY <1>1 DEF Report, Decided
  <1>3. \A o \in Origins : Explains(report'.origin_comparison[o],
                                    {t \in DOMAIN plan : plan[t] = o})
    BY <1>2, RowIsTrue
  <1>4. \A o \in Origins : Explains(report.origin_comparison[o],
                                    {t \in DOMAIN plan : plan[t] = o})'
    BY <1>2, <1>3 DEF Explains, ValidIn, AnsweredWith, Occurrences
  <1>. QED
    BY <1>4 DEF AbsencesExplained, Explains

\* A written report is of a run past its status.
ReportKept == ReportShowsFailures /\ (report.written => stage \in {"writing", "exited"})

\* Every step keeps it.
LEMMA ReportStep == CliInv /\ ReportKept /\ [Next]_vars => ReportKept'
  <1>. SUFFICES ASSUME CliInv, ReportKept, [Next]_vars
                PROVE  ReportKept'
    OBVIOUS
  <1>1. CASE Report
    <2>1. report'.written => stage' = "writing"
      BY <1>1 DEF Report
    <2>. QED
      BY <1>1, <2>1, ReportLists, ReportExplains DEF CliInv, ReportKept, ReportShowsFailures
  <1>2. CASE SearchReturns \/ FinalizeTask \/ Envelop \/ NoResults \/ Failed
    <2>1. report' = report /\ stage \notin {"writing", "exited"}
      BY <1>2 DEF SearchReturns, FinalizeTask, Envelop, NoResults, Failed, Decided, Finalized,
                  Raise, ExitWith
    <2>. QED
      BY <2>1 DEF ReportKept, ReportShowsFailures, FailuresListed, AbsencesExplained
  <1>3. CASE \/ ProviderRaises \/ SearchRaises \/ BadOffer \/ WriteFails
             \/ WriteFile \/ Succeed \/ UNCHANGED vars
    <2>1. /\ report' = report /\ plan' = plan /\ answers' = answers /\ status' = status
          /\ stage' \in {stage, "exited"}
      BY <1>3 DEF ProviderRaises, SearchRaises, BadOffer, WriteFails, WriteFile, Succeed,
                  Raise, ExitWith, vars
    <2>2. FailuresListed'
      BY <2>1 DEF ReportKept, ReportShowsFailures, FailuresListed, AnsweredWith
    <2>3. AbsencesExplained'
      <3>1. /\ \A t, S : AnsweredWith(t, S)' <=> AnsweredWith(t, S)
            /\ \A T : ValidIn(T)' <=> ValidIn(T)
            /\ \A c, T : Occurrences(c, T)' = Occurrences(c, T)
        BY <2>1 DEF AnsweredWith, ValidIn, Occurrences
      <3>2. \A row, T : Explains(row, T)' <=> Explains(row, T)
        BY <3>1 DEF Explains
      <3>3. AbsencesExplained <=>
              (report.written => \A o \in Origins : Explains(report.origin_comparison[o],
                                                          {t \in DOMAIN plan : plan[t] = o}))
        BY DEF AbsencesExplained, Explains
      <3>4. AbsencesExplained' <=>
              (report.written => \A o \in Origins : Explains(report.origin_comparison[o],
                                                          {t \in DOMAIN plan : plan[t] = o}))'
        BY DEF AbsencesExplained, Explains
      <3>. HIDE DEF Explains
      <3>. QED
        BY <2>1, <3>2, <3>3, <3>4 DEF ReportKept, ReportShowsFailures
    <2>. QED
      BY <2>1, <2>2, <2>3 DEF ReportKept, ReportShowsFailures
  <1>. QED
    BY <1>1, <1>2, <1>3 DEF Next

\* A report hides no failed search and blames nothing wrongly: its section of
\* failed searches is complete, and where an origin has no fare, origin_absence_reason
\* names what its tasks were answered with, and a code only if no other code was
\* given to more of their offers.
THEOREM ReportsAreHonest == Spec => []ReportShowsFailures
  <1>1. Init => ReportKept
    BY DEF Init, NoReport, ReportKept, ReportShowsFailures, FailuresListed, AbsencesExplained
  <1>2. ReportKept => ReportShowsFailures
    BY DEF ReportKept
  <1>. QED
    BY <1>1, <1>2, ReportStep, CliInvariance, PTL DEF Spec

-----------------------------------------------------------------------------

\* A message is of a run that has ended.
MessageKept == ReasonIsMostFrequent /\ (message # "none" => stage = "exited")

\* The message that is chosen names a most frequent reason.
LEMMA MessageIsTrue ==
    ASSUME LedgerSound, NoResults, message = "none"
    PROVE  ReasonIsMostFrequent'
  <1>1. SUFFICES ASSUME mode = "all" PROVE ReasonIsMostFrequent'
    BY DEF NoResults, ReasonIsMostFrequent
  <1>. DEFINE all == DOMAIN answers
              code == DominantCode(DOMAIN ledger)
  <1>2. /\ stage = "enveloped" /\ answers' = answers
        /\ message' = IF code \in LayoverCodes THEN "layover" ELSE code
    BY <1>1 DEF NoResults, Decided, NoResultsMessage, ExitWith
  <1>3. /\ DOMAIN ledger = all /\ IsFiniteSet(all)
        /\ \A t \in all : answers[t] \in Answers /\ ledger[t] = Finalize(answers[t])
    BY <1>2, InStep
  <1>4. CodeSet \cap Phrases = {} /\ LayoverCodes \subseteq CodeSet
    BY CliRunAssumption
  <1>5. \/ code = "no_offers" /\ \A c \in CodeSet : Occurrences(c, all) = 0
        \/ /\ code \in CodeSet
           /\ \A c \in CodeSet : Occurrences(c, all) <= Occurrences(code, all)
    BY <1>3, DominantIsMostFrequent
  <1>6. \A c : Occurrences(c, all)' = Occurrences(c, all)
    BY <1>2 DEF Occurrences
  <1>. HIDE DEF all, code
  <1>7. CASE code = "no_offers" /\ \A c \in CodeSet : Occurrences(c, all) = 0
    <2>1. message' = "no_offers"
      BY <1>2, <1>4, <1>7 DEF Phrases
    <2>. QED
      BY <1>6, <1>7, <2>1 DEF ReasonIsMostFrequent, all
  <1>8. CASE /\ code \in LayoverCodes
             /\ \A c \in CodeSet : Occurrences(c, all) <= Occurrences(code, all)
    <2>1. message' = "layover"
      BY <1>2, <1>8
    <2>. QED
      BY <1>6, <1>8, <2>1 DEF ReasonIsMostFrequent, all
  <1>9. CASE /\ code \in CodeSet \ LayoverCodes
             /\ \A c \in CodeSet : Occurrences(c, all) <= Occurrences(code, all)
    <2>1. message' = code
      BY <1>2, <1>9
    <2>2. code \notin {"no_offers", "layover", "none"}
      BY <1>4, <1>9 DEF Phrases
    <2>. QED
      BY <1>6, <1>9, <2>1, <2>2 DEF ReasonIsMostFrequent, all
  <1>. QED
    BY <1>5, <1>7, <1>8, <1>9

\* The reason the CLI prints for a run without a valid itinerary is one that no
\* other reason outnumbers, counted over every offer of every task, though
\* _dominant_rejection_code only sees the summaries; "no offers" is said only where no
\* offer was rejected for anything.
THEOREM ReasonsAreMostFrequent == Spec => []ReasonIsMostFrequent
  <1>1. Init => MessageKept
    BY DEF Init, MessageKept, ReasonIsMostFrequent
  <1>2. CliInv /\ MessageKept /\ [Next]_vars => MessageKept'
    <2>. SUFFICES ASSUME CliInv, MessageKept, [Next]_vars PROVE MessageKept'
      OBVIOUS
    <2>1. CASE NoResults
      <3>1. stage # "exited" /\ stage' = "exited"
        BY <2>1 DEF NoResults, Decided, Finalized, ExitWith
      <3>. QED
        BY <2>1, <3>1, MessageIsTrue DEF CliInv, MessageKept
    <2>2. CASE ~NoResults
      <3>1. message' = message
        BY <2>2 DEF Next, vars, SearchReturns, ProviderRaises, SearchRaises, FinalizeTask,
                    BadOffer, Envelop, Report, Failed, WriteFails, WriteFile, Succeed,
                    Raise, ExitWith
      <3>2. stage # "exited" \/ UNCHANGED vars
        BY <2>2 DEF Next, vars, SearchReturns, ProviderRaises, SearchRaises, FinalizeTask,
                    BadOffer, Envelop, Report, Failed, WriteFails, WriteFile, Succeed,
                    Decided, Finalized
      <3>. QED
        BY <3>1, <3>2 DEF MessageKept, ReasonIsMostFrequent, vars, Occurrences
    <2>. QED
      BY <2>1, <2>2
  <1>3. MessageKept => ReasonIsMostFrequent
    BY DEF MessageKept
  <1>. QED
    BY <1>1, <1>2, <1>3, CliInvariance, PTL DEF Spec

-----------------------------------------------------------------------------
(* Types *)

\* The counts of an outcome are within the bound on offers.
LEMMA FinalizeType ==
    ASSUME NEW a \in Answers
    PROVE  Finalize(a) \in Outcomes
  <1>1. PICK n \in 0..MaxOffers : DOMAIN a.offers = 1..n
    BY OffersOf
  <1>2. MaxOffers \in Nat /\ n \in Nat /\ n <= MaxOffers
    BY CliRunAssumption
  <1>3. ASSUME NEW I, I \subseteq 1..n
        PROVE  Cardinality(I) \in 0..MaxOffers
    <2>1. IsFiniteSet(1..n) /\ Cardinality(1..n) = n
      BY <1>2, FS_Interval
    <2>2. IsFiniteSet(I) /\ Cardinality(I) <= n
      BY <1>3, <2>1, FS_Subset
    <2>3. Cardinality(I) \in Nat
      BY <2>2, FS_CardinalityType
    <2>. QED
      BY <1>2, <2>2, <2>3
  <1>4. Accepted(a.offers) \in 0..MaxOffers
    BY <1>1, <1>3 DEF Accepted
  <1>5. Rejected(a.offers) \in [CodeSet -> 0..MaxOffers]
    <2>1. \A c \in CodeSet : Cardinality({i \in DOMAIN a.offers : c \in a.offers[i]})
                               \in 0..MaxOffers
      BY <1>1, <1>3
    <2>. QED
      BY <2>1 DEF Rejected
  <1>6. Finalize(a).state \in TaskStates
    BY FinalizeKeeps
  <1>. QED
    BY <1>4, <1>5, <1>6 DEF Finalize, Outcomes

\* What TypeOK says of the variables that LedgerSound does not bound.
Scalars ==
    /\ stage \in {"searching", "finalizing", "enveloped", "writing", "exited"}
    /\ Len(answers) <= Len(plan)
    /\ status \in Statuses \cup {"none"}
    /\ report.written => /\ report.failed_searches \subseteq DOMAIN plan
                         /\ DOMAIN report.origin_comparison = Origins
    /\ message \in CodeSet \cup {"none", "layover", "no_offers"}
    /\ written \in 0..Len(Files)
    /\ exit \in {NoExit, 0, 1, 3}
    /\ raised \in {"no", "provider", "search", "offer", "envelope", "write"}

\* The parts together.
LEMMA TypeFromParts == ASSUME LedgerSound, Scalars PROVE TypeOK
  <1>1. \A t \in DOMAIN answers : answers[t] \in Answers
    BY DEF LedgerSound
  <1>2. \A t \in DOMAIN ledger : t \in DOMAIN answers /\ ledger[t] = Finalize(answers[t])
    BY DEF LedgerSound
  <1>3. \A t \in DOMAIN ledger : ledger[t] \in Outcomes
    BY <1>1, <1>2, FinalizeType
  <1>. QED
    BY <1>1, <1>3 DEF LedgerSound, Scalars, TypeOK

\* The reason of a NO_RESULTS run is a code or a phrase.
LEMMA MessageType ==
    ASSUME LedgerSound, stage = "enveloped"
    PROVE  NoResultsMessage \in CodeSet \cup {"layover", "no_offers"}
  <1>1. /\ IsFiniteSet(DOMAIN ledger)
        /\ \A t \in DOMAIN ledger : answers[t] \in Answers /\ ledger[t] = Finalize(answers[t])
    BY InStep
  <1>2. DominantCode(DOMAIN ledger) \in CodeSet \cup {"no_offers"}
    BY <1>1, DominantIsMostFrequent
  <1>. QED
    BY <1>2 DEF NoResultsMessage

\* Every step keeps the scalars in their ranges.
LEMMA ScalarStep == CliInv /\ Scalars /\ [Next]_vars => Scalars'
  <1>. SUFFICES ASSUME CliInv, Scalars, [Next]_vars PROVE Scalars'
    OBVIOUS
  <1>. USE DEF Scalars
  <1>1. LedgerSound
    BY DEF CliInv
  <1>2. CASE SearchReturns
    <2>1. plan \in Seq(Origins)
      BY <1>1 DEF LedgerSound
    <2>2. Len(answers') = Len(plan) /\ Len(plan) \in Nat
      BY <1>2, <2>1 DEF SearchReturns
    <2>. QED
      BY <1>2, <2>2 DEF SearchReturns
  <1>3. CASE ProviderRaises \/ SearchRaises \/ BadOffer \/ WriteFails
    BY <1>3 DEF ProviderRaises, SearchRaises, BadOffer, WriteFails, Raise
  <1>4. CASE FinalizeTask
    BY <1>4 DEF FinalizeTask
  <1>5. CASE Envelop
    <2>1. StatusOf(ledger) \in Statuses
      BY DEF StatusOf, Statuses
    <2>. QED
      BY <1>5, <2>1 DEF Envelop, Raise
  <1>6. CASE Report
    <2>1. mode = "all" => /\ FailedSearches \subseteq DOMAIN plan
                          /\ [o \in Origins |-> OriginRow(o)] \in [Origins -> {OriginRow(o) : o \in Origins}]
      BY <1>1, <1>6, InStep DEF Report, Decided, FailedSearches
    <2>2. report'.written => mode = "all"
      BY <1>6 DEF Report, NoReport
    <2>3. mode = "all" => /\ report'.failed_searches = FailedSearches
                          /\ report'.origin_comparison = [o \in Origins |-> OriginRow(o)]
      BY <1>6 DEF Report
    <2>. QED
      BY <1>6, <2>1, <2>2, <2>3 DEF Report
  <1>7. CASE Failed
    BY <1>7 DEF Failed, ExitWith
  <1>8. CASE NoResults
    <2>1. message' \in CodeSet \cup {"none", "layover", "no_offers"}
      BY <1>1, <1>8, MessageType DEF NoResults, Decided
    <2>. QED
      BY <1>8, <2>1 DEF NoResults, ExitWith
  <1>9. CASE WriteFile
    BY <1>9 DEF WriteFile, Files
  <1>10. CASE Succeed
    BY <1>10 DEF Succeed, ExitWith
  <1>11. CASE UNCHANGED vars
    BY <1>11 DEF vars
  <1>. QED
    BY <1>2, <1>3, <1>4, <1>5, <1>6, <1>7, <1>8, <1>9, <1>10, <1>11 DEF Next

\* Every variable keeps to its range, for any number of tasks and offers: the
\* counts of an outcome never exceed the offers of its task, and the command
\* exits with 0, 1 or 3.
THEOREM TypeCorrect == Spec => []TypeOK
  <1>1. Init /\ CliInv => Scalars
    BY DEF Init, Scalars, NoReport, Files, CliInv, LedgerSound
  <1>2. CliInv /\ Scalars => TypeOK
    BY TypeFromParts DEF CliInv
  <1>. QED
    BY <1>1, <1>2, ScalarStep, CliInvariance, PTL DEF Spec
=============================================================================
