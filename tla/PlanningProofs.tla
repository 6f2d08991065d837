--------------------------- MODULE PlanningProofs ---------------------------
(***************************************************************************)
(* Theorems about Config, Registry and Planning, for every schema, every   *)
(* sequence of environment variables, every pair of catalogs and every     *)
(* request.  ConfigInv says where each leaf of the environment's tree came *)
(* from, RegistryInv that the loops have taken over what they read, and    *)
(* PlanInv that the plan so far is the product of the origins planned so   *)
(* far; each is inductive by itself for the steps of its own part.         *)
(***************************************************************************)
EXTENDS Planning, FiniteSetTheorems, TLAPS

-----------------------------------------------------------------------------
\* The configuration.

LayersBelow == IF override.found = "read" THEN DeepMerge(Defaults, override.tree) ELSE Defaults

\* Each leaf of the layer is the last variable of its path, and no later one
\* took its place or that of its section.
LeavesAreLast ==
    \A p \in DOMAIN layer : \E i \in 1..read :
      /\ environment[i].path = p
      /\ environment[i].value = layer[p]
      /\ \A j \in (i + 1)..read : ~IsPrefixOf(environment[j].path, p)

\* Each variable is a leaf, or a later one took its place or its section's.
VariablesAreKept ==
    \A i \in 1..read : \E j \in i..read :
      /\ environment[j].path \in DOMAIN layer
      /\ IsPrefixOf(environment[j].path, environment[i].path)

Tree == DeepMerge(merged, layer)

ConfigInv ==
    /\ override \in Overrides
    /\ environment \in Environments
    /\ config \in {"start", "environment", "loaded", "refused"}
    /\ read \in 0..Len(environment)
    /\ config \in {"environment", "loaded"} => merged = LayersBelow
    /\ LeavesAreLast
    /\ VariablesAreKept
    /\ config = "loaded" => /\ read = Len(environment)
                            /\ ValidTree(Tree)
                            /\ settings = [p \in DOMAIN Schema |-> Tree[p].n]

LEMMA ElementOfSeq ==
    ASSUME NEW S, NEW s \in Seq(S)
    PROVE  /\ Len(s) \in Nat /\ DOMAIN s = 1..Len(s)
           /\ \A i \in 1..Len(s) : s[i] \in S
  OBVIOUS

LEMMA EnvironmentType ==
    ASSUME environment \in Environments
    PROVE  /\ environment \in Seq([path : Seq(STRING), value : Values])
           /\ Len(environment) \in Nat
           /\ \A i \in 1..Len(environment) : /\ environment[i].path \in Seq(STRING)
                                             /\ environment[i].value \in Values
  <1>1. environment \in Seq([path : Seq(STRING), value : Values])
    BY ConfigAssumption
  <1>3. ASSUME NEW i \in 1..Len(environment)
        PROVE  environment[i] \in [path : Seq(STRING), value : Values]
    BY <1>1, <1>3, ElementOfSeq
  <1>4. Len(environment) \in Nat
    BY <1>1, ElementOfSeq
  <1>. QED
    BY <1>1, <1>3, <1>4

LEMMA PrefixReflexive ==
    ASSUME NEW p \in Seq(STRING)
    PROVE  IsPrefixOf(p, p)
  BY DEF IsPrefixOf

LEMMA PrefixTransitive ==
    ASSUME NEW p \in Seq(STRING), NEW q \in Seq(STRING), NEW r \in Seq(STRING),
           IsPrefixOf(p, q), IsPrefixOf(q, r)
    PROVE  IsPrefixOf(p, r)
  <1>1. /\ Len(p) \in Nat /\ Len(q) \in Nat /\ Len(r) \in Nat
        /\ DOMAIN p = 1..Len(p) /\ DOMAIN q = 1..Len(q)
    OBVIOUS
  <1>. QED
    BY <1>1 DEF IsPrefixOf

LEMMA MergeDomain ==
    ASSUME NEW base, NEW upper, NEW p
    PROVE  /\ p \in DOMAIN DeepMerge(base, upper) <=>
                 \/ p \in DOMAIN upper
                 \/ p \in DOMAIN base /\ \A q \in DOMAIN upper : ~Collide(p, q)
           /\ p \in DOMAIN upper => DeepMerge(base, upper)[p] = upper[p]
           /\ p \in DOMAIN base /\ p \notin DOMAIN upper
                /\ (\A q \in DOMAIN upper : ~Collide(p, q))
                => DeepMerge(base, upper)[p] = base[p]
  BY DEF DeepMerge

LEMMA ConfigStarts == ConfigInit => ConfigInv
  <1>. SUFFICES ASSUME ConfigInit PROVE ConfigInv
    OBVIOUS
  <1>1. Len(environment) \in Nat
    BY EnvironmentType DEF ConfigInit
  <1>2. LeavesAreLast /\ VariablesAreKept
    BY DEF ConfigInit, LeavesAreLast, VariablesAreKept
  <1>. QED
    BY <1>1, <1>2 DEF ConfigInit, ConfigInv

\* A variable that is parsed becomes a leaf; it takes the place of the leaves
\* that it is a prefix of, and of no other.
LEMMA ParsedVariableIsLeaf ==
    ASSUME ConfigInv, ParseVariable
    PROVE  /\ \A p : p \in DOMAIN layer' <=>
                       p = Variable.path \/ (p \in DOMAIN layer /\ ~IsPrefixOf(Variable.path, p))
           /\ layer'[Variable.path] = Variable.value
           /\ \A p \in DOMAIN layer' : p # Variable.path => layer'[p] = layer[p]
  <1>. DEFINE path == Variable.path
  <1>. DEFINE leaf == [p \in {path} |-> Variable.value]
  <1>1. /\ layer' = DeepMerge(layer, leaf)
        /\ \A q \in DOMAIN layer : q # path => ~IsPrefixOf(q, path)
    BY DEF ParseVariable, Conflicting
  <1>2. DOMAIN leaf = {path} /\ leaf[path] = Variable.value
    OBVIOUS
  <1>3. path \in Seq(STRING)
    BY EnvironmentType DEF ConfigInv, ParseVariable, Parsing, Variable
  <1>. HIDE DEF leaf, path
  <1>4. IsPrefixOf(path, path)
    BY <1>3, PrefixReflexive
  <1>5. ASSUME NEW p \in DOMAIN layer, p # path
        PROVE  (\A q \in DOMAIN leaf : ~Collide(p, q)) <=> ~IsPrefixOf(path, p)
    BY <1>1, <1>2, <1>5 DEF Collide
  <1>6. \A p : p \in DOMAIN layer' <=>
                  p = path \/ (p \in DOMAIN layer /\ ~IsPrefixOf(path, p))
    BY <1>1, <1>2, <1>4, <1>5, MergeDomain
  <1>7. layer'[path] = Variable.value
    BY <1>1, <1>2, MergeDomain
  <1>8. ASSUME NEW p \in DOMAIN layer', p # path
        PROVE  layer'[p] = layer[p]
    BY <1>1, <1>2, <1>5, <1>6, <1>8, MergeDomain
  <1>. QED
    BY <1>6, <1>7, <1>8 DEF path

LEMMA ConfigSteps ==
    ASSUME ConfigInv, [ConfigNext]_configVars
    PROVE  ConfigInv'
  <1>. USE DEF ConfigInv
  <1>1. CASE ReadOverride
    <2>1. override.found # "missing" /\ merged' = LayersBelow /\ LayersBelow' = LayersBelow
      BY <1>1 DEF ReadOverride, LayersBelow
    <2>2. LeavesAreLast' /\ VariablesAreKept'
      BY <1>1 DEF ReadOverride, LeavesAreLast, VariablesAreKept
    <2>. QED
      BY <1>1, <2>1, <2>2 DEF ReadOverride
  <1>2. CASE ParseVariable
    <2>. DEFINE P == Variable.path
    <2>1. /\ read \in Nat /\ Len(environment) \in Nat /\ read < Len(environment)
          /\ read' = read + 1 /\ environment' = environment
          /\ P = environment[read + 1].path /\ Variable.value = environment[read + 1].value
      BY <1>2, EnvironmentType DEF ParseVariable, Parsing, Variable
    <2>2. \A i \in 1..(read + 1) : environment[i].path \in Seq(STRING)
      BY <2>1, EnvironmentType
    <2>3. P \in Seq(STRING) /\ IsPrefixOf(P, P)
      BY <2>1, <2>2, PrefixReflexive
    <2>4. /\ \A p : p \in DOMAIN layer' <=>
                       p = P \/ (p \in DOMAIN layer /\ ~IsPrefixOf(P, p))
          /\ layer'[P] = Variable.value
          /\ \A p \in DOMAIN layer' : p # P => layer'[p] = layer[p]
      BY <1>2, ParsedVariableIsLeaf
    <2>. HIDE DEF P
    <2>5. LeavesAreLast'
      <3>1. SUFFICES ASSUME NEW p \in DOMAIN layer'
                     PROVE  \E i \in 1..(read + 1) :
                              /\ environment[i].path = p
                              /\ environment[i].value = layer'[p]
                              /\ \A j \in (i + 1)..(read + 1) :
                                   ~IsPrefixOf(environment[j].path, p)
        BY <2>1 DEF LeavesAreLast
      <3>2. CASE p = P
        BY <2>1, <2>4, <3>2
      <3>3. CASE p # P
        <4>1. p \in DOMAIN layer /\ ~IsPrefixOf(P, p) /\ layer'[p] = layer[p]
          BY <2>4, <3>1, <3>3
        <4>2. PICK i \in 1..read : /\ environment[i].path = p
                                   /\ environment[i].value = layer[p]
                                   /\ \A j \in (i + 1)..read :
                                        ~IsPrefixOf(environment[j].path, p)
          BY <4>1 DEF LeavesAreLast
        <4>3. \A j \in (i + 1)..(read + 1) : ~IsPrefixOf(environment[j].path, p)
          BY <2>1, <4>1, <4>2
        <4>. QED
          BY <2>1, <4>1, <4>2, <4>3
      <3>. QED
        BY <3>2, <3>3
    <2>6. VariablesAreKept'
      <3>1. SUFFICES ASSUME NEW i \in 1..(read + 1)
                     PROVE  \E j \in i..(read + 1) :
                              /\ environment[j].path \in DOMAIN layer'
                              /\ IsPrefixOf(environment[j].path, environment[i].path)
        BY <2>1 DEF VariablesAreKept
      <3>2. CASE i = read + 1
        BY <2>1, <2>3, <2>4, <3>2
      <3>3. CASE i \in 1..read
        <4>1. PICK j \in i..read :
                     /\ environment[j].path \in DOMAIN layer
                     /\ IsPrefixOf(environment[j].path, environment[i].path)
          BY <3>3 DEF VariablesAreKept
        <4>2. CASE environment[j].path \in DOMAIN layer'
          BY <2>1, <4>1, <4>2
        <4>3. CASE environment[j].path \notin DOMAIN layer'
          <5>1. IsPrefixOf(P, environment[j].path)
            BY <2>4, <4>1, <4>3
          <5>2. IsPrefixOf(P, environment[i].path)
            BY <2>1, <2>2, <2>3, <3>3, <4>1, <5>1, PrefixTransitive
          <5>. QED
            BY <2>1, <2>4, <3>3, <5>2
        <4>. QED
          BY <4>2, <4>3
      <3>. QED
        BY <2>1, <3>2, <3>3
    <2>7. /\ override' = override /\ config' = "environment" /\ merged' = LayersBelow'
          /\ config = "environment"
      BY <1>2 DEF ParseVariable, Parsing, LayersBelow
    <2>. QED
      BY <2>1, <2>5, <2>6, <2>7
  <1>3. CASE Validate
    <2>1. LeavesAreLast' /\ VariablesAreKept' /\ LayersBelow' = LayersBelow /\ Tree' = Tree
      BY <1>3 DEF Validate, LeavesAreLast, VariablesAreKept, LayersBelow, Tree
    <2>2. ValidTree(Tree)' /\ settings' = [p \in DOMAIN Schema |-> Tree'[p].n]
      BY <1>3, <2>1 DEF Validate, Tree, ValidTree
    <2>. QED
      BY <1>3, <2>1, <2>2 DEF Validate, Parsed
  <1>4. CASE config' = "refused" /\ UNCHANGED <<override, environment, read, layer>>
    BY <1>4 DEF LeavesAreLast, VariablesAreKept
  <1>5. CASE UNCHANGED configVars
    <2>1. LeavesAreLast' /\ VariablesAreKept' /\ LayersBelow' = LayersBelow /\ Tree' = Tree
      BY <1>5 DEF configVars, LeavesAreLast, VariablesAreKept, LayersBelow, Tree
    <2>2. ValidTree(Tree)' = ValidTree(Tree)
      BY <2>1 DEF ValidTree
    <2>. QED
      BY <1>5, <2>1, <2>2 DEF configVars
  <1>. QED
    BY <1>1, <1>2, <1>3, <1>4, <1>5
       DEF ConfigNext, OverrideMissing, RefuseVariable, RefuseTree, RefuseConfig

LEMMA LoadedSettings ==
    ASSUME ConfigInv
    PROVE  SettingsFollowTheLayers
  <1>. SUFFICES ASSUME config = "loaded"
                PROVE  /\ DOMAIN settings = DOMAIN Schema
                       /\ \A p \in DOMAIN Schema : settings[p] = Effective(p).n
                       /\ \A i \in DOMAIN environment :
                            \/ environment[i].path \in DOMAIN Schema
                            \/ \E j \in DOMAIN environment :
                                 j > i /\ IsPrefixOf(environment[j].path, environment[i].path)
                       /\ override.found = "read" =>
                            \A p \in DOMAIN override.tree :
                              \/ p \in DOMAIN Schema
                              \/ \E i \in DOMAIN environment : Collide(p, environment[i].path)
    BY DEF SettingsFollowTheLayers
  <1>. DEFINE n == Len(environment)
  <1>1. n \in Nat /\ DOMAIN environment = 1..n /\ read = n
    BY EnvironmentType, ElementOfSeq DEF ConfigInv
  <1>2. /\ DOMAIN Tree = DOMAIN Schema
        /\ settings = [p \in DOMAIN Schema |-> Tree[p].n]
        /\ merged = LayersBelow
    BY DEF ConfigInv, ValidTree
  <1>3. /\ \A p \in DOMAIN layer : \E i \in 1..n :
              /\ environment[i].path = p
              /\ environment[i].value = layer[p]
              /\ \A j \in (i + 1)..n : ~IsPrefixOf(environment[j].path, p)
        /\ \A i \in 1..n : \E j \in i..n :
              /\ environment[j].path \in DOMAIN layer
              /\ IsPrefixOf(environment[j].path, environment[i].path)
    BY <1>1 DEF ConfigInv, LeavesAreLast, VariablesAreKept
  <1>. HIDE DEF n
  <1>4. \A p : p \in DOMAIN Schema <=>
                 \/ p \in DOMAIN layer
                 \/ p \in DOMAIN LayersBelow /\ \A q \in DOMAIN layer : ~Collide(p, q)
    BY <1>2, MergeDomain DEF Tree
  <1>5. DOMAIN layer \subseteq DOMAIN Schema
    BY <1>4
  <1>6. ASSUME NEW p \in DOMAIN Schema
        PROVE  Tree[p] = Effective(p)
    <2>1. CASE p \in DOMAIN layer
      <3>1. PICK i \in 1..n : /\ environment[i].path = p
                              /\ environment[i].value = layer[p]
                              /\ \A j \in (i + 1)..n : ~IsPrefixOf(environment[j].path, p)
        BY <1>3, <2>1
      <3>2. p \in Seq(STRING)
        BY <1>1, <3>1, EnvironmentType DEF ConfigInv, n
      <3>3. i \in SetBy(p) /\ \A j \in SetBy(p) : j \in 1..n /\ j <= i
        BY <1>1, <3>1, <3>2, PrefixReflexive DEF SetBy
      <3>4. \A k \in SetBy(p) : (\A j \in SetBy(p) : j <= k) => k = i
        BY <1>1, <3>3
      <3>5. (CHOOSE k \in SetBy(p) : \A j \in SetBy(p) : j <= k) = i
        BY <3>3, <3>4
      <3>6. Effective(p) = environment[i].value
        BY <3>3, <3>5 DEF Effective
      <3>7. Tree[p] = layer[p]
        BY <2>1, MergeDomain DEF Tree
      <3>. QED
        BY <3>1, <3>6, <3>7
    <2>2. CASE p \notin DOMAIN layer
      <3>1. p \in DOMAIN LayersBelow /\ \A q \in DOMAIN layer : ~Collide(p, q)
        BY <1>4, <1>6, <2>2
      <3>2. SetBy(p) = {}
        <4>1. SUFFICES ASSUME NEW i \in 1..n, environment[i].path = p
                       PROVE  FALSE
          BY <1>1 DEF SetBy
        <4>2. PICK j \in i..n : /\ environment[j].path \in DOMAIN layer
                                /\ IsPrefixOf(environment[j].path, p)
          BY <1>3, <4>1
        <4>. QED
          BY <3>1, <4>2 DEF Collide
      <3>3. Tree[p] = LayersBelow[p]
        BY <1>2, <2>2, <3>1, MergeDomain DEF Tree
      <3>4. CASE override.found = "read" /\ p \in DOMAIN override.tree
        BY <3>2, <3>3, <3>4, MergeDomain DEF Effective, LayersBelow
      <3>5. CASE ~(override.found = "read" /\ p \in DOMAIN override.tree)
        BY <3>1, <3>2, <3>3, <3>5, MergeDomain DEF Effective, LayersBelow
      <3>. QED
        BY <3>4, <3>5
    <2>. QED
      BY <2>1, <2>2
  <1>7. ASSUME NEW i \in 1..n
        PROVE  \/ environment[i].path \in DOMAIN Schema
               \/ \E j \in 1..n :
                    j > i /\ IsPrefixOf(environment[j].path, environment[i].path)
    <2>1. PICK j \in i..n : /\ environment[j].path \in DOMAIN layer
                            /\ IsPrefixOf(environment[j].path, environment[i].path)
      BY <1>3
    <2>2. j = i \/ (j \in 1..n /\ j > i)
      BY <1>1
    <2>3. environment[j].path \in DOMAIN Schema
      BY <1>5, <2>1
    <2>. QED
      BY <2>1, <2>2, <2>3
  <1>8. ASSUME override.found = "read", NEW p \in DOMAIN override.tree
        PROVE  \/ p \in DOMAIN Schema
               \/ \E i \in 1..n : Collide(p, environment[i].path)
    <2>1. p \in DOMAIN LayersBelow
      BY <1>8, MergeDomain DEF LayersBelow
    <2>. QED
      BY <1>3, <1>4, <2>1
  <1>. QED
    BY <1>1, <1>2, <1>6, <1>7, <1>8
-----------------------------------------------------------------------------
\* The registry.

\* The ground rows taken over so far.
GroundInv ==
    /\ ground \in Seq(Rows(ground_rows))
    /\ Len(ground) <= Len(ground_rows)
    /\ ground # <<>> => airport_rows # <<>>
    /\ \A i \in 1..Len(ground) : ground[i] = ground_rows[i] /\ ground[i].complete
    /\ \A i, j \in 1..Len(ground) :
         /\ ground[i].to_airport = ground[j].to_airport => i = j
         /\ ground[i].priority = ground[j].priority => i = j

Iatas == {airport_rows[i].iata : i \in DOMAIN airport_rows}

\* The airports taken over so far.
AirportsInv ==
    /\ airports \in Seq(Iatas)
    /\ Len(airports) <= Len(airport_rows)
    /\ \A i \in 1..Len(airports) : /\ airports[i] = airport_rows[i].iata
                                   /\ airport_rows[i].complete
    /\ \A i, j \in 1..Len(airports) : airports[i] = airports[j] => i = j

DestinationsInv ==
    /\ destinations \in Seq(Iatas)
    /\ Rows(destinations) = Known \ Codes(ground)
    /\ \A i, j \in DOMAIN destinations : destinations[i] = destinations[j] => i = j

\* All ground rows are read, and their priorities are 1, 2, ...
GroundDone == /\ Len(ground) = Len(ground_rows)
              /\ ground # <<>>
              /\ Priorities(ground) = 1..Len(ground)

\* All airports are read, and the origins are the ground rows in order.
Merged == /\ Len(airports) = Len(airport_rows)
          /\ Codes(ground) \subseteq Known
          /\ origins \in [DOMAIN ground -> Rows(ground)]
          /\ \A i, j \in DOMAIN origins : i < j => origins[i].priority < origins[j].priority

RegistryInv ==
    /\ airport_rows \in AirportFiles
    /\ ground_rows \in GroundFiles
    /\ catalog \in {"ground", "airports", "merged", "refused"}
    /\ GroundInv
    /\ AirportsInv
    /\ catalog = "ground" => airports = <<>> /\ destinations = <<>>
    /\ catalog \in {"airports", "merged"} => GroundDone /\ DestinationsInv
    /\ Rows(destinations) \subseteq Known
    /\ catalog = "merged" => Merged
    /\ catalog = "refused" => ~SoundCatalogs

LEMMA CatalogTypes ==
    ASSUME airport_rows \in AirportFiles, ground_rows \in GroundFiles
    PROVE  /\ Len(airport_rows) \in Nat /\ DOMAIN airport_rows = 1..Len(airport_rows)
           /\ Len(ground_rows) \in Nat /\ DOMAIN ground_rows = 1..Len(ground_rows)
           /\ \A r \in Rows(ground_rows) : r.priority \in Int /\ r.minutes \in Nat
  BY RegistryAssumption DEF Rows

LEMMA AppendedSeq ==
    ASSUME NEW S, NEW s \in Seq(S), NEW e \in S
    PROVE  /\ Append(s, e) \in Seq(S)
           /\ Len(Append(s, e)) = Len(s) + 1
           /\ Append(s, e) # <<>>
           /\ \A i \in 1..(Len(s) + 1) :
                Append(s, e)[i] = IF i = Len(s) + 1 THEN e ELSE s[i]
  <1>1. Append(s, e) \in Seq(S) /\ Len(Append(s, e)) = Len(s) + 1 /\ Len(s) \in Nat
    OBVIOUS
  <1>2. ASSUME NEW i \in 1..(Len(s) + 1)
        PROVE  Append(s, e)[i] = IF i = Len(s) + 1 THEN e ELSE s[i]
    OBVIOUS
  <1>3. Append(s, e) # <<>>
    BY <1>1
  <1>. QED
    BY <1>1, <1>2, <1>3

LEMMA RowsOfAppend ==
    ASSUME NEW S, NEW s \in Seq(S), NEW e \in S
    PROVE  Rows(Append(s, e)) = Rows(s) \cup {e}
  <1>1. /\ Len(s) \in Nat /\ DOMAIN s = 1..Len(s)
        /\ DOMAIN Append(s, e) = 1..(Len(s) + 1)
    BY ElementOfSeq, AppendedSeq
  <1>2. \A i \in 1..(Len(s) + 1) :
          Append(s, e)[i] = IF i = Len(s) + 1 THEN e ELSE s[i]
    BY AppendedSeq
  <1>3. ASSUME NEW x \in Rows(Append(s, e))
        PROVE  x \in Rows(s) \cup {e}
    BY <1>1, <1>2, <1>3 DEF Rows
  <1>4. ASSUME NEW x \in Rows(s) \cup {e}
        PROVE  x \in Rows(Append(s, e))
    <2>1. CASE x = e
      BY <1>1, <1>2, <2>1 DEF Rows
    <2>2. CASE x \in Rows(s)
      BY <1>1, <1>2, <2>2 DEF Rows
    <2>. QED
      BY <1>4, <2>1, <2>2
  <1>. QED
    BY <1>3, <1>4

LEMMA RegistryStarts == RegistryInit => RegistryInv
  <1>. SUFFICES ASSUME RegistryInit PROVE RegistryInv
    OBVIOUS
  <1>1. /\ Len(airport_rows) \in Nat /\ Len(ground_rows) \in Nat
    BY CatalogTypes DEF RegistryInit
  <1>2. GroundInv
    BY <1>1 DEF RegistryInit, GroundInv
  <1>3. AirportsInv
    BY <1>1 DEF RegistryInit, AirportsInv
  <1>4. Rows(destinations) = {}
    BY DEF RegistryInit, Rows
  <1>. QED
    BY <1>2, <1>3, <1>4 DEF RegistryInit, RegistryInv

LEMMA GroundRowIsRead ==
    ASSUME RegistryInv, ReadGroundRow
    PROVE  GroundInv'
  <1>. DEFINE n == Len(ground)
  <1>1. /\ n \in Nat /\ Len(ground_rows) \in Nat /\ n < Len(ground_rows)
        /\ DOMAIN ground = 1..n /\ DOMAIN ground_rows = 1..Len(ground_rows)
    BY CatalogTypes, ElementOfSeq DEF RegistryInv, GroundInv, ReadGroundRow, ReadingGround
  <1>2. /\ GroundRow \in Rows(ground_rows) /\ GroundRow = ground_rows[n + 1]
        /\ GroundRow.complete
        /\ GroundRow.to_airport \notin Codes(ground)
        /\ GroundRow.priority \notin Priorities(ground)
        /\ airport_rows # <<>>
    BY <1>1 DEF ReadGroundRow, ReadingGround, GroundRow, UsableGround, Rows
  <1>3. ground' = Append(ground, GroundRow) /\ UNCHANGED <<ground_rows, airport_rows>>
    BY DEF ReadGroundRow
  <1>4. ground \in Seq(Rows(ground_rows))
    BY DEF RegistryInv, GroundInv
  <1>5. /\ ground' \in Seq(Rows(ground_rows)) /\ Len(ground') = n + 1
        /\ \A i \in 1..(n + 1) : ground'[i] = IF i = n + 1 THEN GroundRow ELSE ground[i]
    BY <1>2, <1>3, <1>4, AppendedSeq
  <1>6. /\ \A i \in 1..n : ground[i] = ground_rows[i] /\ ground[i].complete
        /\ \A i, j \in 1..n :
             /\ ground[i].to_airport = ground[j].to_airport => i = j
             /\ ground[i].priority = ground[j].priority => i = j
    BY DEF RegistryInv, GroundInv
  <1>7. \A i \in 1..n : /\ ground[i].to_airport # GroundRow.to_airport
                        /\ ground[i].priority # GroundRow.priority
    BY <1>1, <1>2 DEF Codes, Priorities
  <1>. HIDE DEF n
  <1>8. \A i \in 1..(n + 1) : ground'[i] = ground_rows[i] /\ ground'[i].complete
    BY <1>1, <1>2, <1>5, <1>6
  <1>9. ASSUME NEW i \in 1..(n + 1), NEW j \in 1..(n + 1)
        PROVE  /\ ground'[i].to_airport = ground'[j].to_airport => i = j
               /\ ground'[i].priority = ground'[j].priority => i = j
    BY <1>1, <1>5, <1>6, <1>7
  <1>10. Len(ground') <= Len(ground_rows)
    BY <1>1, <1>5
  <1>. QED
    BY <1>2, <1>3, <1>5, <1>8, <1>9, <1>10 DEF GroundInv

LEMMA AirportRowIsRead ==
    ASSUME RegistryInv, ReadAirportRow
    PROVE  AirportsInv' /\ DestinationsInv'
  <1>. DEFINE n == Len(airports)
              code == AirportRow.iata
  <1>1. /\ n \in Nat /\ Len(airport_rows) \in Nat /\ n < Len(airport_rows)
        /\ DOMAIN airports = 1..n /\ DOMAIN airport_rows = 1..Len(airport_rows)
    BY CatalogTypes, ElementOfSeq
       DEF RegistryInv, AirportsInv, ReadAirportRow, ReadingAirports
  <1>2. /\ code \in Iatas /\ code = airport_rows[n + 1].iata
        /\ airport_rows[n + 1].complete
        /\ code \notin Known
    BY <1>1 DEF ReadAirportRow, AirportRow, UsableAirport, Iatas
  <1>3. /\ airports' = Append(airports, code)
        /\ destinations' = IF code \in Codes(ground)
                           THEN destinations ELSE Append(destinations, code)
        /\ UNCHANGED <<airport_rows, ground>> /\ Iatas' = Iatas
    BY DEF ReadAirportRow, Iatas
  <1>4. /\ airports \in Seq(Iatas)
        /\ \A i \in 1..n : airports[i] = airport_rows[i].iata /\ airport_rows[i].complete
        /\ \A i, j \in 1..n : airports[i] = airports[j] => i = j
    BY DEF RegistryInv, AirportsInv
  <1>5. DestinationsInv
    BY DEF RegistryInv, ReadAirportRow, ReadingAirports
  <1>. HIDE DEF code
  <1>6. /\ airports' \in Seq(Iatas) /\ Len(airports') = n + 1
        /\ \A i \in 1..(n + 1) : airports'[i] = IF i = n + 1 THEN code ELSE airports[i]
    BY <1>2, <1>3, <1>4, AppendedSeq
  <1>7. \A i \in 1..n : airports[i] # code
    BY <1>1, <1>2 DEF Known
  <1>8. Known' = Known \cup {code}
    BY <1>2, <1>3, <1>4, RowsOfAppend DEF Known, Rows
  <1>. HIDE DEF n
  <1>9. AirportsInv'
    <2>1. \A i \in 1..(n + 1) : airports'[i] = airport_rows[i].iata /\ airport_rows[i].complete
      BY <1>1, <1>2, <1>4, <1>6
    <2>2. \A i, j \in 1..(n + 1) : airports'[i] = airports'[j] => i = j
      BY <1>1, <1>4, <1>6, <1>7
    <2>3. n + 1 <= Len(airport_rows)
      BY <1>1
    <2>. QED
      BY <1>3, <1>6, <2>1, <2>2, <2>3 DEF AirportsInv
  <1>10. DestinationsInv'
    <2>1. CASE code \in Codes(ground)
      <3>1. destinations' = destinations
        BY <1>3, <2>1
      <3>2. Known' \ Codes(ground) = Known \ Codes(ground)
        BY <1>8, <2>1
      <3>. QED
        BY <1>3, <1>5, <3>1, <3>2 DEF DestinationsInv, Rows, Codes
    <2>2. CASE code \notin Codes(ground)
      <3>1. destinations' = Append(destinations, code) /\ destinations \in Seq(Iatas)
        BY <1>3, <1>5, <2>2 DEF DestinationsInv
      <3>2. Rows(destinations') = Rows(destinations) \cup {code}
        BY <1>2, <3>1, RowsOfAppend
      <3>3. /\ destinations' \in Seq(Iatas) /\ Len(destinations') = Len(destinations) + 1
            /\ \A i \in 1..(Len(destinations) + 1) : destinations'[i] =
                 IF i = Len(destinations) + 1 THEN code ELSE destinations[i]
            /\ Len(destinations) \in Nat /\ DOMAIN destinations = 1..Len(destinations)
        BY <1>2, <3>1, AppendedSeq, ElementOfSeq
      <3>4. DOMAIN destinations' = 1..(Len(destinations) + 1)
        BY <3>3, ElementOfSeq
      <3>5. \A i \in DOMAIN destinations : destinations[i] # code
        BY <1>2, <1>5 DEF DestinationsInv, Rows
      <3>6. \A i, j \in DOMAIN destinations' : destinations'[i] = destinations'[j] => i = j
        BY <1>5, <3>3, <3>4, <3>5 DEF DestinationsInv
      <3>7. Rows(destinations') = Known' \ Codes(ground)'
        <4>1. Codes(ground)' = Codes(ground)
          BY <1>3 DEF Codes
        <4>. QED
          BY <1>5, <1>8, <2>2, <3>2, <4>1 DEF DestinationsInv
      <3>8. DestinationsInv' = (/\ destinations' \in Seq(Iatas')
                                /\ Rows(destinations') = Known' \ Codes(ground)'
                                /\ \A i, j \in DOMAIN destinations' :
                                     destinations'[i] = destinations'[j] => i = j)
        BY DEF DestinationsInv, Rows
      <3>. QED
        BY <1>3, <3>3, <3>6, <3>7, <3>8
    <2>. QED
      BY <2>1, <2>2
  <1>. QED
    BY <1>9, <1>10

\* With priorities 1 to n there is an ordered list of the ground rows.
LEMMA OriginsAreSorted ==
    ASSUME NEW rows, NEW n \in Nat, DOMAIN rows = 1..n, Priorities(rows) = 1..n
    PROVE  /\ SortedByPriority(rows) \in [DOMAIN rows -> Rows(rows)]
           /\ \A i, j \in DOMAIN SortedByPriority(rows) :
                i < j => SortedByPriority(rows)[i].priority < SortedByPriority(rows)[j].priority
  <1>. DEFINE S == [i \in 1..n |-> CHOOSE r \in Rows(rows) : r.priority = i]
              IsSorted(s) == \A i, j \in DOMAIN s : i < j => s[i].priority < s[j].priority
  <1>1. \A i \in 1..n : \E r \in Rows(rows) : r.priority = i
    BY DEF Priorities, Rows
  <1>2. \A i \in 1..n : S[i] \in Rows(rows) /\ S[i].priority = i
    BY <1>1
  <1>3. S \in [DOMAIN rows -> Rows(rows)]
    BY <1>2
  <1>4. DOMAIN S = 1..n
    OBVIOUS
  <1>. HIDE DEF S
  <1>5. IsSorted(S)
    BY <1>2, <1>4
  <1>6. SortedByPriority(rows) = CHOOSE s \in [DOMAIN rows -> Rows(rows)] : IsSorted(s)
    BY DEF SortedByPriority
  <1>. HIDE DEF IsSorted
  <1>7. SortedByPriority(rows) \in [DOMAIN rows -> Rows(rows)] /\ IsSorted(SortedByPriority(rows))
    BY <1>3, <1>5, <1>6
  <1>. QED
    BY <1>7 DEF IsSorted
\* Of n rows with priorities 1 to n, no two have the same.
LEMMA RepeatedPriority ==
    ASSUME NEW rows, NEW n \in Nat, DOMAIN rows = 1..n,
           NEW i \in 1..n, NEW j \in 1..n, i # j, rows[i].priority = rows[j].priority
    PROVE  Priorities(rows) # 1..n
  <1>. SUFFICES ASSUME Priorities(rows) = 1..n PROVE FALSE
    OBVIOUS
  <1>. DEFINE S == (1..n) \ {j}
              row == [p \in 1..n |-> CHOOSE k \in S : rows[k].priority = p]
  <1>1. \A p \in 1..n : \E k \in S : rows[k].priority = p
    BY DEF Priorities
  <1>2. \A p \in 1..n : row[p] \in S /\ rows[row[p]].priority = p
    BY <1>1
  <1>3. row \in [1..n -> S]
    BY <1>2
  <1>4. IsFiniteSet(1..n) /\ Cardinality(1..n) = n
    BY FS_Interval
  <1>5. IsFiniteSet(S) /\ Cardinality(S) = n - 1
    BY <1>4, FS_RemoveElement
  <1>6. PICK p \in 1..n, q \in 1..n : p # q /\ row[p] = row[q]
    <2>. HIDE DEF S, row
    <2>. QED
      BY <1>3, <1>4, <1>5, FS_PigeonHole
  <1>. QED
    BY <1>2, <1>6

LEMMA RegistrySteps ==
    ASSUME RegistryInv, [RegistryNext]_registryVars
    PROVE  RegistryInv'
  <1>1. ASSUME UNCHANGED <<airport_rows, ground_rows, ground>>
        PROVE  /\ GroundInv' /\ Codes(ground)' = Codes(ground) /\ Iatas' = Iatas
               /\ Priorities(ground)' = Priorities(ground)
               /\ GroundDone' = GroundDone /\ SoundCatalogs' = SoundCatalogs
    BY <1>1 DEF RegistryInv, GroundInv, Codes, Iatas, Priorities, GroundDone, SoundCatalogs
  <1>2. ASSUME UNCHANGED <<airport_rows, ground_rows, ground, airports, destinations>>
        PROVE  /\ AirportsInv' /\ Known' = Known /\ DestinationsInv' = DestinationsInv
               /\ Rows(destinations)' = Rows(destinations)
    BY <1>1, <1>2 DEF RegistryInv, AirportsInv, Known, DestinationsInv, Rows
  <1>3. CASE ReadGroundRow
    <2>1. GroundInv'
      BY <1>3, GroundRowIsRead
    <2>2. /\ UNCHANGED <<airport_rows, ground_rows, catalog, airports, destinations>>
          /\ catalog = "ground"
      BY <1>3 DEF ReadGroundRow, ReadingGround
    <2>3. AirportsInv' /\ Known' = Known /\ Rows(destinations)' = Rows(destinations)
      BY <2>2 DEF RegistryInv, AirportsInv, Iatas, Known, Rows
    <2>. QED
      BY <2>1, <2>2, <2>3 DEF RegistryInv
  <1>4. CASE AcceptPriorities
    <2>1. /\ UNCHANGED <<airport_rows, ground_rows, ground, airports, destinations>>
          /\ catalog = "ground" /\ catalog' = "airports" /\ GroundDone
      BY <1>4 DEF AcceptPriorities, GroundRead, GroundDone
    <2>2. DestinationsInv
      <3>1. airports = <<>> /\ destinations = <<>>
        BY <2>1 DEF RegistryInv
      <3>2. Known = {} /\ Rows(destinations) = {} /\ destinations \in Seq(Iatas)
        BY <3>1 DEF Known, Rows
      <3>. QED
        BY <3>1, <3>2 DEF DestinationsInv
    <2>. QED
      BY <1>1, <1>2, <2>1, <2>2 DEF RegistryInv
  <1>5. CASE ReadAirportRow
    <2>1. /\ UNCHANGED <<airport_rows, ground_rows, catalog, ground>>
          /\ catalog = "airports"
      BY <1>5 DEF ReadAirportRow, ReadingAirports
    <2>2. AirportsInv' /\ DestinationsInv'
      BY <1>5, AirportRowIsRead
    <2>3. Rows(destinations)' \subseteq Known'
      BY <2>2 DEF DestinationsInv
    <2>. QED
      BY <1>1, <2>1, <2>2, <2>3 DEF RegistryInv
  <1>6. CASE MergeCatalogs
    <2>1. /\ UNCHANGED <<airport_rows, ground_rows, ground, airports, destinations>>
          /\ catalog = "airports" /\ catalog' = "merged"
          /\ Len(airports) = Len(airport_rows) /\ Codes(ground) \subseteq Known
          /\ origins' = SortedByPriority(ground)
      BY <1>6 DEF MergeCatalogs, AirportsRead
    <2>2. Len(ground) \in Nat /\ DOMAIN ground = 1..Len(ground)
      BY ElementOfSeq DEF RegistryInv, GroundInv
    <2>3. Priorities(ground) = 1..Len(ground)
      BY <2>1 DEF RegistryInv, GroundDone
    <2>4. /\ origins' \in [DOMAIN ground -> Rows(ground)]
          /\ \A i, j \in DOMAIN origins' : i < j => origins'[i].priority < origins'[j].priority
      BY <2>1, <2>2, <2>3, OriginsAreSorted
    <2>5. Merged'
      <3>1. Rows(ground)' = Rows(ground)
        BY <2>1
      <3>. QED
        BY <1>1, <1>2, <2>1, <2>4, <3>1 DEF Merged
    <2>. QED
      BY <1>1, <1>2, <2>1, <2>5 DEF RegistryInv
  <1>7. CASE UNCHANGED registryVars
    <2>1. Merged' = Merged
      BY <1>7 DEF registryVars, Merged, Codes, Known, Rows
    <2>. QED
      BY <1>1, <1>2, <1>7, <2>1 DEF registryVars, RegistryInv
  <1>8. ASSUME RefuseCatalog, ~SoundCatalogs
        PROVE  RegistryInv'
    BY <1>1, <1>2, <1>8 DEF RefuseCatalog, RegistryInv
  <1>9. /\ Len(airport_rows) \in Nat /\ DOMAIN airport_rows = 1..Len(airport_rows)
        /\ Len(ground_rows) \in Nat /\ DOMAIN ground_rows = 1..Len(ground_rows)
        /\ Len(ground) \in Nat /\ DOMAIN ground = 1..Len(ground)
        /\ Len(airports) \in Nat /\ DOMAIN airports = 1..Len(airports)
    BY CatalogTypes, ElementOfSeq DEF RegistryInv, GroundInv, AirportsInv
  <1>10. /\ \A i \in 1..Len(ground) : ground[i] = ground_rows[i]
         /\ \A i \in 1..Len(airports) : airports[i] = airport_rows[i].iata
    BY DEF RegistryInv, GroundInv, AirportsInv
  <1>11. CASE NoRows
    BY <1>8, <1>11 DEF NoRows, SoundCatalogs
  <1>12. CASE RefuseGroundRow
    <2>. DEFINE n == Len(ground)
    <2>1. n < Len(ground_rows) /\ n + 1 \in DOMAIN ground_rows /\ GroundRow = ground_rows[n + 1]
      BY <1>9, <1>12 DEF RefuseGroundRow, ReadingGround, GroundRow
    <2>2. CASE ~GroundRow.complete
      BY <1>8, <1>12, <2>1, <2>2 DEF RefuseGroundRow, SoundCatalogs
    <2>3. CASE GroundRow.to_airport \in Codes(ground)
      <3>1. PICK i \in 1..n : ground_rows[i].to_airport = GroundRow.to_airport
        BY <1>9, <1>10, <2>3 DEF Codes
      <3>2. i # n + 1 /\ i \in DOMAIN ground_rows
        BY <1>9, <2>1
      <3>3. ~SoundCatalogs
        BY <2>1, <3>1, <3>2 DEF SoundCatalogs
      <3>. QED
        BY <1>8, <1>12, <3>3 DEF RefuseGroundRow
    <2>4. CASE GroundRow.priority \in Priorities(ground)
      <3>1. PICK i \in 1..n : ground_rows[i].priority = GroundRow.priority
        BY <1>9, <1>10, <2>4 DEF Priorities
      <3>2. i # n + 1 /\ i \in DOMAIN ground_rows
        BY <1>9, <2>1
      <3>3. Priorities(ground_rows) # 1..Len(ground_rows)
        BY <1>9, <2>1, <3>1, <3>2, RepeatedPriority
      <3>. QED
        BY <1>8, <1>12, <3>3 DEF RefuseGroundRow, SoundCatalogs
    <2>. QED
      BY <1>12, <2>2, <2>3, <2>4 DEF RefuseGroundRow, UsableGround
  <1>13. CASE RefusePriorities
    <2>1. Len(ground) = Len(ground_rows) /\ Priorities(ground) # 1..Len(ground)
      BY <1>13 DEF RefusePriorities, GroundRead
    <2>2. Priorities(ground) = Priorities(ground_rows)
      BY <1>9, <1>10, <2>1 DEF Priorities
    <2>. QED
      BY <1>8, <1>13, <2>1, <2>2 DEF RefusePriorities, SoundCatalogs
  <1>14. CASE RefuseAirportRow
    <2>. DEFINE n == Len(airports)
    <2>1. /\ n < Len(airport_rows) /\ n + 1 \in DOMAIN airport_rows
          /\ AirportRow = airport_rows[n + 1]
      BY <1>9, <1>14 DEF RefuseAirportRow, ReadingAirports, AirportRow
    <2>2. CASE ~AirportRow.complete
      BY <1>8, <1>14, <2>1, <2>2 DEF RefuseAirportRow, SoundCatalogs
    <2>3. CASE AirportRow.iata \in Known
      <3>1. PICK i \in 1..n : airport_rows[i].iata = AirportRow.iata
        BY <1>9, <1>10, <2>3 DEF Known
      <3>2. i # n + 1 /\ i \in DOMAIN airport_rows
        BY <1>9, <2>1
      <3>3. ~SoundCatalogs
        BY <2>1, <3>1, <3>2 DEF SoundCatalogs
      <3>. QED
        BY <1>8, <1>14, <3>3 DEF RefuseAirportRow
    <2>. QED
      BY <1>14, <2>2, <2>3 DEF RefuseAirportRow, UsableAirport
  <1>15. CASE RefuseStrangers
    <2>1. Len(airports) = Len(airport_rows) /\ catalog = "airports" /\ ~(Codes(ground) \subseteq Known)
      BY <1>15 DEF RefuseStrangers, AirportsRead
    <2>2. Len(ground) = Len(ground_rows)
      BY <2>1 DEF RegistryInv, GroundDone
    <2>3. Codes(ground) = Codes(ground_rows)
      BY <1>9, <1>10, <2>2 DEF Codes
    <2>4. Known = {airport_rows[i].iata : i \in DOMAIN airport_rows}
      BY <1>9, <1>10, <2>1 DEF Known
    <2>. QED
      BY <1>8, <1>15, <2>1, <2>3, <2>4 DEF RefuseStrangers, SoundCatalogs
  <1>. QED
    BY <1>3, <1>4, <1>5, <1>6, <1>7, <1>11, <1>12, <1>13, <1>14, <1>15 DEF RegistryNext
\* Increasing values out of 1 to n at the places 1 to n are the places.
LEMMA IncreasingIsIdentity ==
    ASSUME NEW n \in Nat, NEW f \in [1..n -> 1..n],
           \A i, j \in 1..n : i < j => f[i] < f[j],
           NEW k \in 1..n
    PROVE  f[k] = k
  <1>1. ASSUME f[k] < k PROVE FALSE
    <2>. DEFINE S == 1..k
                T == 1..f[k]
                g == [i \in S |-> f[i]]
    <2>1. /\ IsFiniteSet(S) /\ Cardinality(S) = k
          /\ IsFiniteSet(T) /\ Cardinality(T) = f[k]
      BY FS_Interval
    <2>2. g \in [S -> T]
      <3>1. ASSUME NEW i \in S
            PROVE  f[i] \in 1..f[k]
        <4>1. i \in 1..n /\ f[i] \in 1..n /\ f[k] \in 1..n
          OBVIOUS
        <4>2. i = k \/ f[i] < f[k]
          BY <4>1
        <4>. QED
          BY <4>1, <4>2
      <3>. QED
        BY <3>1
    <2>3. \A i, j \in S : i # j => g[i] # g[j]
      OBVIOUS
    <2>. HIDE DEF S, T, g
    <2>. QED
      BY <1>1, <2>1, <2>2, <2>3, FS_PigeonHole
  <1>2. ASSUME f[k] > k PROVE FALSE
    <2>. DEFINE S == k..n
                T == f[k]..n
                g == [i \in S |-> f[i]]
    <2>1. /\ IsFiniteSet(S) /\ Cardinality(S) = n - k + 1
          /\ IsFiniteSet(T) /\ Cardinality(T) = n - f[k] + 1
      BY FS_Interval
    <2>2. g \in [S -> T]
      <3>1. ASSUME NEW i \in S
            PROVE  f[i] \in f[k]..n
        <4>1. i \in 1..n /\ f[i] \in 1..n /\ f[k] \in 1..n
          OBVIOUS
        <4>2. i = k \/ f[k] < f[i]
          BY <4>1
        <4>. QED
          BY <4>1, <4>2
      <3>. QED
        BY <3>1
    <2>3. \A i, j \in S : i # j => g[i] # g[j]
      OBVIOUS
    <2>4. Cardinality(T) < Cardinality(S)
      BY <1>2, <2>1
    <2>. HIDE DEF S, T, g
    <2>. QED
      BY <2>1, <2>2, <2>3, <2>4, FS_PigeonHole
  <1>. QED
    BY <1>1, <1>2

\* What the planner finds: the origin of priority i is the i-th, and there are
\* no origins but the rows of the file.
LEMMA OriginsAreTheRows ==
    ASSUME RegistryInv, catalog = "merged"
    PROVE  /\ Len(ground_rows) \in Nat /\ DOMAIN ground = 1..Len(ground_rows)
           /\ origins \in Seq(Rows(ground)) /\ Len(origins) = Len(ground_rows)
           /\ DOMAIN origins = 1..Len(origins)
           /\ \A i \in 1..Len(origins) : origins[i].priority = i
           /\ Rows(origins) = Rows(ground)
           /\ Rows(ground) = Rows(ground_rows)
           /\ Codes(ground) = Codes(ground_rows)
  <1>. DEFINE n == Len(ground_rows)
  <1>1. /\ n \in Nat /\ DOMAIN ground = 1..n /\ DOMAIN ground_rows = 1..n /\ Len(ground) = n
        /\ Priorities(ground) = 1..n
    BY CatalogTypes, ElementOfSeq DEF RegistryInv, GroundInv, GroundDone
  <1>2. /\ \A i \in 1..n : ground[i] = ground_rows[i]
        /\ \A i, j \in 1..n : ground[i].priority = ground[j].priority => i = j
    BY <1>1 DEF RegistryInv, GroundInv
  <1>3. /\ origins \in [1..n -> Rows(ground)]
        /\ \A i, j \in 1..n : i < j => origins[i].priority < origins[j].priority
    BY <1>1 DEF RegistryInv, Merged
  <1>. HIDE DEF n
  <1>4. origins \in Seq(Rows(ground)) /\ Len(origins) = n /\ DOMAIN origins = 1..n
    BY <1>1, <1>3
  <1>5. \A r \in Rows(ground) : r.priority \in 1..n
    BY <1>1 DEF Priorities, Rows
  <1>6. \A i \in 1..n : origins[i].priority = i
    <2>. DEFINE f == [i \in 1..n |-> origins[i].priority]
    <2>1. f \in [1..n -> 1..n] /\ \A i, j \in 1..n : i < j => f[i] < f[j]
      BY <1>3, <1>5
    <2>2. \A i \in 1..n : f[i] = origins[i].priority
      OBVIOUS
    <2>. HIDE DEF f
    <2>3. \A i \in 1..n : f[i] = i
      BY <1>1, <2>1, IncreasingIsIdentity
    <2>. QED
      BY <2>2, <2>3
  <1>7. Rows(origins) = Rows(ground)
    <2>1. Rows(origins) \subseteq Rows(ground)
      BY <1>3, <1>4 DEF Rows
    <2>2. ASSUME NEW r \in Rows(ground)
          PROVE  r \in Rows(origins)
      <3>1. PICK i \in 1..n : ground[i] = r
        BY <1>1 DEF Rows
      <3>2. r.priority \in 1..n
        BY <1>5
      <3>3. PICK j \in 1..n : ground[j] = origins[r.priority]
        BY <1>1, <1>3, <3>2 DEF Rows
      <3>4. ground[j].priority = ground[i].priority
        BY <1>6, <3>1, <3>2, <3>3
      <3>5. origins[r.priority] = r
        BY <1>2, <3>1, <3>3, <3>4
      <3>. QED
        BY <1>4, <3>2, <3>5 DEF Rows
    <2>. QED
      BY <2>1, <2>2
  <1>8. Rows(ground) = Rows(ground_rows) /\ Codes(ground) = Codes(ground_rows)
    BY <1>1, <1>2 DEF Rows, Codes
  <1>. QED
    BY <1>1, <1>4, <1>6, <1>7, <1>8 DEF n

LEMMA SoundOnceMerged ==
    ASSUME RegistryInv, catalog = "merged"
    PROVE  SoundCatalogs
  <1>1. /\ Len(airports) = Len(airport_rows) /\ Codes(ground) \subseteq Known
        /\ Len(ground) = Len(ground_rows) /\ ground # <<>> /\ airport_rows # <<>>
        /\ Priorities(ground) = 1..Len(ground)
    BY DEF RegistryInv, Merged, GroundDone, GroundInv
  <1>2. /\ Len(airport_rows) \in Nat /\ DOMAIN airport_rows = 1..Len(airport_rows)
        /\ Len(ground_rows) \in Nat /\ DOMAIN ground_rows = 1..Len(ground_rows)
        /\ DOMAIN ground = 1..Len(ground) /\ DOMAIN airports = 1..Len(airports)
    BY CatalogTypes, ElementOfSeq DEF RegistryInv, GroundInv, AirportsInv
  <1>3. /\ \A i \in 1..Len(ground_rows) : ground[i] = ground_rows[i] /\ ground[i].complete
        /\ \A i, j \in 1..Len(ground_rows) :
             ground[i].to_airport = ground[j].to_airport => i = j
    BY <1>1 DEF RegistryInv, GroundInv
  <1>4. /\ \A i \in 1..Len(airport_rows) : /\ airports[i] = airport_rows[i].iata
                                         /\ airport_rows[i].complete
        /\ \A i, j \in 1..Len(airport_rows) : airports[i] = airports[j] => i = j
    BY <1>1 DEF RegistryInv, AirportsInv
  <1>5. Priorities(ground_rows) = 1..Len(ground_rows) /\ Codes(ground_rows) = Codes(ground)
    BY <1>1, <1>2, <1>3 DEF Priorities, Codes
  <1>6. Known = {airport_rows[i].iata : i \in DOMAIN airport_rows}
    BY <1>1, <1>2, <1>4 DEF Known
  <1>7. ground_rows # <<>>
    <2>1. ground = <<>> \/ Len(ground) # 0
      BY DEF RegistryInv, GroundInv
    <2>. QED
      BY <1>1, <2>1
  <1>. QED
    BY <1>1, <1>2, <1>3, <1>4, <1>5, <1>6, <1>7 DEF SoundCatalogs

LEMMA RegistryIsJustified ==
    ASSUME RegistryInv
    PROVE  CatalogsAreRefusedForCause
  <1>1. CASE catalog = "merged"
    <2>1. Rows(destinations) = Known \ Codes(ground)
      BY <1>1 DEF RegistryInv, DestinationsInv
    <2>. QED
      BY <1>1, <2>1, OriginsAreTheRows, SoundOnceMerged DEF CatalogsAreRefusedForCause
  <1>2. CASE catalog # "merged"
    BY <1>2 DEF RegistryInv, CatalogsAreRefusedForCause
  <1>. QED
    BY <1>1, <1>2
-----------------------------------------------------------------------------
\* The plan.

\* The task of an origin, a destination and a mode.
TaskOf(origin, destination, mode, wave) ==
    [origin |-> origin.to_airport, destination |-> destination, max_stops |-> mode,
     priority |-> origin.priority, wave |-> wave]

\* The filter has looked at the first origins and kept those within the limit,
\* in their order.
FilterInv ==
    /\ plannable \in Seq(Rows(ground))
    /\ excluded \in Seq(Codes(ground))
    /\ Filtered <= Len(origins)
    /\ \A i \in 1..Len(plannable) : /\ WithinLimit(plannable[i])
                                    /\ plannable[i].priority <= Filtered
    /\ \A i, j \in 1..Len(plannable) :
         i < j => plannable[i].priority < plannable[j].priority
    /\ \A p \in 1..Filtered : WithinLimit(origins[p]) =>
         \E i \in 1..Len(plannable) : plannable[i] = origins[p]

\* The tasks are those of the origins planned so far, in order.
TasksInv ==
    /\ planned \in 0..Len(plannable)
    /\ tasks \in Seq(Tasks)
    /\ \A i \in 1..planned, d \in DOMAIN destinations, mode \in {0, 1} :
         \E k \in 1..Len(tasks) :
           tasks[k] = TaskOf(plannable[i], destinations[d], mode, WaveOf(plannable[i].priority))
    /\ \A k \in 1..Len(tasks) : \E i \in 1..planned, d \in DOMAIN destinations, mode \in {0, 1} :
         tasks[k] = TaskOf(plannable[i], destinations[d], mode, WaveOf(plannable[i].priority))
    /\ \A k, l \in 1..Len(tasks) : k < l => Before(tasks[k], tasks[l])

PlanInv ==
    /\ plan \in {"waiting", "filtering", "planning", "built", "refused"}
    /\ plan = "waiting" => plannable = <<>> /\ excluded = <<>>
    /\ plan \in {"waiting", "filtering"} => planned = 0 /\ tasks = <<>>
    /\ plan # "waiting" => Ready
    /\ plan \in {"filtering", "planning"} => request = Everything
    /\ plan \in {"filtering", "planning", "refused"} \/ (plan = "built" /\ request = Everything)
         => FilterInv /\ TasksInv
    /\ plan = "planning" \/ (plan = "built" /\ request = Everything)
         => Filtered = Len(origins)
    /\ plan = "built" /\ request = Everything => planned = Len(plannable)
    /\ plan = "built" /\ request # Everything =>
         /\ plannable = <<>> /\ planned = 0
         /\ \E g \in Rows(ground) : g.to_airport = request /\ tasks = DualMode(g, 0)

IInv == ConfigInv /\ RegistryInv /\ PlanInv

LEMMA Concatenated ==
    ASSUME NEW S, NEW s \in Seq(S), NEW t \in Seq(S)
    PROVE  /\ s \o t \in Seq(S)
           /\ Len(s \o t) = Len(s) + Len(t)
           /\ \A i \in 1..(Len(s) + Len(t)) :
                (s \o t)[i] = IF i <= Len(s) THEN s[i] ELSE t[i - Len(s)]
  <1>1. s \o t \in Seq(S) /\ Len(s \o t) = Len(s) + Len(t)
    OBVIOUS
  <1>2. ASSUME NEW i \in 1..(Len(s) + Len(t))
        PROVE  (s \o t)[i] = IF i <= Len(s) THEN s[i] ELSE t[i - Len(s)]
    OBVIOUS
  <1>. QED
    BY <1>1, <1>2

LEMMA RegistryIsReady ==
    ASSUME RegistryInv, Ready
    PROVE  /\ Len(destinations) \in Nat /\ DOMAIN destinations = 1..Len(destinations)
           /\ \A d \in DOMAIN destinations : destinations[d] \in Rows(destinations)
           /\ Rows(destinations) \cap Codes(ground) = {}
           /\ \A g \in Rows(ground) : g.to_airport \in Codes(ground) /\ g.priority \in Nat \ {0}
  <1>1. catalog = "merged"
    BY DEF Ready
  <1>2. destinations \in Seq(Iatas) /\ Rows(destinations) = Known \ Codes(ground)
    BY <1>1 DEF RegistryInv, DestinationsInv
  <1>3. Len(destinations) \in Nat /\ DOMAIN destinations = 1..Len(destinations)
    BY <1>2, ElementOfSeq
  <1>4. ASSUME NEW g \in Rows(ground)
        PROVE  g.to_airport \in Codes(ground) /\ g.priority \in Nat \ {0}
    <2>1. Len(ground) \in Nat /\ Priorities(ground) = 1..Len(ground)
      BY <1>1, ElementOfSeq DEF RegistryInv, GroundInv, GroundDone
    <2>2. g.to_airport \in Codes(ground) /\ g.priority \in Priorities(ground)
      BY DEF Rows, Codes, Priorities
    <2>. QED
      BY <2>1, <2>2
  <1>5. \A d \in DOMAIN destinations : destinations[d] \in Rows(destinations)
    BY DEF Rows
  <1>. QED
    BY <1>2, <1>3, <1>4, <1>5

LEMMA WaveType ==
    ASSUME NEW p \in Nat \ {0}
    PROVE  WaveOf(p) \in Nat
  BY DEF WaveOf

LEMMA TaskType ==
    ASSUME RegistryInv, Ready, NEW g \in Rows(ground), NEW d \in DOMAIN destinations,
           NEW mode \in {0, 1}, NEW wave \in Nat
    PROVE  TaskOf(g, destinations[d], mode, wave) \in Tasks
  <1>1. /\ g.to_airport \in Codes(ground) /\ g.priority \in Nat \ {0}
        /\ destinations[d] \in Rows(destinations)
    BY RegistryIsReady
  <1>. QED
    BY <1>1 DEF TaskOf, Tasks

\* The two modes of an origin, one after the other.
LEMMA DualModeTasks ==
    ASSUME RegistryInv, Ready, NEW g \in Rows(ground), NEW wave \in Nat
    PROVE  /\ DualMode(g, wave) \in Seq(Tasks)
           /\ \A d \in DOMAIN destinations, mode \in {0, 1} :
                \E k \in 1..Len(DualMode(g, wave)) :
                  DualMode(g, wave)[k] = TaskOf(g, destinations[d], mode, wave)
           /\ \A k \in 1..Len(DualMode(g, wave)) :
                \E d \in DOMAIN destinations, mode \in {0, 1} :
                  DualMode(g, wave)[k] = TaskOf(g, destinations[d], mode, wave)
           /\ \A k, l \in 1..Len(DualMode(g, wave)) :
                k < l => Before(DualMode(g, wave)[k], DualMode(g, wave)[l])
  <1>. DEFINE L == Len(destinations)
              Mode(m) == TasksForMode(g, m, wave)
              D == DualMode(g, wave)
  <1>1. L \in Nat /\ DOMAIN destinations = 1..L
    BY RegistryIsReady
  <1>2. ASSUME NEW m \in {0, 1}
        PROVE  /\ Mode(m) \in Seq(Tasks) /\ Len(Mode(m)) = L
               /\ \A d \in 1..L : Mode(m)[d] = TaskOf(g, destinations[d], m, wave)
    <2>1. Mode(m) = [d \in 1..L |-> TaskOf(g, destinations[d], m, wave)]
      BY <1>1 DEF TasksForMode, TaskOf
    <2>2. \A d \in 1..L : TaskOf(g, destinations[d], m, wave) \in Tasks
      BY <1>1, <1>2, TaskType
    <2>. HIDE DEF Mode, L
    <2>3. Mode(m) \in [1..L -> Tasks]
      BY <2>1, <2>2
    <2>4. Mode(m) \in Seq(Tasks) /\ Len(Mode(m)) = L
      BY <1>1, <2>3
    <2>. QED
      BY <2>1, <2>4
  <1>3. D = Mode(0) \o Mode(1)
    BY DEF DualMode
  <1>. HIDE DEF Mode, D, L
  <1>4. /\ D \in Seq(Tasks) /\ Len(D) = L + L
        /\ \A k \in 1..(L + L) : D[k] = IF k <= L THEN Mode(0)[k] ELSE Mode(1)[k - L]
    BY <1>2, <1>3, Concatenated
  <1>5. \A k \in 1..L : D[k] = TaskOf(g, destinations[k], 0, wave)
    <2>1. ASSUME NEW k \in 1..L
          PROVE  D[k] = Mode(0)[k]
      <3>1. k \in 1..(L + L) /\ k <= L
        BY <1>1
      <3>. QED
        BY <1>4, <3>1
    <2>. QED
      BY <1>2, <2>1
  <1>6. \A k \in 1..L : D[L + k] = TaskOf(g, destinations[k], 1, wave)
    <2>1. ASSUME NEW k \in 1..L
          PROVE  D[L + k] = Mode(1)[k]
      <3>1. L + k \in 1..(L + L) /\ ~(L + k <= L) /\ (L + k) - L = k
        BY <1>1
      <3>. QED
        BY <1>4, <3>1
    <2>. QED
      BY <1>2, <2>1
  <1>7. ASSUME NEW k \in 1..(L + L)
        PROVE  k \in 1..L \/ \E i \in 1..L : k = L + i
    <2>1. k \in 1..L \/ (k - L \in 1..L /\ k = L + (k - L))
      BY <1>1
    <2>. QED
      BY <2>1
  <1>8. ASSUME NEW d \in 1..L, NEW mode \in {0, 1}
        PROVE  \E k \in 1..(L + L) : D[k] = TaskOf(g, destinations[d], mode, wave)
    <2>1. d \in 1..(L + L) /\ L + d \in 1..(L + L)
      BY <1>1
    <2>. QED
      BY <1>5, <1>6, <2>1
  <1>9. ASSUME NEW k \in 1..(L + L)
        PROVE  \E d \in 1..L, mode \in {0, 1} : D[k] = TaskOf(g, destinations[d], mode, wave)
    BY <1>5, <1>6, <1>7
  <1>10. ASSUME NEW k \in 1..(L + L), NEW l \in 1..(L + L), k < l
         PROVE  Before(D[k], D[l])
    <2>1. ASSUME NEW i \in 1..L, NEW j \in 1..L, NEW m \in {0, 1}, NEW n \in {0, 1},
                 m < n \/ (m = n /\ i < j)
          PROVE  Before(TaskOf(g, destinations[i], m, wave), TaskOf(g, destinations[j], n, wave))
      BY <1>1, <2>1 DEF Before, TaskOf
    <2>2. CASE l \in 1..L
      <3>1. k \in 1..L
        BY <1>1, <1>10, <2>2
      <3>. QED
        BY <1>5, <1>10, <2>1, <2>2, <3>1
    <2>3. CASE l \notin 1..L
      <3>1. PICK j \in 1..L : l = L + j
        BY <1>7, <2>3
      <3>2. CASE k \in 1..L
        BY <1>5, <1>6, <2>1, <3>1, <3>2
      <3>3. CASE k \notin 1..L
        <4>1. PICK i \in 1..L : k = L + i
          BY <1>7, <3>3
        <4>2. i < j
          BY <1>1, <1>10, <3>1, <4>1
        <4>. QED
          BY <1>6, <2>1, <3>1, <4>1, <4>2
      <3>. QED
        BY <3>2, <3>3
    <2>. QED
      BY <2>2, <2>3
  <1>. QED
    BY <1>1, <1>4, <1>8, <1>9, <1>10 DEF D
LEMMA PlanStarts ==
    ASSUME Init
    PROVE  PlanInv
  <1>1. plan = "waiting" /\ plannable = <<>> /\ excluded = <<>> /\ planned = 0 /\ tasks = <<>>
    BY DEF Init
  <1>. QED
    BY <1>1 DEF PlanInv

\* Nothing is loaded or merged twice: a registry and settings that are there
\* stay as they are.
LEMMA ReadyIsFinal ==
    ASSUME Ready
    PROVE  ~ConfigNext /\ ~RegistryNext
  <1>1. ~ConfigNext
    BY DEF Ready, ConfigNext, ReadOverride, OverrideMissing, ParseVariable, RefuseVariable,
           Validate, RefuseTree, Parsing, Parsed
  <1>2. ~RegistryNext
    BY DEF Ready, RegistryNext, NoRows, ReadGroundRow, RefuseGroundRow, ReadingGround,
           AcceptPriorities, RefusePriorities, GroundRead, ReadAirportRow, RefuseAirportRow,
           ReadingAirports, MergeCatalogs, RefuseStrangers, AirportsRead
  <1>. QED
    BY <1>1, <1>2

LEMMA TermsAreFixed ==
    ASSUME UNCHANGED <<configVars, registryVars>>
    PROVE  /\ Ready' = Ready /\ Tasks' = Tasks
           /\ \A g, mode, wave : TasksForMode(g, mode, wave)' = TasksForMode(g, mode, wave)
           /\ \A g, wave : DualMode(g, wave)' = DualMode(g, wave)
           /\ \A g : WithinLimit(g)' = WithinLimit(g)
           /\ \A s, t : Before(s, t)' = Before(s, t)
           /\ Rows(ground)' = Rows(ground) /\ origins' = origins /\ destinations' = destinations
  <1>. USE DEF configVars, registryVars
  <1>1. Ready' = Ready
    BY DEF Ready
  <1>2. Rows(destinations)' = Rows(destinations) /\ Codes(ground)' = Codes(ground)
    BY DEF Rows, Codes
  <1>3. Tasks' = Tasks
    BY <1>2 DEF Tasks
  <1>4. \A g, mode, wave : TasksForMode(g, mode, wave)' = TasksForMode(g, mode, wave)
    BY DEF TasksForMode
  <1>5. \A g, wave : DualMode(g, wave)' = DualMode(g, wave)
    BY DEF DualMode, TasksForMode
  <1>6. \A g : WithinLimit(g)' = WithinLimit(g)
    BY DEF WithinLimit
  <1>7. \A s, t : Before(s, t)' = Before(s, t)
    BY DEF Before
  <1>. QED
    BY <1>1, <1>2, <1>3, <1>4, <1>5, <1>6, <1>7

LEMMA FilterInvIsFixed ==
    ASSUME UNCHANGED <<configVars, registryVars, plannable, excluded>>
    PROVE  FilterInv' = FilterInv
  BY TermsAreFixed DEF FilterInv, Filtered, WithinLimit, configVars, registryVars

LEMMA TasksInvIsFixed ==
    ASSUME UNCHANGED <<configVars, registryVars, plannable, planned, tasks>>
    PROVE  TasksInv' = TasksInv
  BY TermsAreFixed DEF TasksInv, Before, configVars, registryVars

LEMMA OriginIsFiltered ==
    ASSUME RegistryInv, PlanInv, FilterOrigin, UNCHANGED <<configVars, registryVars>>
    PROVE  FilterInv' /\ TasksInv'
  <1>. DEFINE n == Filtered
              origin == origins[n + 1]
  <1>1. FilterInv /\ TasksInv /\ Ready
    BY DEF PlanInv, FilterOrigin
  <1>2. /\ Len(origins) \in Nat /\ origins \in Seq(Rows(ground))
        /\ \A i \in 1..Len(origins) : origins[i].priority = i
    BY <1>1, OriginsAreTheRows DEF Ready
  <1>3. /\ plannable \in Seq(Rows(ground)) /\ excluded \in Seq(Codes(ground))
        /\ n \in Nat /\ n = Len(plannable) + Len(excluded)
        /\ Len(plannable) \in Nat /\ Len(excluded) \in Nat /\ n < Len(origins)
    BY <1>1, ElementOfSeq DEF FilterInv, FilterOrigin, Filtered
  <1>4. origin \in Rows(ground) /\ origin.priority = n + 1
    BY <1>2, <1>3, ElementOfSeq
  <1>5. /\ \A i \in 1..Len(plannable) : WithinLimit(plannable[i]) /\ plannable[i].priority <= n
        /\ \A i, j \in 1..Len(plannable) :
             i < j => plannable[i].priority < plannable[j].priority
        /\ \A p \in 1..n : WithinLimit(origins[p]) =>
             \E i \in 1..Len(plannable) : plannable[i] = origins[p]
    BY <1>1 DEF FilterInv
  <1>6. \A i \in 1..Len(plannable) : plannable[i].priority \in Nat
    BY <1>1, <1>3, ElementOfSeq, RegistryIsReady
  <1>7. planned = 0 /\ tasks = <<>> /\ UNCHANGED <<planned, tasks>>
    BY DEF FilterOrigin, PlanInv
  <1>8. /\ \A g : WithinLimit(g)' = WithinLimit(g)
        /\ Rows(ground)' = Rows(ground) /\ Codes(ground)' = Codes(ground) /\ origins' = origins
        /\ origin.to_airport \in Codes(ground)
    BY <1>1, <1>4, TermsAreFixed, RegistryIsReady DEF Codes, registryVars
  <1>. HIDE DEF n, origin
  <1>9. CASE WithinLimit(origin)
    <2>1. plannable' = Append(plannable, origin) /\ excluded' = excluded
      BY <1>9 DEF FilterOrigin, n, origin
    <2>2. /\ plannable' \in Seq(Rows(ground)) /\ Len(plannable') = Len(plannable) + 1
          /\ \A i \in 1..(Len(plannable) + 1) : plannable'[i] =
               IF i = Len(plannable) + 1 THEN origin ELSE plannable[i]
      BY <1>3, <1>4, <2>1, AppendedSeq
    <2>3. Filtered' = n + 1 /\ n + 1 <= Len(origins)
      BY <1>3, <2>1, <2>2 DEF Filtered
    <2>4. \A i \in 1..(Len(plannable) + 1) : /\ WithinLimit(plannable'[i])
                                             /\ plannable'[i].priority <= n + 1
      BY <1>3, <1>4, <1>5, <1>6, <1>9, <2>2
    <2>5. ASSUME NEW i \in 1..(Len(plannable) + 1), NEW j \in 1..(Len(plannable) + 1), i < j
          PROVE  plannable'[i].priority < plannable'[j].priority
      <3>1. i \in 1..Len(plannable) /\ plannable'[i] = plannable[i]
        BY <1>3, <2>2, <2>5
      <3>2. CASE j = Len(plannable) + 1
        <4>1. plannable'[j] = origin /\ plannable[i].priority <= n
          BY <1>5, <2>2, <3>1, <3>2
        <4>. QED
          BY <1>3, <1>4, <1>6, <3>1, <4>1
      <3>3. CASE j \in 1..Len(plannable)
        <4>1. plannable'[j] = plannable[j]
          BY <1>3, <2>2, <3>3
        <4>. QED
          BY <1>5, <2>5, <3>1, <3>3, <4>1
      <3>. QED
        BY <1>3, <3>2, <3>3
    <2>6. ASSUME NEW p \in 1..(n + 1), WithinLimit(origins[p])
          PROVE  \E i \in 1..(Len(plannable) + 1) : plannable'[i] = origins[p]
      <3>1. CASE p = n + 1
        BY <1>3, <2>2, <3>1 DEF origin
      <3>2. CASE p \in 1..n
        <4>1. PICK i \in 1..Len(plannable) : plannable[i] = origins[p]
          BY <1>5, <2>6, <3>2
        <4>2. i \in 1..(Len(plannable) + 1) /\ i # Len(plannable) + 1
          BY <1>3
        <4>. QED
          BY <2>2, <4>1, <4>2
      <3>. QED
        BY <1>3, <3>1, <3>2
    <2>7. FilterInv'
      BY <1>3, <1>8, <2>1, <2>2, <2>3, <2>4, <2>5, <2>6 DEF FilterInv, WithinLimit
    <2>8. TasksInv'
      BY <1>3, <1>7, <2>2 DEF TasksInv
    <2>. QED
      BY <2>7, <2>8
  <1>10. CASE ~WithinLimit(origin)
    <2>1. plannable' = plannable /\ excluded' = Append(excluded, origin.to_airport)
      BY <1>10 DEF FilterOrigin, n, origin
    <2>2. excluded' \in Seq(Codes(ground)) /\ Len(excluded') = Len(excluded) + 1
      BY <1>3, <1>8, <2>1, AppendedSeq
    <2>3. Filtered' = n + 1 /\ n + 1 <= Len(origins)
      BY <1>3, <2>1, <2>2 DEF Filtered
    <2>4. \A i \in 1..Len(plannable) : plannable[i].priority <= n + 1
      BY <1>3, <1>5, <1>6
    <2>5. ASSUME NEW p \in 1..(n + 1), WithinLimit(origins[p])
          PROVE  \E i \in 1..Len(plannable) : plannable[i] = origins[p]
      <3>1. p # n + 1
        BY <1>10, <2>5 DEF origin
      <3>2. p \in 1..n
        BY <1>3, <3>1
      <3>. QED
        BY <1>5, <2>5, <3>2
    <2>6. FilterInv'
      BY <1>3, <1>5, <1>8, <2>1, <2>2, <2>3, <2>4, <2>5 DEF FilterInv, WithinLimit
    <2>7. TasksInv'
      BY <1>3, <1>7, <2>1 DEF TasksInv
    <2>. QED
      BY <2>6, <2>7
  <1>. QED
    BY <1>9, <1>10
\* An origin's tasks come after those of the origins before it, which have
\* smaller priorities.
LEMMA OriginIsPlanned ==
    ASSUME RegistryInv, PlanInv, PlanOrigin, RequestsAreValid,
           UNCHANGED <<configVars, registryVars>>
    PROVE  TasksInv'
  <1>. DEFINE n == planned
              g == plannable[n + 1]
              wave == WaveOf(g.priority)
              D == DualMode(g, wave)
              T == Len(tasks)
  <1>1. FilterInv /\ TasksInv /\ Ready
    BY DEF PlanInv, PlanOrigin
  <1>2. /\ n \in Nat /\ Len(plannable) \in Nat /\ n < Len(plannable)
        /\ g \in Rows(ground)
        /\ \A i \in 1..Len(plannable) : plannable[i] \in Rows(ground)
    BY <1>1, ElementOfSeq DEF FilterInv, TasksInv, PlanOrigin
  <1>3. wave \in Nat
    BY <1>1, <1>2, RegistryIsReady, WaveType
  <1>4. /\ tasks' = tasks \o D /\ planned' = n + 1 /\ plannable' = plannable
        /\ destinations' = destinations
    BY DEF PlanOrigin, registryVars
  <1>5. /\ tasks \in Seq(Tasks) /\ T \in Nat
        /\ \A i \in 1..n, d \in DOMAIN destinations, mode \in {0, 1} :
             \E k \in 1..T :
               tasks[k] = TaskOf(plannable[i], destinations[d], mode, WaveOf(plannable[i].priority))
        /\ \A k \in 1..T : \E i \in 1..n, d \in DOMAIN destinations, mode \in {0, 1} :
             tasks[k] = TaskOf(plannable[i], destinations[d], mode, WaveOf(plannable[i].priority))
        /\ \A k, l \in 1..T : k < l => Before(tasks[k], tasks[l])
    BY <1>1, ElementOfSeq DEF TasksInv
  <1>6. /\ D \in Seq(Tasks) /\ Len(D) \in Nat
        /\ \A d \in DOMAIN destinations, mode \in {0, 1} :
             \E k \in 1..Len(D) : D[k] = TaskOf(g, destinations[d], mode, wave)
        /\ \A k \in 1..Len(D) : \E d \in DOMAIN destinations, mode \in {0, 1} :
             D[k] = TaskOf(g, destinations[d], mode, wave)
        /\ \A k, l \in 1..Len(D) : k < l => Before(D[k], D[l])
    BY <1>1, <1>2, <1>3, DualModeTasks, ElementOfSeq
  <1>7. /\ tasks' \in Seq(Tasks) /\ Len(tasks') = T + Len(D)
        /\ \A k \in 1..(T + Len(D)) : tasks'[k] = IF k <= T THEN tasks[k] ELSE D[k - T]
    BY <1>4, <1>5, <1>6, Concatenated
  <1>8. \A i \in 1..n : plannable[i].priority < g.priority
    BY <1>1, <1>2 DEF FilterInv
  <1>. HIDE DEF n, g, wave, D, T
  <1>9. ASSUME NEW k \in 1..T
        PROVE  k \in 1..(T + Len(D)) /\ tasks'[k] = tasks[k]
    <2>1. k \in 1..(T + Len(D)) /\ k <= T
      BY <1>5, <1>6
    <2>. QED
      BY <1>7, <2>1
  <1>10. ASSUME NEW k \in 1..Len(D)
         PROVE  T + k \in 1..(T + Len(D)) /\ tasks'[T + k] = D[k]
    <2>1. T + k \in 1..(T + Len(D)) /\ ~(T + k <= T) /\ (T + k) - T = k
      BY <1>5, <1>6
    <2>. QED
      BY <1>7, <2>1
  <1>11. ASSUME NEW k \in 1..(T + Len(D))
         PROVE  k \in 1..T \/ \E i \in 1..Len(D) : k = T + i
    <2>1. k \in 1..T \/ (k - T \in 1..Len(D) /\ k = T + (k - T))
      BY <1>5, <1>6
    <2>. QED
      BY <2>1
  <1>12. ASSUME NEW i \in 1..(n + 1), NEW d \in DOMAIN destinations, NEW mode \in {0, 1}
         PROVE  \E k \in 1..(T + Len(D)) : tasks'[k] =
                  TaskOf(plannable[i], destinations[d], mode, WaveOf(plannable[i].priority))
    <2>1. CASE i = n + 1
      <3>1. PICK k \in 1..Len(D) : D[k] = TaskOf(g, destinations[d], mode, wave)
        BY <1>6
      <3>. QED
        BY <1>10, <2>1, <3>1 DEF g, wave
    <2>2. CASE i \in 1..n
      <3>1. PICK k \in 1..T : tasks[k] =
              TaskOf(plannable[i], destinations[d], mode, WaveOf(plannable[i].priority))
        BY <1>5, <2>2
      <3>. QED
        BY <1>9, <3>1
    <2>. QED
      BY <1>2, <2>1, <2>2
  <1>13. ASSUME NEW k \in 1..(T + Len(D))
         PROVE  \E i \in 1..(n + 1), d \in DOMAIN destinations, mode \in {0, 1} :
                  tasks'[k] =
                    TaskOf(plannable[i], destinations[d], mode, WaveOf(plannable[i].priority))
    <2>1. CASE k \in 1..T
      <3>1. PICK i \in 1..n, d \in DOMAIN destinations, mode \in {0, 1} :
              tasks[k] = TaskOf(plannable[i], destinations[d], mode, WaveOf(plannable[i].priority))
        BY <1>5, <2>1
      <3>2. i \in 1..(n + 1)
        BY <1>2
      <3>. QED
        BY <1>9, <2>1, <3>1, <3>2
    <2>2. CASE k \notin 1..T
      <3>1. PICK j \in 1..Len(D) : k = T + j
        BY <1>11, <2>2
      <3>2. PICK d \in DOMAIN destinations, mode \in {0, 1} :
              D[j] = TaskOf(g, destinations[d], mode, wave)
        BY <1>6
      <3>3. n + 1 \in 1..(n + 1)
        BY <1>2
      <3>. QED
        BY <1>10, <3>1, <3>2, <3>3 DEF g, wave
    <2>. QED
      BY <2>1, <2>2
  <1>14. ASSUME NEW k \in 1..(T + Len(D)), NEW l \in 1..(T + Len(D)), k < l
         PROVE  Before(tasks'[k], tasks'[l])
    <2>1. CASE l \in 1..T
      <3>1. k \in 1..T
        BY <1>5, <1>14, <2>1
      <3>. QED
        BY <1>5, <1>9, <1>14, <2>1, <3>1
    <2>2. CASE l \notin 1..T
      <3>1. PICK j \in 1..Len(D) : l = T + j
        BY <1>11, <2>2
      <3>2. CASE k \in 1..T
        <4>1. PICK i \in 1..n, d \in DOMAIN destinations, mode \in {0, 1} :
                tasks[k] = TaskOf(plannable[i], destinations[d], mode, WaveOf(plannable[i].priority))
          BY <1>5, <3>2
        <4>2. PICK e \in DOMAIN destinations, m \in {0, 1} :
                D[j] = TaskOf(g, destinations[e], m, wave)
          BY <1>6
        <4>3. tasks[k].priority = plannable[i].priority /\ D[j].priority = g.priority
          BY <4>1, <4>2 DEF TaskOf
        <4>4. tasks'[k] = tasks[k] /\ tasks'[l] = D[j]
          BY <1>9, <1>10, <3>1, <3>2
        <4>5. tasks'[k].priority < tasks'[l].priority
          BY <1>8, <4>3, <4>4
        <4>. QED
          BY <4>5 DEF Before
      <3>3. CASE k \notin 1..T
        <4>1. PICK i \in 1..Len(D) : k = T + i
          BY <1>11, <3>3
        <4>2. i < j
          BY <1>5, <1>14, <3>1, <4>1
        <4>. QED
          BY <1>6, <1>10, <3>1, <4>1, <4>2
      <3>. QED
        BY <3>2, <3>3
    <2>. QED
      BY <2>1, <2>2
  <1>15. Tasks' = Tasks /\ \A s, t : Before(s, t)' = Before(s, t)
    BY TermsAreFixed
  <1>16. planned' \in 0..Len(plannable')
    BY <1>2, <1>4 DEF n
  <1>17. ASSUME NEW k \in 1..Len(tasks'), NEW l \in 1..Len(tasks'), k < l
         PROVE  Before(tasks[k], tasks[l])'
    <2>1. Before(tasks'[k], tasks'[l])
      BY <1>7, <1>14, <1>17
    <2>. QED
      BY <1>4, <2>1 DEF Before
  <1>18. ASSUME NEW i \in 1..planned', NEW d \in DOMAIN destinations', NEW mode \in {0, 1}
         PROVE  \E k \in 1..Len(tasks') : tasks'[k] =
                  TaskOf(plannable'[i], destinations'[d], mode, WaveOf(plannable'[i].priority))
    <2>1. i \in 1..(n + 1) /\ d \in DOMAIN destinations /\ Len(tasks') = T + Len(D)
      BY <1>4, <1>7
    <2>2. PICK k \in 1..(T + Len(D)) : tasks'[k] =
            TaskOf(plannable[i], destinations[d], mode, WaveOf(plannable[i].priority))
      BY <1>12, <2>1
    <2>. QED
      BY <1>4, <2>1, <2>2
  <1>19. \A k \in 1..Len(tasks') :
           \E i \in 1..planned', d \in DOMAIN destinations', mode \in {0, 1} : tasks'[k] =
             TaskOf(plannable'[i], destinations'[d], mode, WaveOf(plannable'[i].priority))
    BY <1>4, <1>7, <1>13
  <1>20. tasks' \in Seq(Tasks')
    BY <1>7, <1>15
  <1>. QED
    BY <1>16, <1>17, <1>18, <1>19, <1>20 DEF TasksInv
\* An empty plan, with what the refusals of a request leave behind.
LEMMA EmptyPlan ==
    ASSUME RegistryInv, Ready, plannable = <<>>, excluded = <<>>, planned = 0, tasks = <<>>
    PROVE  FilterInv /\ TasksInv
  <1>1. Len(origins) \in Nat
    BY OriginsAreTheRows DEF Ready
  <1>2. Filtered = 0
    BY DEF Filtered
  <1>3. FilterInv
    BY <1>1, <1>2 DEF FilterInv
  <1>4. TasksInv
    BY DEF TasksInv
  <1>. QED
    BY <1>3, <1>4

LEMMA PlanSteps ==
    ASSUME RegistryInv, PlanInv, PlanNext, UNCHANGED <<configVars, registryVars>>
    PROVE  PlanInv'
  <1>1. Ready' = Ready /\ Filtered' = Len(plannable') + Len(excluded')
    BY TermsAreFixed DEF Filtered
  <1>2. CASE PlanAll
    <2>1. /\ Ready /\ plannable = <<>> /\ excluded = <<>> /\ planned = 0 /\ tasks = <<>>
          /\ UNCHANGED <<plannable, excluded, planned, tasks, request>>
          /\ plan' = "filtering" /\ request = Everything
      BY <1>2 DEF PlanAll, PlanInv
    <2>2. FilterInv' /\ TasksInv'
      BY <2>1, EmptyPlan, FilterInvIsFixed, TasksInvIsFixed
    <2>. QED
      BY <1>1, <2>1, <2>2 DEF PlanInv
  <1>3. CASE FilterOrigin
    <2>1. FilterInv' /\ TasksInv'
      BY <1>3, OriginIsFiltered
    <2>2. plan = "filtering" /\ UNCHANGED <<request, plan, planned, tasks>>
      BY <1>3 DEF FilterOrigin
    <2>. QED
      BY <1>1, <2>1, <2>2 DEF PlanInv
  <1>4. CASE FilterDone
    <2>1. /\ plan = "filtering" /\ plan' = "planning" /\ Filtered = Len(origins)
          /\ UNCHANGED <<request, plannable, excluded, planned, tasks>>
      BY <1>4 DEF FilterDone
    <2>2. FilterInv' /\ TasksInv'
      BY <2>1, FilterInvIsFixed, TasksInvIsFixed DEF PlanInv
    <2>3. Filtered' = Len(origins')
      BY <2>1 DEF Filtered, registryVars
    <2>. QED
      BY <1>1, <2>1, <2>2, <2>3 DEF PlanInv
  <1>5. CASE PlanOrigin /\ RequestsAreValid
    <2>1. plan = "planning" /\ UNCHANGED <<request, plan, plannable, excluded>>
      BY <1>5 DEF PlanOrigin
    <2>2. FilterInv' /\ TasksInv'
      BY <1>5, <2>1, OriginIsPlanned, FilterInvIsFixed DEF PlanInv
    <2>3. Filtered' = Len(origins')
      BY <2>1 DEF PlanInv, Filtered, registryVars
    <2>. QED
      BY <1>1, <2>1, <2>2, <2>3 DEF PlanInv
  <1>6. CASE PlanDone
    <2>1. /\ plan = "planning" /\ plan' = "built" /\ planned = Len(plannable)
          /\ UNCHANGED <<request, plannable, excluded, planned, tasks>>
      BY <1>6 DEF PlanDone
    <2>2. FilterInv' /\ TasksInv'
      BY <2>1, FilterInvIsFixed, TasksInvIsFixed DEF PlanInv
    <2>3. Filtered' = Len(origins') /\ request = Everything
      BY <2>1 DEF PlanInv, Filtered, registryVars
    <2>. QED
      BY <1>1, <2>1, <2>2, <2>3 DEF PlanInv
  <1>7. CASE PlanSingle
    <2>1. /\ plan = "waiting" /\ plan' = "built" /\ request # Everything /\ Ready
          /\ UNCHANGED <<request, plannable, excluded, planned>>
          /\ plannable = <<>> /\ planned = 0
      BY <1>7 DEF PlanSingle, PlanInv
    <2>2. PICK i \in DOMAIN origins : /\ origins[i].to_airport = request
                                      /\ tasks' = DualMode(origins[i], 0)
      BY <1>7 DEF PlanSingle
    <2>3. origins[i] \in Rows(ground)
      <3>1. Rows(origins) = Rows(ground)
        BY <2>1, OriginsAreTheRows DEF Ready
      <3>. QED
        BY <3>1 DEF Rows
    <2>4. \E g \in Rows(ground)' : g.to_airport = request' /\ tasks' = DualMode(g, 0)'
      BY <2>1, <2>2, <2>3, TermsAreFixed
    <2>. QED
      BY <1>1, <2>1, <2>4 DEF PlanInv
  <1>8. CASE RefusePlan /\ plan # "built" /\ plan # "refused" /\ Ready
    <2>1. plan' = "refused" /\ UNCHANGED <<request, plannable, excluded, planned, tasks>>
      BY <1>8 DEF RefusePlan
    <2>2. FilterInv /\ TasksInv
      BY <1>8, EmptyPlan DEF PlanInv
    <2>3. FilterInv' /\ TasksInv'
      BY <2>1, <2>2, FilterInvIsFixed, TasksInvIsFixed
    <2>. QED
      BY <1>1, <1>8, <2>1, <2>3 DEF PlanInv
  <1>9. PlanOrigin /\ ~RequestsAreValid => RefusePlan /\ plan = "planning" /\ Ready
    BY DEF PlanOrigin, PlanInv
  <1>10. RefuseSingle => RefusePlan /\ plan = "waiting" /\ Ready
    BY DEF RefuseSingle
  <1>. QED
    BY <1>2, <1>3, <1>4, <1>5, <1>6, <1>7, <1>8, <1>9, <1>10 DEF PlanNext

\* The inductive invariant: the three parts, each disturbed by its own steps only.
THEOREM Invariance == Spec => []IInv
  <1>1. Init => IInv
    BY ConfigStarts, RegistryStarts, PlanStarts DEF Init, IInv
  <1>2. ASSUME IInv, [Next]_vars
        PROVE  IInv'
    <2>1. CASE ConfigNext /\ UNCHANGED <<registryVars, planVars>>
      <3>1. ConfigInv' /\ RegistryInv'
        BY <1>2, <2>1, ConfigSteps, RegistrySteps DEF IInv
      <3>2. plan = "waiting"
        BY <1>2, <2>1, ReadyIsFinal DEF IInv, PlanInv
      <3>3. PlanInv'
        BY <1>2, <2>1, <3>2 DEF IInv, PlanInv, planVars
      <3>. QED
        BY <3>1, <3>3 DEF IInv
    <2>2. CASE RegistryNext /\ UNCHANGED <<configVars, planVars>>
      <3>1. ConfigInv' /\ RegistryInv'
        BY <1>2, <2>2, ConfigSteps, RegistrySteps DEF IInv
      <3>2. plan = "waiting"
        BY <1>2, <2>2, ReadyIsFinal DEF IInv, PlanInv
      <3>3. PlanInv'
        BY <1>2, <2>2, <3>2 DEF IInv, PlanInv, planVars
      <3>. QED
        BY <3>1, <3>3 DEF IInv
    <2>3. CASE PlanNext /\ UNCHANGED <<configVars, registryVars>>
      BY <1>2, <2>3, ConfigSteps, RegistrySteps, PlanSteps DEF IInv
    <2>4. CASE UNCHANGED vars
      <3>1. UNCHANGED configVars /\ UNCHANGED registryVars /\ UNCHANGED planVars
        BY <2>4 DEF vars
      <3>2. ConfigInv' /\ RegistryInv'
        BY <1>2, <3>1, ConfigSteps, RegistrySteps DEF IInv
      <3>3. FilterInv' = FilterInv /\ TasksInv' = TasksInv
        BY <3>1, FilterInvIsFixed, TasksInvIsFixed DEF planVars
      <3>4. Ready' = Ready /\ Filtered' = Filtered /\ Rows(ground)' = Rows(ground)
            /\ \A g, wave : DualMode(g, wave)' = DualMode(g, wave)
        BY <3>1, TermsAreFixed DEF Filtered, planVars
      <3>5. PlanInv'
        BY <1>2, <3>1, <3>3, <3>4 DEF IInv, PlanInv, planVars, registryVars
      <3>. QED
        BY <3>2, <3>5 DEF IInv
    <2>. QED
      BY <1>2, <2>1, <2>2, <2>3, <2>4 DEF Next
  <1>. QED
    BY <1>1, <1>2, PTL DEF Spec

\* load_config: every field has the value of the highest layer that sets it, and
\* no leaf of a layer is ignored unless another took its place.
THEOREM LayersAreRespected == Spec => []SettingsFollowTheLayers
  <1>1. IInv => SettingsFollowTheLayers
    BY LoadedSettings DEF IInv
  <1>. QED
    BY <1>1, Invariance, PTL

\* The registry is built of two sound files and refused otherwise, whichever
\* row the fault is in; the origin of priority i is the i-th.
THEOREM CatalogsAreJudged == Spec => []CatalogsAreRefusedForCause
  <1>1. IInv => CatalogsAreRefusedForCause
    BY RegistryIsJustified DEF IInv
  <1>. QED
    BY <1>1, Invariance, PTL
LEMMA SettingsType ==
    ASSUME ConfigInv, config = "loaded"
    PROVE  settings \in [DOMAIN Schema -> Int]
  <1>1. \A p \in DOMAIN layer : layer[p] \in Values
    <2>1. ASSUME NEW p \in DOMAIN layer
          PROVE  layer[p] \in Values
      <3>1. PICK i \in 1..read : environment[i].value = layer[p]
        BY DEF ConfigInv, LeavesAreLast
      <3>2. i \in 1..Len(environment)
        BY EnvironmentType DEF ConfigInv
      <3>. QED
        BY <3>1, <3>2, EnvironmentType DEF ConfigInv
    <2>. QED
      BY <2>1
  <1>2. \A p \in DOMAIN merged : merged[p] \in Values
    <2>1. ASSUME NEW p \in DOMAIN merged
          PROVE  merged[p] \in Values
      <3>1. merged = LayersBelow /\ override \in Overrides
        BY DEF ConfigInv
      <3>2. \A q \in DOMAIN Defaults : Defaults[q] \in Values
        BY ConfigAssumption
      <3>3. \A q \in DOMAIN override.tree : override.tree[q] \in Values
        BY <3>1, ConfigAssumption
      <3>4. CASE override.found = "read"
        BY <2>1, <3>1, <3>2, <3>3, <3>4, MergeDomain DEF LayersBelow
      <3>5. CASE override.found # "read"
        BY <2>1, <3>1, <3>2, <3>5 DEF LayersBelow
      <3>. QED
        BY <3>4, <3>5
    <2>. QED
      BY <2>1
  <1>3. \A p \in DOMAIN Tree : Tree[p] \in Values
    BY <1>1, <1>2, MergeDomain DEF Tree
  <1>4. settings = [p \in DOMAIN Schema |-> Tree[p].n] /\ DOMAIN Tree = DOMAIN Schema
    BY DEF ConfigInv, ValidTree
  <1>. QED
    BY <1>3, <1>4 DEF Values

\* Every variable keeps to its range, and every task is about an origin and a
\* destination of the registry.
THEOREM TypeCorrect == Spec => []TypeOK
  <1>1. ASSUME IInv
        PROVE  TypeOK
    <2>1. /\ config \in {"start", "environment", "loaded", "refused"}
          /\ read \in 0..Len(environment)
          /\ config = "loaded" => settings \in [DOMAIN Schema -> Int]
      BY <1>1, SettingsType DEF IInv, ConfigInv
    <2>2. /\ catalog \in {"ground", "airports", "merged", "refused"}
          /\ Len(ground) <= Len(ground_rows) /\ Len(airports) <= Len(airport_rows)
          /\ Rows(destinations) \subseteq Known
      BY <1>1 DEF IInv, RegistryInv, GroundInv, AirportsInv
    <2>3. Rows(ground) \subseteq Rows(ground_rows)
      <3>1. ground \in Seq(Rows(ground_rows))
        BY <1>1 DEF IInv, RegistryInv, GroundInv
      <3>. QED
        BY <3>1, ElementOfSeq DEF Rows
    <2>4. /\ plan \in {"waiting", "filtering", "planning", "built", "refused"}
          /\ plan # "waiting" => Ready
      BY <1>1 DEF IInv, PlanInv
    <2>5. /\ Rows(plannable) \subseteq Rows(origins)
          /\ planned \in 0..Len(plannable)
          /\ Rows(tasks) \subseteq Tasks
      <3>1. CASE plan = "waiting"
        BY <1>1, <3>1 DEF IInv, PlanInv, Rows
      <3>2. CASE plan # "waiting" /\ ~(plan = "built" /\ request # Everything)
        <4>1. FilterInv /\ TasksInv /\ catalog = "merged"
          BY <1>1, <3>2 DEF IInv, PlanInv, Ready
        <4>2. Rows(origins) = Rows(ground)
          BY <1>1, <4>1, OriginsAreTheRows DEF IInv
        <4>3. Rows(plannable) \subseteq Rows(ground)
          <5>1. plannable \in Seq(Rows(ground))
            BY <4>1 DEF FilterInv
          <5>. QED
            BY <5>1, ElementOfSeq DEF Rows
        <4>4. tasks \in Seq(Tasks) /\ planned \in 0..Len(plannable)
          BY <4>1 DEF TasksInv
        <4>5. Rows(tasks) \subseteq Tasks
          BY <4>4, ElementOfSeq DEF Rows
        <4>. QED
          BY <4>2, <4>3, <4>4, <4>5
      <3>3. CASE plan = "built" /\ request # Everything
        <4>1. plannable = <<>> /\ planned = 0 /\ Ready
          BY <1>1, <3>3 DEF IInv, PlanInv
        <4>2. PICK g \in Rows(ground) : tasks = DualMode(g, 0)
          BY <1>1, <3>3 DEF IInv, PlanInv
        <4>3. tasks \in Seq(Tasks)
          BY <1>1, <4>1, <4>2, DualModeTasks DEF IInv
        <4>4. Rows(tasks) \subseteq Tasks
          BY <4>3, ElementOfSeq DEF Rows
        <4>. QED
          BY <4>1, <4>4 DEF Rows
      <3>. QED
        BY <3>1, <3>2, <3>3
    <2>. QED
      BY <2>1, <2>2, <2>3, <2>4, <2>5 DEF TypeOK
  <1>. QED
    BY <1>1, Invariance, PTL

\* The plan of all origins.
LEMMA FullPlan ==
    ASSUME IInv, plan = "built", request = Everything
    PROVE  PlanCoversEveryPair
  <1>. DEFINE n == Len(plannable)
  <1>1. FilterInv /\ TasksInv /\ Ready /\ Filtered = Len(origins) /\ planned = n
        /\ RegistryInv /\ catalog = "merged"
    BY DEF IInv, PlanInv, Ready
  <1>2. /\ Len(origins) \in Nat /\ DOMAIN origins = 1..Len(origins)
        /\ Rows(origins) = Rows(ground)
    BY <1>1, OriginsAreTheRows
  <1>3. /\ n \in Nat /\ \A i \in 1..n : plannable[i] \in Rows(ground)
        /\ \A i \in 1..n : WithinLimit(plannable[i])
        /\ \A p \in 1..Len(origins) : WithinLimit(origins[p]) =>
             \E i \in 1..n : plannable[i] = origins[p]
    BY <1>1, ElementOfSeq DEF FilterInv
  <1>4. /\ tasks \in Seq(Tasks) /\ Len(tasks) \in Nat /\ DOMAIN tasks = 1..Len(tasks)
        /\ \A i \in 1..n, d \in DOMAIN destinations, mode \in {0, 1} :
             \E k \in 1..Len(tasks) : tasks[k] =
               TaskOf(plannable[i], destinations[d], mode, WaveOf(plannable[i].priority))
        /\ \A k \in 1..Len(tasks) :
             \E i \in 1..n, d \in DOMAIN destinations, mode \in {0, 1} : tasks[k] =
               TaskOf(plannable[i], destinations[d], mode, WaveOf(plannable[i].priority))
        /\ \A k, l \in 1..Len(tasks) : k < l => Before(tasks[k], tasks[l])
    BY <1>1, ElementOfSeq DEF TasksInv
  <1>. HIDE DEF n
  <1>5. ASSUME NEW g \in Wanted, NEW d \in Rows(destinations), NEW mode \in {0, 1}
        PROVE  \E k \in DOMAIN tasks :
                 /\ tasks[k].origin = g.to_airport /\ tasks[k].priority = g.priority
                 /\ tasks[k].destination = d /\ tasks[k].max_stops = mode
    <2>1. g \in Rows(ground) /\ WithinLimit(g)
      BY DEF Wanted, WithinLimit
    <2>2. PICK p \in 1..Len(origins) : origins[p] = g
      BY <1>2, <2>1 DEF Rows
    <2>3. PICK i \in 1..n : plannable[i] = g
      BY <1>3, <2>1, <2>2
    <2>4. PICK j \in DOMAIN destinations : destinations[j] = d
      BY DEF Rows
    <2>5. PICK k \in 1..Len(tasks) : tasks[k] =
            TaskOf(plannable[i], destinations[j], mode, WaveOf(plannable[i].priority))
      BY <1>4
    <2>. QED
      BY <1>4, <2>3, <2>4, <2>5 DEF TaskOf
  <1>6. ASSUME NEW k \in DOMAIN tasks
        PROVE  /\ \E g \in Wanted : tasks[k].origin = g.to_airport
               /\ tasks[k].priority \in Nat \ {0} /\ tasks[k].wave = WaveOf(tasks[k].priority)
               /\ tasks[k].origin # tasks[k].destination
    <2>1. PICK i \in 1..n, d \in DOMAIN destinations, mode \in {0, 1} : tasks[k] =
            TaskOf(plannable[i], destinations[d], mode, WaveOf(plannable[i].priority))
      BY <1>4
    <2>2. plannable[i] \in Wanted /\ plannable[i] \in Rows(ground)
      BY <1>3 DEF Wanted, WithinLimit
    <2>3. /\ tasks[k].origin = plannable[i].to_airport
          /\ tasks[k].priority = plannable[i].priority
          /\ tasks[k].wave = WaveOf(plannable[i].priority)
          /\ tasks[k].destination = destinations[d]
      BY <2>1 DEF TaskOf
    <2>4. /\ plannable[i].to_airport \in Codes(ground) /\ plannable[i].priority \in Nat \ {0}
          /\ destinations[d] \in Rows(destinations)
          /\ Rows(destinations) \cap Codes(ground) = {}
      BY <1>1, <2>2, RegistryIsReady
    <2>. QED
      BY <2>2, <2>3, <2>4
  <1>7. ASSUME NEW k \in DOMAIN tasks, NEW l \in DOMAIN tasks, k < l
        PROVE  Before(tasks[k], tasks[l]) /\ tasks[k].wave <= tasks[l].wave
    <2>1. Before(tasks[k], tasks[l])
      BY <1>4, <1>7
    <2>2. tasks[k].priority <= tasks[l].priority
      BY <1>6, <2>1 DEF Before
    <2>. QED
      BY <1>6, <2>1, <2>2 DEF WaveOf
  <1>. QED
    BY <1>5, <1>6, <1>7 DEF PlanCoversEveryPair

\* For any registry and limit: a plan of all origins holds every origin within the
\* limit, destination and mode once, in order, and nothing else.
THEOREM PlansAreComplete == Spec => []PlanCoversEveryPair
  <1>1. IInv => PlanCoversEveryPair
    BY FullPlan DEF PlanCoversEveryPair
  <1>. QED
    BY <1>1, Invariance, PTL

\* With --all-origins no task ever starts beyond the limit, whatever the registry
\* and the setting: the single-origin planner is the only way around the filter.
THEOREM FilterIsHard == Spec => [](request = Everything => NoTaskBeyondTheLimit)
  <1>1. ASSUME IInv, request = Everything, NEW k \in DOMAIN tasks
        PROVE  \E g \in Wanted : tasks[k].origin = g.to_airport
    <2>1. CASE plan \in {"waiting", "filtering"}
      <3>1. tasks = <<>>
        BY <1>1, <2>1 DEF IInv, PlanInv
      <3>2. DOMAIN tasks = {}
        BY <3>1
      <3>. QED
        BY <1>1, <3>2
    <2>2. CASE plan \notin {"waiting", "filtering"}
      <3>1. FilterInv /\ TasksInv
        BY <1>1, <2>2 DEF IInv, PlanInv
      <3>2. PICK i \in 1..planned, d \in DOMAIN destinations, mode \in {0, 1} :
              tasks[k] = TaskOf(plannable[i], destinations[d], mode, WaveOf(plannable[i].priority))
        BY <1>1, <3>1, ElementOfSeq DEF TasksInv
      <3>3. i \in 1..Len(plannable) /\ Len(plannable) \in Nat
        BY <3>1, ElementOfSeq DEF TasksInv, FilterInv
      <3>4. plannable[i] \in Wanted
        BY <3>1, <3>3, ElementOfSeq DEF FilterInv, Wanted, WithinLimit
      <3>. QED
        BY <3>2, <3>4 DEF TaskOf
    <2>. QED
      BY <2>1, <2>2
  <1>2. IInv => (request = Everything => NoTaskBeyondTheLimit)
    BY <1>1 DEF NoTaskBeyondTheLimit
  <1>. QED
    BY <1>2, Invariance, PTL

-----------------------------------------------------------------------------
\* The places of the tasks in the tuple.

\* The tasks of one origin, and what the j-th of them is.
TasksPerOrigin == Len(destinations) + Len(destinations)

IsNth(t, origin, j) ==
    LET L == Len(destinations)
    IN  /\ t.origin = origin.to_airport
        /\ t.destination = destinations[IF j <= L THEN j ELSE j - L]
        /\ t.max_stops = IF j <= L THEN 0 ELSE 1

\* The first n of the chosen origins have their tasks, one block after the other.
Numbered(chosen, n) ==
    /\ Len(tasks) = n * TasksPerOrigin
    /\ \A i \in 1..n, j \in 1..TasksPerOrigin :
         IsNth(tasks[(i - 1) * TasksPerOrigin + j], chosen[i], j)

NumberedInv ==
    plan \in {"filtering", "planning"} \/ (plan = "built" /\ request = Everything)
      => Numbered(plannable, planned)

\* The j-th task of an origin's block.
LEMMA DualModeNth ==
    ASSUME RegistryInv, Ready, NEW g \in Rows(ground), NEW wave \in Nat
    PROVE  /\ DualMode(g, wave) \in Seq(Tasks)
           /\ Len(DualMode(g, wave)) = TasksPerOrigin /\ TasksPerOrigin \in Nat
           /\ \A j \in 1..TasksPerOrigin : IsNth(DualMode(g, wave)[j], g, j)
  <1>. DEFINE L == Len(destinations)
              Mode(m) == TasksForMode(g, m, wave)
              D == DualMode(g, wave)
  <1>0. D \in Seq(Tasks)
    BY DualModeTasks
  <1>1. L \in Nat /\ DOMAIN destinations = 1..L
    BY RegistryIsReady
  <1>2. ASSUME NEW m \in {0, 1}
        PROVE  /\ Mode(m) \in Seq(Tasks) /\ Len(Mode(m)) = L
               /\ \A d \in 1..L : Mode(m)[d] = TaskOf(g, destinations[d], m, wave)
    <2>1. Mode(m) = [d \in 1..L |-> TaskOf(g, destinations[d], m, wave)]
      BY <1>1 DEF TasksForMode, TaskOf
    <2>2. \A d \in 1..L : TaskOf(g, destinations[d], m, wave) \in Tasks
      BY <1>1, <1>2, TaskType
    <2>. HIDE DEF Mode, L
    <2>3. Mode(m) \in [1..L -> Tasks]
      BY <2>1, <2>2
    <2>4. Mode(m) \in Seq(Tasks) /\ Len(Mode(m)) = L
      BY <1>1, <2>3
    <2>. QED
      BY <2>1, <2>4
  <1>3. D = Mode(0) \o Mode(1)
    BY DEF DualMode
  <1>. HIDE DEF Mode, D
  <1>4. /\ Len(D) = L + L
        /\ \A k \in 1..(L + L) : D[k] = IF k <= L THEN Mode(0)[k] ELSE Mode(1)[k - L]
    <2>. HIDE DEF L
    <2>1. /\ Mode(0) \in Seq(Tasks) /\ Mode(1) \in Seq(Tasks)
          /\ Len(Mode(0)) = L /\ Len(Mode(1)) = L
      BY <1>2
    <2>2. /\ Len(Mode(0) \o Mode(1)) = Len(Mode(0)) + Len(Mode(1))
          /\ \A k \in 1..(Len(Mode(0)) + Len(Mode(1))) :
               (Mode(0) \o Mode(1))[k] = IF k <= Len(Mode(0)) THEN Mode(0)[k]
                                         ELSE Mode(1)[k - Len(Mode(0))]
      BY <2>1, Concatenated
    <2>. QED
      BY <1>3, <2>1, <2>2
  <1>5. ASSUME NEW j \in 1..(L + L)
        PROVE  IsNth(D[j], g, j)
    <2>1. CASE j <= L
      <3>1. D[j] = TaskOf(g, destinations[j], 0, wave)
        BY <1>1, <1>2, <1>4, <2>1
      <3>. QED
        BY <2>1, <3>1 DEF IsNth, TaskOf
    <2>2. CASE ~(j <= L)
      <3>1. j - L \in 1..L
        BY <1>1, <2>2
      <3>2. D[j] = TaskOf(g, destinations[j - L], 1, wave)
        BY <1>1, <1>2, <1>4, <2>2, <3>1
      <3>. QED
        BY <2>2, <3>2 DEF IsNth, TaskOf
    <2>. QED
      BY <2>1, <2>2
  <1>. QED
    BY <1>0, <1>1, <1>4, <1>5 DEF TasksPerOrigin, D

\* Where a block lies.
LEMMA BlockWithin ==
    ASSUME NEW T \in Nat, NEW n \in Nat, NEW i \in 1..n, NEW j \in 1..T
    PROVE  /\ (i - 1) * T + j \in 1..(n * T)
           /\ n * T + j \notin 1..(n * T)
           /\ (n + 1) * T = n * T + T
  <1>1. (n - i) * T \in Nat /\ (i - 1) * T \in Nat /\ n * T \in Nat
    OBVIOUS
  <1>2. n * T = (i - 1) * T + (n - i) * T + T
    OBVIOUS
  <1>3. (n + 1) * T = n * T + T
    OBVIOUS
  <1>. QED
    BY <1>1, <1>2, <1>3

\* A round of build_multi_origin_plan adds the block of its origin.
LEMMA BlockIsAdded ==
    ASSUME RegistryInv, PlanInv, PlanOrigin, RequestsAreValid, Numbered(plannable, planned),
           UNCHANGED <<configVars, registryVars>>
    PROVE  Numbered(plannable, planned)'
  <1>. DEFINE n == planned
              g == plannable[n + 1]
              wave == WaveOf(g.priority)
              D == DualMode(g, wave)
              T == TasksPerOrigin
  <1>1. FilterInv /\ TasksInv /\ Ready
    BY DEF PlanInv, PlanOrigin
  <1>2. /\ n \in Nat /\ Len(plannable) \in Nat /\ n < Len(plannable)
        /\ g \in Rows(ground)
    BY <1>1, ElementOfSeq DEF FilterInv, TasksInv, PlanOrigin
  <1>3. wave \in Nat
    BY <1>1, <1>2, RegistryIsReady, WaveType
  <1>4. /\ tasks' = tasks \o D /\ planned' = n + 1 /\ plannable' = plannable
        /\ destinations' = destinations /\ TasksPerOrigin' = T
    BY DEF PlanOrigin, registryVars, TasksPerOrigin
  <1>5. /\ D \in Seq(Tasks) /\ Len(D) = T /\ T \in Nat
        /\ \A j \in 1..T : IsNth(D[j], g, j)
    BY <1>1, <1>2, <1>3, DualModeNth
  <1>6. tasks \in Seq(Tasks) /\ Len(tasks) = n * T
    BY <1>1 DEF TasksInv, Numbered
  <1>7. \A i \in 1..n, j \in 1..T : IsNth(tasks[(i - 1) * T + j], plannable[i], j)
    BY DEF Numbered
  <1>8. \A t, o, j : IsNth(t, o, j)' = IsNth(t, o, j)
    BY <1>4 DEF IsNth
  <1>. HIDE DEF n, g, wave, D, T
  <1>9. n * T \in Nat /\ (n + 1) * T = n * T + T
    BY <1>2, <1>5
  <1>10. /\ Len(tasks') = n * T + T
         /\ \A k \in 1..(n * T + T) : tasks'[k] = IF k <= n * T THEN tasks[k] ELSE D[k - n * T]
    <2>1. /\ Len(tasks \o D) = Len(tasks) + Len(D)
          /\ \A k \in 1..(Len(tasks) + Len(D)) :
               (tasks \o D)[k] = IF k <= Len(tasks) THEN tasks[k] ELSE D[k - Len(tasks)]
      BY <1>5, <1>6, Concatenated
    <2>2. Len(tasks) = n * T /\ Len(D) = T /\ tasks' = tasks \o D
      BY <1>4, <1>5, <1>6
    <2>. QED
      BY <2>1, <2>2
  <1>11. ASSUME NEW i \in 1..(n + 1), NEW j \in 1..T
         PROVE  IsNth(tasks'[(i - 1) * T + j], plannable[i], j)
    <2>1. CASE i \in 1..n
      <3>1. (i - 1) * T + j \in 1..(n * T)
        BY <1>2, <1>5, <2>1, BlockWithin
      <3>2. tasks'[(i - 1) * T + j] = tasks[(i - 1) * T + j]
        BY <1>5, <1>9, <1>10, <3>1
      <3>. QED
        BY <1>7, <2>1, <3>2
    <2>2. CASE i = n + 1
      <3>1. (i - 1) * T + j = n * T + j
        BY <1>2, <2>2
      <3>2. /\ n * T + j \in 1..(n * T + T) /\ ~(n * T + j <= n * T)
            /\ (n * T + j) - n * T = j
        BY <1>5, <1>9
      <3>3. tasks'[(i - 1) * T + j] = D[j]
        BY <1>10, <3>1, <3>2
      <3>. QED
        BY <1>5, <2>2, <3>3 DEF g
    <2>. QED
      BY <1>2, <2>1, <2>2
  <1>12. Len(tasks') = (n + 1) * T
    BY <1>9, <1>10
  <1>. QED
    BY <1>4, <1>8, <1>11, <1>12 DEF Numbered

\* Every other step leaves the blocks alone.
LEMMA NumberedSteps ==
    ASSUME IInv, NumberedInv, [Next]_vars
    PROVE  NumberedInv'
  <1>1. CASE ConfigNext \/ RegistryNext
    <2>1. plan = "waiting"
      BY <1>1, ReadyIsFinal DEF IInv, PlanInv
    <2>2. UNCHANGED plan
      BY <1>1, <2>1, ReadyIsFinal DEF Next, vars, planVars, PlanNext, PlanAll, FilterOrigin,
           FilterDone, PlanOrigin, PlanDone, PlanSingle, RefuseSingle
    <2>. QED
      BY <2>1, <2>2 DEF NumberedInv
  <1>s. ASSUME UNCHANGED <<configVars, registryVars>>,
               UNCHANGED <<plannable, planned, tasks>> \/ (planned = 0 /\ UNCHANGED <<planned, tasks>>)
        PROVE  Numbered(plannable, planned) => Numbered(plannable, planned)'
    <2>1. destinations' = destinations
      BY <1>s DEF registryVars
    <2>2. TasksPerOrigin' = TasksPerOrigin /\ \A t, o, j : IsNth(t, o, j)' = IsNth(t, o, j)
      BY <2>1 DEF TasksPerOrigin, IsNth
    <2>. QED
      BY <1>s, <2>2 DEF Numbered
  <1>2. CASE PlanNext /\ UNCHANGED <<configVars, registryVars>>
    <2>0. RegistryInv /\ PlanInv
      BY DEF IInv
    <2>1. CASE PlanAll
      <3>1. planned = 0 /\ tasks = <<>> /\ Ready /\ UNCHANGED <<plannable, planned, tasks>>
        BY <2>0, <2>1 DEF PlanAll, PlanInv
      <3>2. Numbered(plannable, planned)
        <4>1. TasksPerOrigin \in Nat
          BY <2>0, <3>1, RegistryIsReady DEF TasksPerOrigin
        <4>. QED
          BY <3>1, <4>1 DEF Numbered
      <3>. QED
        BY <1>2, <1>s, <3>1, <3>2 DEF NumberedInv
    <2>2. CASE FilterOrigin
      <3>1. planned = 0 /\ UNCHANGED <<plan, planned, tasks>> /\ plan = "filtering"
        BY <2>0, <2>2 DEF FilterOrigin, PlanInv
      <3>. QED
        BY <1>2, <1>s, <3>1 DEF NumberedInv
    <2>3. CASE FilterDone \/ PlanDone
      BY <1>2, <1>s, <2>3 DEF FilterDone, PlanDone, NumberedInv
    <2>4. CASE PlanOrigin /\ RequestsAreValid
      <3>1. Numbered(plannable, planned)
        BY <2>4 DEF PlanOrigin, NumberedInv
      <3>. QED
        BY <1>2, <2>0, <2>4, <3>1, BlockIsAdded DEF NumberedInv
    <2>5. CASE RefusePlan
      BY <2>5 DEF RefusePlan, NumberedInv
    <2>6. CASE PlanSingle
      BY <2>6 DEF PlanSingle, NumberedInv
    <2>7. /\ PlanOrigin /\ ~RequestsAreValid => RefusePlan
          /\ RefuseSingle => RefusePlan
      BY DEF PlanOrigin, RefuseSingle
    <2>. QED
      BY <1>2, <2>1, <2>2, <2>3, <2>4, <2>5, <2>6, <2>7 DEF PlanNext
  <1>3. CASE UNCHANGED vars
    BY <1>3, <1>s DEF vars, planVars, NumberedInv
  <1>. QED
    BY <1>1, <1>2, <1>3 DEF Next

\* The k-th task, by the arithmetic with which the results are read back.
NthTask(k, chosen) ==
    LET L == Len(destinations)
        T == 2 * Len(destinations)
        r == (k - 1) % T
    IN  /\ tasks[k].origin = chosen[((k - 1) \div T) + 1].to_airport
        /\ tasks[k].destination = destinations[(r % L) + 1]
        /\ tasks[k].max_stops = r \div L

\* The origins that the code plans for: those within the limit, or the one it was
\* asked for.
Chosen == IF request = Everything THEN Wanted
          ELSE {g \in Rows(ground) : g.to_airport = request}

\* A built plan is the list of tasks from which Selection starts: the chosen
\* origins come in the order of their priorities, and the k-th task is what
\* Selection's Task(k) says of it.
PlanIsSelections ==
    plan = "built" =>
      \E chosen \in Seq(Chosen) :
        /\ Rows(chosen) = Chosen
        /\ \A i, j \in DOMAIN chosen : i < j => chosen[i].priority < chosen[j].priority
        /\ Len(tasks) = Len(chosen) * (2 * Len(destinations))
        /\ \A k \in DOMAIN tasks : NthTask(k, chosen)

\* How a place splits into a block and the place in it.
LEMMA PlaceSplits ==
    ASSUME NEW L \in Nat, NEW n \in Nat, NEW k \in 1..(n * (L + L))
    PROVE  LET T == 2 * L
               r == (k - 1) % T
               i == ((k - 1) \div T) + 1
           IN  /\ T = L + L /\ L >= 1
               /\ i \in 1..n /\ r + 1 \in 1..(L + L)
               /\ k = (i - 1) * (L + L) + (r + 1)
               /\ r % L = IF r < L THEN r ELSE r - L
               /\ r \div L = IF r < L THEN 0 ELSE 1
  <1>. DEFINE T == 2 * L
              q == (k - 1) \div T
              r == (k - 1) % T
  <1>1. T \in Nat /\ T = L + L /\ n * T \in Nat
    OBVIOUS
  <1>2. L >= 1
    <2>1. L = 0 => n * (L + L) = 0
      OBVIOUS
    <2>. QED
      BY <2>1
  <1>3. k - 1 \in Nat /\ k - 1 < n * T /\ T \in Nat \ {0}
    BY <1>1, <1>2
  <1>. HIDE DEF T
  <1>4. q \in Nat /\ r \in 0..(T - 1) /\ k - 1 = T * q + r
    BY <1>3
  <1>. HIDE DEF q, r
  <1>5. q < n
    <2>. SUFFICES ASSUME q >= n PROVE FALSE
      BY <1>4
    <2>1. (q - n) * T \in Nat /\ T * q = (q - n) * T + n * T
      BY <1>1, <1>4
    <2>2. T * q \in Nat
      BY <1>1, <1>4
    <2>. QED
      BY <1>1, <1>3, <1>4, <2>1, <2>2
  <1>6. r \in Nat /\ r < L + L
    BY <1>1, <1>4
  <1>7. r % L = (IF r < L THEN r ELSE r - L) /\ r \div L = (IF r < L THEN 0 ELSE 1)
    <2>. DEFINE a == r % L
                b == r \div L
    <2>1. a \in 0..(L - 1) /\ b \in Nat /\ r = L * b + a
      BY <1>2, <1>6
    <2>. HIDE DEF a, b
    <2>2. b = 0 \/ b = 1 \/ b >= 2
      BY <2>1
    <2>3. ~(b >= 2)
      <3>1. b >= 2 => L * (b - 2) >= 0 /\ L * b = L * (b - 2) + L + L
        BY <2>1
      <3>2. L * b \in Int /\ L * (b - 2) \in Int
        BY <2>1
      <3>. QED
        BY <1>6, <2>1, <3>1, <3>2
    <2>4. b = 0 => r = a
      BY <2>1
    <2>5. b = 1 => r = L + a
      BY <2>1
    <2>. QED
      BY <1>2, <1>6, <2>1, <2>2, <2>3, <2>4, <2>5 DEF a, b
  <1>8. (q + 1) - 1 = q /\ q + 1 \in 1..n /\ r + 1 \in 1..(L + L)
    BY <1>4, <1>5, <1>6
  <1>9. k = q * (L + L) + (r + 1)
    BY <1>1, <1>3, <1>4
  <1>. QED
    BY <1>1, <1>2, <1>7, <1>8, <1>9 DEF T, q, r

\* Blocks one after the other are addressed by division.
LEMMA NumberedIsNth ==
    ASSUME NEW chosen, NEW n \in Nat, Numbered(chosen, n), Len(destinations) \in Nat,
           NEW k \in 1..Len(tasks)
    PROVE  NthTask(k, chosen)
  <1>. DEFINE L == Len(destinations)
              T == 2 * L
              r == (k - 1) % T
              i == ((k - 1) \div T) + 1
  <1>1. k \in 1..(n * (L + L)) /\ TasksPerOrigin = L + L
    BY DEF Numbered, TasksPerOrigin
  <1>2. /\ L >= 1 /\ i \in 1..n /\ r + 1 \in 1..(L + L)
        /\ k = (i - 1) * (L + L) + (r + 1)
        /\ r % L = IF r < L THEN r ELSE r - L
        /\ r \div L = IF r < L THEN 0 ELSE 1
    <2>1. L \in Nat
      OBVIOUS
    <2>. HIDE DEF L
    <2>. QED
      BY <1>1, <2>1, PlaceSplits
  <1>. HIDE DEF r, i
  <1>3. IsNth(tasks[k], chosen[i], r + 1)
    BY <1>1, <1>2 DEF Numbered
  <1>4. r \in Int
    BY <1>2 DEF r
  <1>5. /\ tasks[k].origin = chosen[i].to_airport
        /\ tasks[k].destination = destinations[IF r + 1 <= L THEN r + 1 ELSE (r + 1) - L]
        /\ tasks[k].max_stops = IF r + 1 <= L THEN 0 ELSE 1
    BY <1>3 DEF IsNth
  <1>6. /\ (IF r + 1 <= L THEN r + 1 ELSE (r + 1) - L) = (r % L) + 1
        /\ (IF r + 1 <= L THEN 0 ELSE 1) = r \div L
    BY <1>2, <1>4
  <1>. QED
    BY <1>5, <1>6 DEF NthTask, r, i

\* For any registry and limit: what is planned is what the results are read back
\* as, so that the theorems about Selection are about the plans that Planning builds.
THEOREM PlansAreSelections == Spec => []PlanIsSelections
  <1>1. Init => NumberedInv
    BY DEF Init, NumberedInv
  <1>2. ASSUME IInv, NumberedInv, plan = "built"
        PROVE  \E chosen \in Seq(Chosen) :
                 /\ Rows(chosen) = Chosen
                 /\ \A i, j \in DOMAIN chosen : i < j => chosen[i].priority < chosen[j].priority
                 /\ Len(tasks) = Len(chosen) * (2 * Len(destinations))
                 /\ \A k \in DOMAIN tasks : NthTask(k, chosen)
    <2>1. Ready /\ RegistryInv /\ Len(destinations) \in Nat /\ catalog = "merged"
      BY <1>2, RegistryIsReady DEF IInv, PlanInv, Ready
    <2>2. CASE request = Everything
      <3>1. FilterInv /\ TasksInv /\ Filtered = Len(origins) /\ planned = Len(plannable)
            /\ Numbered(plannable, planned)
        BY <1>2, <2>2 DEF IInv, PlanInv, NumberedInv
      <3>2. /\ Len(plannable) \in Nat /\ DOMAIN plannable = 1..Len(plannable)
            /\ \A i \in 1..Len(plannable) : plannable[i] \in Rows(ground)
            /\ \A i \in 1..Len(plannable) : WithinLimit(plannable[i])
            /\ plannable \in Seq(Rows(ground))
            /\ \A i, j \in 1..Len(plannable) :
                 i < j => plannable[i].priority < plannable[j].priority
        BY <3>1, ElementOfSeq DEF FilterInv
      <3>3. \A i \in 1..Len(plannable) : plannable[i] \in Chosen
        BY <2>2, <3>2 DEF Chosen, Wanted, WithinLimit
      <3>4. plannable \in Seq(Chosen)
        BY <3>2, <3>3
      <3>5. Rows(plannable) = Chosen
        <4>1. ASSUME NEW g \in Chosen PROVE g \in Rows(plannable)
          <5>1. g \in Rows(ground) /\ WithinLimit(g)
            BY <2>2 DEF Chosen, Wanted, WithinLimit
          <5>2. Rows(origins) = Rows(ground) /\ DOMAIN origins = 1..Len(origins)
            BY <2>1, OriginsAreTheRows
          <5>3. PICK p \in 1..Len(origins) : origins[p] = g
            BY <5>1, <5>2 DEF Rows
          <5>. QED
            BY <3>1, <3>2, <5>1, <5>3 DEF FilterInv, Rows
        <4>. QED
          BY <3>2, <3>3, <4>1 DEF Rows
      <3>6. DOMAIN tasks = 1..Len(tasks)
        BY <3>1, ElementOfSeq DEF TasksInv
      <3>7. Len(tasks) = Len(plannable) * (2 * Len(destinations))
        BY <2>1, <3>1 DEF Numbered, TasksPerOrigin
      <3>8. \A k \in DOMAIN tasks : NthTask(k, plannable)
        BY <2>1, <3>1, <3>2, <3>6, NumberedIsNth
      <3>. QED
        BY <3>2, <3>4, <3>5, <3>7, <3>8
    <2>3. CASE request # Everything
      <3>1. PICK g \in Rows(ground) : g.to_airport = request /\ tasks = DualMode(g, 0)
        BY <1>2, <2>3 DEF IInv, PlanInv
      <3>2. Chosen = {g}
        <4>1. Len(ground) \in Nat /\ DOMAIN ground = 1..Len(ground)
          BY <2>1, ElementOfSeq DEF RegistryInv, GroundInv
        <4>2. \A e, f \in Rows(ground) : e.to_airport = f.to_airport => e = f
          BY <2>1, <4>1 DEF RegistryInv, GroundInv, Rows
        <4>. QED
          BY <2>3, <3>1, <4>2 DEF Chosen
      <3>. DEFINE chosen == <<g>>
      <3>3. /\ chosen \in Seq(Chosen) /\ Rows(chosen) = Chosen
            /\ Len(chosen) = 1 /\ chosen[1] = g /\ DOMAIN chosen = {1}
        BY <3>2 DEF Rows
      <3>4. /\ tasks \in Seq(Tasks) /\ Len(tasks) = TasksPerOrigin /\ TasksPerOrigin \in Nat
            /\ \A j \in 1..TasksPerOrigin : IsNth(tasks[j], g, j)
        BY <2>1, <3>1, DualModeNth
      <3>. HIDE DEF chosen
      <3>5. Numbered(chosen, 1)
        <4>1. \A i \in 1..1, j \in 1..TasksPerOrigin :
                i = 1 /\ (i - 1) * TasksPerOrigin + j = j
          BY <3>4
        <4>. QED
          BY <3>3, <3>4, <4>1 DEF Numbered
      <3>6. DOMAIN tasks = 1..Len(tasks)
        BY <3>4, ElementOfSeq
      <3>7. \A k \in DOMAIN tasks : NthTask(k, chosen)
        BY <2>1, <3>5, <3>6, NumberedIsNth
      <3>8. Len(tasks) = Len(chosen) * (2 * Len(destinations))
        BY <2>1, <3>3, <3>4 DEF TasksPerOrigin
      <3>9. \A i, j \in DOMAIN chosen : i < j => chosen[i].priority < chosen[j].priority
        BY <3>3
      <3>. QED
        BY <3>3, <3>7, <3>8, <3>9
    <2>. QED
      BY <2>2, <2>3
  <1>3. IInv /\ NumberedInv => PlanIsSelections
    BY <1>2 DEF PlanIsSelections
  <1>4. IInv /\ NumberedInv /\ [Next]_vars => NumberedInv'
    BY NumberedSteps
  <1>. QED
    BY <1>1, <1>3, <1>4, Invariance, PTL DEF Spec
=============================================================================
