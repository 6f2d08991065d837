------------------------------- MODULE Config -------------------------------
(***************************************************************************)
(* config/loader.py: load_config resolves the packaged defaults, an        *)
(* override file and the FLIGHTAGENT__SECTION__KEY variables into one tree *)
(* and validates it against the settings models of config/models.py.       *)
(*                                                                         *)
(* A tree is the function from the paths of its leaves to their values; a  *)
(* path is a sequence of keys, and none of a tree's is a prefix of         *)
(* another.  A value is a number of a TOML file, or a text whose content   *)
(* is a number ("digits") or is not ("word"); n stands for the content.    *)
(***************************************************************************)
EXTENDS Integers, Sequences

CONSTANTS Schema,      \* the declared fields: path -> "number" or "text"
          Defaults,    \* the tree of config/defaults.toml
          Overrides,   \* what layer 2 may be, [found |-> ..., tree |-> ...]
          Environments \* the FLIGHTAGENT__ variables, in the order of os.environ

Values == [form : {"number", "digits", "word"}, n : Int]

ASSUME ConfigAssumption ==
    /\ \A p \in DOMAIN Schema : Schema[p] \in {"number", "text"}
    /\ \A p \in DOMAIN Defaults : Defaults[p] \in Values
    /\ \A o \in Overrides :
         /\ o.found \in {"none", "missing", "read"}
         /\ \A p \in DOMAIN o.tree : o.tree[p] \in Values
    /\ \A e \in Environments : e \in Seq([path : Seq(STRING), value : Values])

VARIABLES override,    \* layer 2
          environment, \* the variables, [path |-> ..., value |-> ...]
          config,      \* "start", "environment", "loaded", "refused"
          read,        \* how many variables have been parsed
          layer,       \* the tree of _parse_env_layer so far
          merged,      \* the tree of the layers below it
          settings     \* the validated fields: path -> n

configVars == <<override, environment, config, read, layer, merged, settings>>

ConfigInit == /\ override \in Overrides
              /\ environment \in Environments
              /\ config = "start"
              /\ read = 0
              /\ layer = <<>>
              /\ merged = Defaults
              /\ settings = <<>>

-----------------------------------------------------------------------------

IsPrefixOf(p, q) == Len(p) <= Len(q) /\ \A i \in DOMAIN p : p[i] = q[i]

\* One of the paths leads to a leaf on the way to the other.
Collide(p, q) == IsPrefixOf(p, q) \/ IsPrefixOf(q, p)

\* _deep_merge: the upper tree's leaves replace whatever of the lower one they
\* collide with.
DeepMerge(base, upper) ==
    LET kept == {p \in DOMAIN base : \A q \in DOMAIN upper : ~Collide(p, q)}
    IN  [p \in kept \cup DOMAIN upper |-> IF p \in DOMAIN upper THEN upper[p] ELSE base[p]]

\* ConfigError, or the ValidationError of model_validate.
RefuseConfig == /\ config' = "refused"
                /\ UNCHANGED <<override, environment, read, layer, merged, settings>>

\* An explicit path must lead to a file; without one there may be none.
ReadOverride ==
    /\ config = "start"
    /\ override.found # "missing"
    /\ merged' = IF override.found = "read" THEN DeepMerge(Defaults, override.tree) ELSE Defaults
    /\ config' = "environment"
    /\ UNCHANGED <<override, environment, read, layer, settings>>

OverrideMissing == config = "start" /\ override.found = "missing" /\ RefuseConfig

Parsing == config = "environment" /\ read < Len(environment)

Variable == environment[read + 1]

Malformed(path) == path = <<>> \/ \E i \in DOMAIN path : path[i] = ""

\* A section on the way to the variable's key is a value already.
Conflicting(path) == \E q \in DOMAIN layer : q # path /\ IsPrefixOf(q, path)

\* The value becomes the leaf of its path, in place of the value or of the
\* whole section that an earlier variable has put there.
ParseVariable ==
    /\ Parsing
    /\ ~Malformed(Variable.path)
    /\ ~Conflicting(Variable.path)
    /\ layer' = DeepMerge(layer, [p \in {Variable.path} |-> Variable.value])
    /\ read' = read + 1
    /\ UNCHANGED <<override, environment, config, merged, settings>>

RefuseVariable == /\ Parsing
                  /\ Malformed(Variable.path) \/ Conflicting(Variable.path)
                  /\ RefuseConfig

\* pydantic coerces a text to a number where a number is declared, and never a
\* number to a text.
Fits(type, value) == IF type = "number" THEN value.form # "word" ELSE value.form # "number"

\* Mutant: extra = "ignore"
ValidIgnoringExtra(tree) ==
    DOMAIN Schema \subseteq DOMAIN tree /\ \A p \in DOMAIN Schema : Fits(Schema[p], tree[p])

\* FlightAgentSettings.model_validate: nothing is missing, extra = "forbid".
ValidTree(tree) ==
    DOMAIN tree = DOMAIN Schema /\ \A p \in DOMAIN Schema : Fits(Schema[p], tree[p])

Parsed == config = "environment" /\ read = Len(environment)

Validate == /\ Parsed
            /\ ValidTree(DeepMerge(merged, layer))
            /\ settings' = [p \in DOMAIN Schema |-> DeepMerge(merged, layer)[p].n]
            /\ config' = "loaded"
            /\ UNCHANGED <<override, environment, read, layer, merged>>

RefuseTree == Parsed /\ ~ValidTree(DeepMerge(merged, layer)) /\ RefuseConfig

ConfigNext == \/ ReadOverride \/ OverrideMissing
              \/ ParseVariable \/ RefuseVariable
              \/ Validate \/ RefuseTree

-----------------------------------------------------------------------------

\* The places in the environment of the variables with path p.
SetBy(p) == {i \in DOMAIN environment : environment[i].path = p}

\* The value of p in the highest layer that sets it; of two variables that name
\* it, in capitals and not, the later one's.
Effective(p) ==
    CASE SetBy(p) # {} -> environment[CHOOSE i \in SetBy(p) : \A j \in SetBy(p) : j <= i].value
      [] SetBy(p) = {} /\ override.found = "read" /\ p \in DOMAIN override.tree -> override.tree[p]
      [] OTHER -> Defaults[p]

\* What is loaded is, field by field, the value of the highest layer that sets
\* it; and nothing that some layer sets is ignored but what another collides
\* with: a variable is a field, or a later one took the place of its section,
\* and a leaf of the file is a field, or a variable took its place.
SettingsFollowTheLayers ==
    config = "loaded" =>
      /\ DOMAIN settings = DOMAIN Schema
      /\ \A p \in DOMAIN Schema : settings[p] = Effective(p).n
      /\ \A i \in DOMAIN environment :
           \/ environment[i].path \in DOMAIN Schema
           \/ \E j \in DOMAIN environment :
                j > i /\ IsPrefixOf(environment[j].path, environment[i].path)
      /\ override.found = "read" =>
           \A p \in DOMAIN override.tree :
             \/ p \in DOMAIN Schema
             \/ \E i \in DOMAIN environment : Collide(p, environment[i].path)
=============================================================================
