--------------------------- MODULE PortabilityRules ---------------------------
(***************************************************************************)
(* Which databases a project can run on (engines.py), and the rules about  *)
(* code that two of them run differently (rules/portability.py), next to   *)
(* what every deployment of the project connects to.                       *)
(*                                                                         *)
(* A behaviour writes the assignments of DATABASES, one at a time, into a  *)
(* few settings files.  What djaudit says is a function of what stands     *)
(* there, and so is what a deployment, which is a file and the levers set  *)
(* in its environment, is left with.                                       *)
(***************************************************************************)
EXTENDS Naturals, Sequences, FiniteSets

CONSTANTS SettingsFiles,   \* numbered in the order of their dotted names
          SharedFile,      \* the one the others may begin by star-importing
          Development,     \* those whose role does not reach production
          Levers,          \* the environment variables an if may ask for
          Assignments,     \* what may be written into a file
          MaxWiring,       \* bound: assignments of the project
          WiringHabits     \* which of the habits below the authors have

Vendors == {"sqlite", "postgresql", "mysql"}
Aliases == {"default", "replica"}

ASSUME WiringHabitsAreKnown ==
    WiringHabits \subseteq {"every branch", "opted out", "in place"}
ASSUME FilesAreNumbered ==
    SettingsFiles \subseteq Nat /\ Development \cup {SharedFile} \subseteq SettingsFiles

VARIABLES wiring,      \* what each file assigns to DATABASES, in order
          importers    \* the files that star-import the shared one

wiringVars == <<wiring, importers>>

-----------------------------------------------------------------------------
(* An ENGINE names a vendor by its last segment or by its whole path.      *)

Leaf == [sqlite3 |-> "sqlite", spatialite |-> "sqlite", postgresql |-> "postgresql",
         postgis |-> "postgresql", mysql |-> "mysql"]
Paths == [psqlextra |-> "postgresql"]

\* Mutated: an engine that cannot be told is Django's own default.
WithADefault(e) == IF e \in DOMAIN Leaf THEN Leaf[e]
                   ELSE IF e \in DOMAIN Paths THEN Paths[e] ELSE "sqlite"

ClassifyEngine(e) == IF e \in DOMAIN Paths THEN Paths[e]
               ELSE IF e \in DOMAIN Leaf THEN Leaf[e] ELSE "unknown"

\* The servers behind an engine; an unlisted or a computed one may be any.
Servers(e) == CASE e \in {"sqlite3", "spatialite"} -> {"sqlite"}
               [] e \in {"postgresql", "postgis", "psqlextra"} -> {"postgresql"}
               [] e = "mysql" -> {"mysql"}
               [] OTHER -> Vendors

-----------------------------------------------------------------------------
(* An assignment stands under a conjunction of if tests, a set of pairs of *)
(* a lever and whether it is set; it may also stand in a try.  A call is a *)
(* value that is no dict; |= and a subscript change a dict that is there.  *)

Guards == {g \in SUBSET (Levers \X BOOLEAN) :
              \A l \in Levers : ~({<<l, TRUE>>, <<l, FALSE>>} \subseteq g)}
Engines == DOMAIN Leaf \cup DOMAIN Paths \cup {"computed"}

ASSUME AssignmentsAreWritten ==
    Assignments \subseteq [guard : Guards, tried : BOOLEAN,
                           shape : {"dict", "call", "augmented", "in place"},
                           databases : UNION {[D -> Engines] : D \in SUBSET Aliases}]

Skippable(s) == s.tried \/ s.guard # {}

\* A star import comes first: the chain is one namespace, read in order.
Chain(f) == (IF f \in importers THEN wiring[SharedFile] ELSE <<>>) \o wiring[f]

\* What the resolver records; it passes over changes to a dict that is there.
Definitions(f) == {i \in DOMAIN Chain(f) : Chain(f)[i].shape # "in place"}

\* Mutated: whatever the project ever assigned.
EveryDefinition(f) == Definitions(f)

\* An unconditional assignment makes all those before it dead.
LiveDefinitions(f) ==
    {i \in Definitions(f) : \A j \in Definitions(f) : j > i => Skippable(Chain(f)[j])}

\* One alias as one live dict gives it.  The if tests are those of the file
\* itself: an assignment that was star-imported has lost them.
Choice(f, s, a) ==
    [file |-> f, alias |-> a, vendor |-> ClassifyEngine(s.databases[a]),
     conditional |-> Skippable(s),
     guard |-> IF s.file = f /\ ~s.tried THEN s.guard ELSE {}]
ModuleEngines(f) ==
    UNION {{Choice(f, Chain(f)[i], a) : a \in DOMAIN Chain(f)[i].databases} :
           i \in {i \in LiveDefinitions(f) : Chain(f)[i].shape = "dict"}}

ProjectEngines == UNION {ModuleEngines(f) : f \in SettingsFiles}

-----------------------------------------------------------------------------
(* Divergence                                                              *)

Known(choices) == {c.vendor : c \in choices} \cap Vendors
ForAlias(choices, a) == {c \in choices : c.alias = a}

Diverging(choices) == {a \in Aliases : Cardinality(Known(ForAlias(choices, a))) > 1}

Portability(choices) ==
    IF choices = {} THEN "unreadable"
    ELSE IF Diverging(choices) # {} THEN "divergent"
    ELSE IF \E c \in choices : c.vendor = "unknown" THEN "uncertain" ELSE "single"

\* The choices for the first alias that diverges.
Relevant(choices) ==
    LET diverging == Diverging(choices)
    IN IF diverging = {} THEN choices
       ELSE ForAlias(choices, IF "default" \in diverging THEN "default" ELSE "replica")

\* Mutated: the first assignment, whether or not anything has to be set for it.
FirstWritten(choices) ==
    {c \in Relevant(choices) : \A d \in Relevant(choices) : c.file <= d.file}

\* What runs with nothing set, in a development module if there is one.
Default(choices) ==
    LET plain == {c \in Relevant(choices) : ~c.conditional}
        development == {c \in plain : c.file \in Development}
        pool == IF development # {} THEN development ELSE plain
    IN {c \in pool : \A d \in pool : c.file <= d.file}

Alternatives(choices) ==
    {c \in Relevant(choices) : \E d \in Default(choices) : c.vendor # d.vendor}

Reaches(choices, v) == v \in Known(choices)
Conclusive(choices) == Portability(choices) \notin {"uncertain", "unreadable"}
CouldReach(choices, v) == Reaches(choices, v) \/ ~Conclusive(choices)

\* DJX-001.
EngineDivergence(choices) == Portability(choices) = "divergent" /\ Default(choices) # {}

\* The gate of every other rule of the family.
DivergenceRule(choices) == Reaches(choices, "sqlite") /\ Reaches(choices, "postgresql")

-----------------------------------------------------------------------------
(* What the models and queries of the project may hold, one use at a time, *)
(* and which rule of the family names it.  A queryset is named when the    *)
(* tracker knows its model, unnamed when it only knows it is one.          *)

Receivers == {"named", "unnamed", "untracked", "own object"}

Uses ==
    [what : {"distinct"}, given : {"nothing", "field names", "computed"}, on : Receivers]
    \cup [what : {"lock"}, on : Receivers]
    \cup [what : {"lookup"}, via : {"keyword", "Q", "annotate"}, on : Receivers,
          asks : {"contains", "contained_by", "startswith", "icontains"},
          lands : {"text", "own text", "JSON", "key of JSON", "array", "number", "beyond"}]
    \cup [what : {"pattern"}, token : {"word boundary", "POSIX class", "named group", "digit"},
          written : {"literal", "built"}, on : Receivers]
    \cup [what : {"column"}, limit : {"given", "computed", "omitted"}, of : {"model", "proxy"},
          kind : {"CharField", "SlugField", "TextField", "FileField", "IntegerField",
                  "BigIntegerField", "DecimalField", "ArrayField", "own vector"}]
    \cup [what : {"constraint"}, of : {"model", "proxy"},
          class : {"unique", "deferrable", "exclusion", "own exclusion", "check"}]

Tracked(u) == u.on \in {"named", "unnamed"}

\* field_at: a keyword of filter and its like, on a model the graph walks.
FieldAt(u) == u.what = "lookup" /\ u.via = "keyword" /\ u.on = "named" /\ u.lands # "beyond"

DistinctOnFields(u) == u.what = "distinct" /\ u.given = "field names" /\ Tracked(u)
DiscardedRowLock(u) == u.what = "lock" /\ Tracked(u)

JsonContainment(u) ==
    FieldAt(u) /\ u.asks \in {"contains", "contained_by"} /\ u.lands \in {"JSON", "key of JSON"}

\* Mutated: a lookup is judged by its keyword alone.
WhateverItLandsOn(u) ==
    u.what = "lookup" /\ u.via = "keyword" /\ u.asks \in {"contains", "startswith"} /\ Tracked(u)

CaseSensitiveTextLookup(u) ==
    FieldAt(u) /\ u.asks \in {"contains", "startswith"} /\ u.lands = "text"

RegexDialect == {"word boundary", "POSIX class", "named group"}
DivergentRegex(u) ==
    u.what = "pattern" /\ Tracked(u) /\ u.written = "literal" /\ u.token \in RegexDialect

\* A proxy has no table of its own.
PostgresOnlyField(u) == u.what = "column" /\ u.of = "model" /\ u.kind = "ArrayField"
UnenforcedConstraint(u) ==
    u.what = "constraint" /\ u.of = "model" /\ u.class \in {"deferrable", "exclusion"}

HasRange(u) == u.kind = "IntegerField"
HasDigits(u) == u.kind = "DecimalField" /\ u.limit # "omitted"
HasWidth(u) == \/ u.kind = "SlugField" /\ u.limit # "computed"
               \/ u.kind = "CharField" /\ u.limit = "given"
UnenforcedColumnLimit(u) ==
    u.what = "column" /\ u.of = "model" /\ (HasRange(u) \/ HasDigits(u) \/ HasWidth(u))

Named(u) ==
    \/ DistinctOnFields(u) \/ DiscardedRowLock(u) \/ JsonContainment(u)
    \/ CaseSensitiveTextLookup(u) \/ DivergentRegex(u) \/ PostgresOnlyField(u)
    \/ UnenforcedConstraint(u) \/ UnenforcedColumnLimit(u)

NamedUses == {u \in Uses : Named(u)}

\* What SQLite and Postgres do not do alike: Django's feature flags and the two
\* engines' own manners.
Differs(u) ==
    CASE u.what = "distinct"   -> u.given # "nothing" /\ u.on # "own object"
      [] u.what = "lock"       -> u.on # "own object"
      [] u.what = "lookup"     ->
            /\ u.via # "annotate" /\ u.on # "own object"
            /\ \/ u.asks \in {"contains", "contained_by"} /\ u.lands \in {"JSON", "key of JSON", "array"}
               \/ u.asks = "startswith" /\ u.lands = "key of JSON"
               \/ u.asks \in {"contains", "startswith"} /\ u.lands \in {"text", "own text"}
               \/ u.lands = "beyond"
      [] u.what = "pattern"    -> u.token # "digit" /\ u.on # "own object"
      [] u.what = "column"     ->
            /\ u.of = "model"
            /\ \/ u.kind \in {"SlugField", "FileField", "IntegerField", "ArrayField", "own vector"}
               \/ u.kind \in {"CharField", "DecimalField"} /\ u.limit # "omitted"
      [] u.what = "constraint" -> u.of = "model" /\ u.class \in {"deferrable", "exclusion"}

\* The limitations the rules state, under which a difference may go unnamed.
Legible(u) ==
    CASE u.what = "distinct"   -> Tracked(u) /\ u.given # "computed"
      [] u.what = "lock"       -> Tracked(u)
      [] u.what = "lookup"     -> /\ u.via = "keyword" /\ u.on = "named"
                                  /\ u.lands \notin {"own text", "array", "beyond"}
                                  /\ u.asks = "startswith" => u.lands # "key of JSON"
      [] u.what = "pattern"    -> Tracked(u) /\ u.written = "literal"
      [] u.what = "column"     -> /\ u.kind \notin {"FileField", "own vector"}
                                  /\ u.limit = "computed" => u.kind \notin {"CharField", "SlugField"}
      [] u.what = "constraint" -> TRUE

DifferingUses == {u \in Uses : Differs(u)}
LegibleUses == {u \in DifferingUses : Legible(u)}

NamedForWhatDiffers == NamedUses \subseteq DifferingUses /\ LegibleUses \subseteq NamedUses

-----------------------------------------------------------------------------
(* What a deployment is left with: one mapping for each way the blocks     *)
(* that may fail can go.  A change to a dict that is not there fails.      *)

Deployments == [file : SettingsFiles, set : SUBSET Levers]

HoldsIn(guard, d) == \A l \in guard : (l[1] \in d.set) = l[2]

NoDatabases == [a \in {} |-> ""]
Unassigned == [a \in {"nothing"} |-> "nothing"]

Updated(m, databases) ==
    [a \in DOMAIN m \cup DOMAIN databases |-> IF a \in DOMAIN databases THEN databases[a] ELSE m[a]]

After(s, m) ==
    CASE s.shape = "dict" -> {s.databases}
      [] s.shape = "call" -> {[a \in Aliases |-> "computed"]}
      [] OTHER            -> IF m = Unassigned THEN {} ELSE {Updated(m, s.databases)}

Run(s, d, ms) ==
    IF ~HoldsIn(s.guard, d) THEN ms
    ELSE (UNION {After(s, m) : m \in ms}) \cup (IF s.tried THEN ms ELSE {})

Mappings(d) ==
    LET chain == Chain(d.file)
        left[i \in 0..Len(chain)] == IF i = 0 THEN {Unassigned} ELSE Run(chain[i], d, left[i - 1])
    IN left[Len(chain)]

Connects(ms, a) == UNION {Servers(m[a]) : m \in {m \in ms : a \in DOMAIN m}}

\* The deployments, each with the databases it may connect to.
Reached ==
    UNION {LET ms == Mappings(d)
           IN UNION {{<<a, v, d>> : v \in Connects(ms, a)} : a \in Aliases} : d \in Deployments}

-----------------------------------------------------------------------------
(* Writing the files.  Without the habits, no later if or pair of arms     *)
(* takes every deployment an earlier assignment had; where something is    *)
(* assigned outright, each if asks for a lever to be set; and a dict that  *)
(* is there is not changed by a subscript or a method.                     *)

LeversOf(s) == {l[1] : l \in s.guard}
Exclusive(s, t) == \E l \in Levers, b \in BOOLEAN : <<l, b>> \in s.guard /\ <<l, ~b>> \in t.guard

Orderly(chain, live) ==
    /\ "every branch" \notin WiringHabits =>
         \A j \in live : \A i \in {i \in live : i < j} :
            \/ LeversOf(chain[i]) \cap LeversOf(chain[j]) = {}
            \/ Exclusive(chain[i], chain[j]) /\ \A k \in live : k \in {i, j} \/ k > j
    /\ "opted out" \notin WiringHabits =>
         \A i, j \in live :
            ~Skippable(chain[i]) /\ chain[j].guard # {} => \E l \in chain[j].guard : l[2]

Tidy(f) == Orderly(Chain(f), LiveDefinitions(f))

PortabilityInit ==
    /\ wiring = [f \in SettingsFiles |-> <<>>]
    /\ importers \in {{}, SettingsFiles \ {SharedFile}}

Placed == {p \in SettingsFiles \X (1..MaxWiring) : p[2] \in DOMAIN wiring[p[1]]}

Entry(f, s) == [file |-> f, guard |-> s.guard, tried |-> s.tried, shape |-> s.shape,
                  databases |-> s.databases]

AssignDatabases(f, s) ==
    /\ s.shape = "in place" => "in place" \in WiringHabits
    /\ s.shape \in {"augmented", "in place"} =>
         \E i \in DOMAIN Chain(f) : ~Skippable(Chain(f)[i])
    /\ wiring' = [wiring EXCEPT ![f] = Append(@, Entry(f, s))]
    /\ UNCHANGED importers
    /\ \A g \in SettingsFiles : Tidy(g)'

PortabilityNext ==
    /\ Cardinality(Placed) < MaxWiring
    /\ \E f \in SettingsFiles, s \in Assignments : AssignDatabases(f, s)

PortabilitySpec == PortabilityInit /\ [][PortabilityNext]_wiringVars

-----------------------------------------------------------------------------
\* Every engine named is one that a deployment of its file connects to, under
\* the tests it is said to need (live_definitions, guards).
EvidenceIsReal(choices, reached) ==
    \A c \in choices : c.vendor # "unknown" =>
       \E r \in reached : /\ r[1] = c.alias /\ r[2] = c.vendor
                          /\ r[3].file = c.file /\ HoldsIn(c.guard, r[3])

\* What is called the database a developer gets by setting nothing is that, and
\* something else is reached beside it (Divergence.default, EngineDivergence).
NothingSetIsNothingSet(choices, reached) ==
    \A c \in Default(choices) :
       /\ c.vendor # "unknown" => <<c.alias, c.vendor, [file |-> c.file, set |-> {}]>> \in reached
       /\ EngineDivergence(choices) => Alternatives(choices) # {}

\* Where every assignment is a dict and no divergence was found, no database that
\* a deployment may turn out to run on is ruled out (could_reach, conclusive).
NothingIsRuledOut(choices, reached) ==
    /\ (\A f \in SettingsFiles : \A i \in DOMAIN wiring[f] : wiring[f][i].shape = "dict")
    /\ Portability(choices) # "divergent"
    => \A r \in reached : CouldReach(choices, r[2])

\* One connection that deployments make to two databases is reported, unless
\* nothing is assigned outright or an engine cannot be read (EngineDivergence).
DivergencesAreReported(choices, reached) ==
    /\ \A f \in SettingsFiles : \A i \in DOMAIN wiring[f] : wiring[f][i].shape = "dict"
    /\ \A c \in choices : c.vendor # "unknown"
    /\ \E r, q \in reached : r[1] = q[1] /\ r[2] # q[2]
    => /\ Portability(choices) = "divergent"
       /\ (\E c \in Relevant(choices) : ~c.conditional) => EngineDivergence(choices)

\* A use is named only where deployments run on both engines that treat it
\* differently, and then always, but for the limitations the rules state.
UsesAreJudged(choices, reached) ==
    DivergenceRule(choices) =>
       /\ {"sqlite", "postgresql"} \subseteq {r[2] : r \in reached}
       /\ NamedForWhatDiffers

\* What djaudit says a project can run on is what its deployments run on, and
\* what two engines would treat differently is named exactly there.
EnginesAreJudged ==
    Placed # {} =>
    LET choices == ProjectEngines
        reached == Reached
    IN /\ EvidenceIsReal(choices, reached) /\ NothingSetIsNothingSet(choices, reached)
       /\ NothingIsRuledOut(choices, reached) /\ DivergencesAreReported(choices, reached)
       /\ UsesAreJudged(choices, reached)
=============================================================================
