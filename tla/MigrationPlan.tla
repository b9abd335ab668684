---------------------------- MODULE MigrationPlan ----------------------------
(***************************************************************************)
(* The order a project's migrations are replayed in, and which of them are *)
(* about to be deployed (migrations/graph.py).  The files are all that is  *)
(* known: a dependency may be computed, name a migration that is not there *)
(* or one that a squash has replaced; Django's loader, asked to migrate a  *)
(* database that has none of them, is what the plan is held against.       *)
(***************************************************************************)
EXTENDS Naturals, FiniteSets, Sequences

CONSTANTS
  Key,               \* the migrations there may be: [app, number], as their files are named
  MaxDependencies,   \* bound: dependencies of one migration
  Squash             \* bound: the sets a migration may replace

ASSUME KeysAreOrdered == Key \subseteq [app : Nat, number : Nat] /\ IsFiniteSet(Key)
ASSUME SquashesAreOfKeys == Squash \subseteq SUBSET Key

VARIABLE history     \* the files there are: what each needs, what of that is read, what it replaces

KeyBefore(k, l) == k.app < l.app \/ (k.app = l.app /\ k.number < l.number)
Sorted(keys) ==
  CHOOSE s \in [1 .. Cardinality(keys) -> keys] : \A i, j \in DOMAIN s : i < j => KeyBefore(s[i], s[j])
Files == DOMAIN history

-----------------------------------------------------------------------------
(* MigrationGraph.                                                             *)

(* Where two squashes replace one migration, the one read last. *)
Replacing(k) == {s \in Files : k \in history[s].replaces}
Replacement(k) == CHOOSE s \in Replacing(k) : \A t \in Replacing(k) : t = s \/ KeyBefore(t, s)

(* Mutated: a squash of a squash is not followed. *)
CanonicalOnce(k) == IF Replacing(k) = {} THEN k ELSE Replacement(k)

(* A name, and those it was reached by. *)
Follow[p \in Key \X SUBSET Key] ==
  IF Replacing(p[1]) = {} \/ p[1] \in p[2] THEN p[1] ELSE Follow[<<Replacement(p[1]), p[2] \cup {p[1]}>>]
canonical(k) == Follow[<<k, {}>>]

superseded == {k \in Files : Replacing(k) # {}}

dependencies_of(k) == {canonical(d) : d \in history[k].read} \cap (Files \ {k})

Pending ==
  LET planned == Files \ superseded IN [k \in planned |-> dependencies_of(k) \cap planned]

(* A round of migrations that wait for none; what is left in a cycle goes in order of name. *)
Discharge(ordered, pending) ==
  LET ready == {k \in DOMAIN pending : pending[k] = {}} IN
  [ordered |-> ordered \o Sorted(ready), pending |-> [k \in DOMAIN pending \ ready |-> pending[k] \ ready]]

Round[n \in 0 .. Cardinality(Files)] ==
  IF n = 0 THEN [ordered |-> <<>>, pending |-> Pending]
  ELSE LET before == Round[n - 1] IN Discharge(before.ordered, before.pending)
Rounds == Round[Cardinality(Files)]

cycle_keys == DOMAIN Rounds.pending
plan == Rounds.ordered \o Sorted(cycle_keys)

(* Whom a migration is needed by; an edge to itself is not kept. *)
edges == {p \in UNION {{<<canonical(e), k>> : e \in history[k].read} : k \in Files} : p[1] \in Files /\ p[1] # p[2]}

(* Mutated: a file that a squash has replaced still holds back what it needs. *)
RequiredByAnyFile(app) == {d \in Files : \E k \in Files : <<d, k>> \in edges /\ k.app = app}

required(app) == {d \in Files : \E k \in Files \ superseded : <<d, k>> \in edges /\ k.app = app}
leaves(app) == {k \in Files \ superseded : k.app = app /\ k \notin required(app)}

conflicts == {app \in {k.app : k \in Files} : Cardinality(leaves(app)) > 1}

(* What could not be read of a migration's dependencies is kept by its side. *)
unresolved == {k \in Files : history[k].read # history[k].needs}

-----------------------------------------------------------------------------
(* The files, in the order of their names.                                     *)

Filed(k, needs, read, replaces) ==
  history' = [l \in Files \cup {k} |-> IF l = k THEN [needs |-> needs, read |-> read, replaces |-> replaces]
                                        ELSE history[l]]

NoFiles == [k \in {} |-> [needs |-> {}, read |-> {}, replaces |-> {}]]
PlanInit == history = NoFiles

(* A dependency is a pair that is read, or a call or a name that is not. *)
WriteMigration ==
  \E k \in Key : \E needs \in SUBSET (Key \ {k}) :
    /\ \A l \in Files : KeyBefore(l, k)
    /\ Cardinality(needs) <= MaxDependencies
    /\ \E unread \in needs \cup {k} : Filed(k, needs, needs \ {unread}, {})

(* squashmigrations keeps what the migrations it replaces needed of others. *)
WriteSquash ==
  \E k \in Key, replaces \in Squash : \E needs \in SUBSET (Key \ (replaces \cup {k})) :
    /\ \A l \in Files : KeyBefore(l, k)
    /\ \A l \in replaces : l.app = k.app /\ KeyBefore(l, k)
    /\ \A l \in replaces \cap Files : history[l].needs \ replaces \subseteq needs
    /\ Cardinality(needs) <= MaxDependencies
    /\ Filed(k, needs, needs, replaces)

PlanNext == WriteMigration \/ WriteSquash
PlanSpec == PlanInit /\ [][PlanNext]_history

-----------------------------------------------------------------------------
(* Django's loader, on a new database: a squash stands for what it replaces,   *)
(* and needs what they needed.                                                 *)

Loaded == Files \ superseded
Needs == {p \in UNION {{<<Follow[<<f, {}>>], Follow[<<e, {}>>]>> : e \in history[f].needs} : f \in Files} :
            p[2] \in Loaded /\ p[1] # p[2]}

(* All that a migration needs, directly or not: what is in every set that leaves no need out. *)
After(k) ==
  LET needs == Needs
      closed == {S \in SUBSET Loaded : \A p \in needs : p[1] \in S \cup {k} => p[2] \in S}
  IN {d \in Loaded : \A S \in closed : d \in S}
Migratable == \A k \in Loaded : k \notin After(k)

(* Two squashes of one migration, of which the later does not replace the earlier: *)
(* Django takes either for it, and the other stands for itself.                    *)
Contested == \E s, t \in Files : /\ KeyBefore(s, t) /\ s \notin history[t].replaces
                                 /\ history[s].replaces \cap history[t].replaces # {}

(* The plan holds every migration Django would run, once, and each after all it needs, *)
(* through whatever squashes; unless a dependency could not be read, and then it says  *)
(* of which migration, or it is contested what a squash stands for.  It says there is  *)
(* a cycle just when Django would.  The leaf a rule is about is the last thing the     *)
(* plan does to its app, read or not, whenever the app is not in conflict: what the    *)
(* replay knows of it, it knew before.                                                 *)
PlanIsARunOrder ==
  LET order == plan
      after == [k \in Loaded |-> After(k)]
      AllIsKnown == unresolved = {} /\ ~Contested IN
  /\ AllIsKnown => (Migratable <=> cycle_keys = {})
  /\ Migratable =>
       /\ {order[i] : i \in DOMAIN order} = Loaded
       /\ \A i, j \in DOMAIN order : order[i] = order[j] => i = j
       /\ AllIsKnown => \A i, j \in DOMAIN order : order[j] \in after[order[i]] => j < i
       /\ \A app \in {k.app : k \in Loaded} \ conflicts :
            /\ leaves(app) # {}
            /\ \A l \in leaves(app) : \A i, j \in DOMAIN order : order[i].app = app /\ order[j] = l => i <= j
=============================================================================
