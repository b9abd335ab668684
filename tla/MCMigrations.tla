----------------------------- MODULE MCMigrations -----------------------------
(* What djaudit makes of a project's migrations, in three machines of which a behaviour *)
(* runs one: files are written and put in order (MigrationPlan); a history is replayed  *)
(* and run (MigrationReplay: two models, two columns, two migrations, a short text and  *)
(* a long, nullable one); a leaf is written and judged (MigrationRules: the styles).    *)
EXTENDS MigrationPlan, MigrationRules, TLC

CONSTANTS A, B, x, y

VARIABLE machine   \* the one that runs

TheKeys == {[app |-> 1, number |-> 1]} \cup {[app |-> 2, number |-> n] : n \in 1..3}
TheSquashes == {{[app |-> 2, number |-> 1]}, {[app |-> 2, number |-> 2]}, {[app |-> 2, number |-> n] : n \in 1..2}}

TheDeclarations ==
  {[kind |-> "CharField", max_length |-> 10, null |-> FALSE],
   [kind |-> "TextField", max_length |-> NoLimit, null |-> TRUE]}

Field(kind, null, default) == [Plain EXCEPT !.kind = kind, !.null = null, !.default = default]
Number == Field("IntegerField", FALSE, FALSE)
Maybe == Field("IntegerField", TRUE, FALSE)
Given == Field("IntegerField", FALSE, TRUE)
Doubtful == [Field("IntegerField", TRUE, FALSE) EXCEPT !.lost = {"null"}]
Hidden == [Number EXCEPT !.lost = {"null"}]
Text == Field("TextField", FALSE, FALSE)
Short == [Field("CharField", FALSE, FALSE) EXCEPT !.max_length = 10]
Foreign == Field("ForeignKey", TRUE, FALSE)
Many == Field("ManyToManyField", FALSE, FALSE)
Pinned(f, c) == [f EXCEPT !.pin = c]
Unread(f) == [f EXCEPT !.lost = {"db_column"}]
Filled(f, how) == [f EXCEPT !.db_default = how]

Nothing == [loops |-> FALSE, traced |-> FALSE, chain |-> {}]
EveryRow == [loops |-> TRUE, traced |-> TRUE, chain |-> {"objects", "all"}]
EveryRowSomewhere == [loops |-> TRUE, traced |-> FALSE, chain |-> {"get_model", "_default_manager"}]
InChunks == [loops |-> TRUE, traced |-> TRUE, chain |-> {"objects", "iterator"}]

Base == [names |-> {}, most |-> 3, wraps |-> {}, served |-> {{A}, {B}}, starts |-> {Number}, fields |-> {Number},
         atomic |-> {TRUE}, known |-> {TRUE}, runs |-> {NoName}, bodies |-> {Nothing}, backends |-> {"sqlite3"},
         sizes |-> {<<>>}]
(* Renaming, removing and pinning the columns of one model. *)
ReleaseStyle ==
  [Base EXCEPT !.names = {"RenameField", "RemoveField", "AlterField", "AddField"},
     !.wraps = {"RemoveField", "RenameField"},
     !.starts = {Number, Many, Foreign, Pinned(Number, x), Pinned(Number, y), Unread(Pinned(Number, x))},
     !.fields = {Number, Pinned(Number, x), Pinned(Number, y), Unread(Pinned(Number, x))}, !.known = BOOLEAN]
(* Renaming, moving, deleting and adding tables. *)
ModelStyle ==
  [Base EXCEPT !.names = {"RenameModel", "RemoveField", "CreateModel", "DeleteModel", "AlterModelTable", "AddField"},
     !.wraps = {"RenameModel"}, !.fields = {Number, Many}]
(* Columns added to tables that have rows and to tables that have none. *)
RowsStyle ==
  [Base EXCEPT !.names = {"CreateModel", "RenameModel", "AddField", "DeleteModel"},
     !.fields = {Number, Maybe, Given, Doubtful, Hidden, Text, Many}]
(* Data passes among the locks of one transaction, or of none. *)
TransactionStyle ==
  [Base EXCEPT !.names = {"CreateModel", "AddField", "RunPython", "AddIndex", "AddIndexConcurrently",
                          "AlterModelOptions", "CreateExtension"},
     !.wraps = {"RunPython"}, !.fields = {Given}, !.atomic = BOOLEAN, !.runs = {NoName, "forward", "other.forward"},
     !.bodies = {Nothing, EveryRow, EveryRowSomewhere, InChunks}]
(* What each operation does to a table under load, one and two at a time. *)
LockStyle ==
  [Base EXCEPT !.names = {"CreateModel", "AlterField", "AddField", "AddIndex", "AddIndexConcurrently",
                          "AddConstraint", "RenameModel"},
     !.most = 2, !.starts = {Number, Short, Maybe}, !.fields = {Number, Maybe, Hidden, Text, Foreign}, !.atomic = BOOLEAN,
     !.known = BOOLEAN, !.served = {{A}, {B}, {A, B}}, !.backends = {"postgresql", "sqlite3"},
     !.sizes = {(A :> "small"), (B :> "small"), (A :> "sustained") @@ (B :> "small"), (A :> "small") @@ (B :> "sustained")}]
(* The statements that look like another's: CONCURRENTLY, NOT VALID, a VOLATILE default. *)
LookalikeStyle ==
  [Base EXCEPT !.names = {"AddField", "AlterField", "AddIndex", "AddIndexConcurrently", "RemoveIndex",
                          "RemoveIndexConcurrently", "AddConstraint", "AddConstraintNotValid", "ValidateConstraint",
                          "RemoveConstraint", "CreateModel", "RunPython"},
     !.most = 2, !.served = {{A}}, !.starts = {Maybe, Filled(Number, "volatile")},
     !.fields = {Number, Filled(Number, "constant"), Filled(Number, "volatile"), Filled(Foreign, "volatile")},
     !.atomic = BOOLEAN, !.backends = {"postgresql"}, !.sizes = {<<>>, A :> "small"}]
TheStyles == {ReleaseStyle, ModelStyle, RowsStyle, TransactionStyle, LockStyle, LookalikeStyle}

\* What ReleasesAreWarned of MigrationProofs supposes holds of these styles.
ASSUME NoStylePinsAJoin == JoinsHaveNoColumn

Symmetric == Permutations(Model) \cup Permutations(Column)

NothingReplayed == Init /\ table = [m \in Model |-> NoTable]
NothingWritten ==
  /\ style = Base /\ steps = <<>> /\ tables = [m \in Model |-> Absent]
  /\ leaf = [atomic |-> TRUE, known |-> TRUE, body |-> Nothing, backend |-> "sqlite3", sizes |-> <<>>]

MigrationsInit ==
  \/ machine = "plan" /\ PlanInit /\ NothingReplayed /\ NothingWritten
  \/ machine = "replay" /\ Init /\ PlanInit /\ NothingWritten
  \/ machine = "rules" /\ LeafInit /\ PlanInit /\ NothingReplayed

MigrationsNext ==
  /\ UNCHANGED machine
  /\ \/ machine = "plan" /\ PlanNext /\ UNCHANGED <<vars, leafVars>>
     \/ machine = "replay" /\ Next /\ UNCHANGED <<history, leafVars>>
     \/ machine = "rules" /\ LeafNext /\ UNCHANGED <<history, vars>>

MigrationsSpec == MigrationsInit /\ [][MigrationsNext]_<<machine, history, vars, leafVars>>
=============================================================================
