---------------------------- MODULE MigrationRules ----------------------------
(***************************************************************************)
(* What the DJM rules say of the migration that is about to be deployed,   *)
(* beside what happens when it is: the app's leaf is written one operation *)
(* at a time, each with the tables it meets, and the rules judge what is   *)
(* written so far.  The release in production goes on naming the tables    *)
(* and columns it was built for; Django turns an operation into            *)
(* statements, Postgres holds a statement's lock until its transaction     *)
(* ends, and a rollback undoes the operations from the last to the first.  *)
(*                                                                         *)
(* An operation is told of the past what MigrationReplay shows it to be    *)
(* told: the truth, or (of a model the replay lost track of) nothing.      *)
(***************************************************************************)
EXTENDS MigrationReplay, Sequences, Functions

CONSTANT
  Styles        \* bound: the ways to write a leaf that are looked at, each with the operations
                \* and the fields it may use and the most operations it may have

(* A field as a leaf may declare it: pin is its db_column, db_default what the database *)
(* fills a row with, lost the keywords that cannot be read.  Only a text has a length:  *)
(* of a file's, DJM-002 knows nothing.                                                  *)
Declared ==
  [kind : STRING \ {"none"}, null : BOOLEAN, max_length : Nat, default : BOOLEAN,
   db_default : {"none", "constant", "volatile"}, pin : Column \cup {"none"}, lost : SUBSET STRING]
ASSUME StylesDeclareFields ==
  \A s \in Styles :
    /\ s.fields \cup s.starts \subseteq Declared
    /\ \A f \in s.fields \cup s.starts : f.max_length # NoLimit => f.kind \in VARIABLE_LENGTH_TEXT

VARIABLES
  style,   \* one of Styles
  leaf,    \* what is given with the leaf: the model in service, atomic, what its file defines
  steps,   \* its operations so far, each with the tables it met
  tables   \* the tables once they have run

leafVars == <<style, leaf, steps, tables>>

NoName == "none"
ASSUME ModelsHaveNames == NoName \notin Model
Plain == [kind |-> "none", null |-> FALSE, max_length |-> NoLimit, default |-> FALSE, db_default |-> "none",
          pin |-> NoName, lost |-> {}]
NoDeclared == Plain
NoFieldsYet == [c \in Column |-> NoDeclared]
Absent == [exists |-> FALSE, table |-> NoName, born |-> "never", fields |-> NoFieldsYet]

TABLE_VALUED_FIELDS == {"ManyToManyField", "TaggableManager"}
EMPTY_STRING_FIELDS == {"CharField", "TextField", "SlugField", "EmailField", "URLField", "FileField"}
IsRelation(field) == field.kind \in RELATION_FIELDS \cup {"ManyToManyField"}

(* OperationKind, by the operation's name. *)
SCHEMA == {"CreateModel", "DeleteModel", "RenameModel", "AlterModelTable", "AddField", "RemoveField",
           "AlterField", "RenameField", "CreateExtension"}
INDEX == {"AddIndex", "RemoveIndex", "AddIndexConcurrently", "RemoveIndexConcurrently"}
CONSTRAINT == {"AddConstraint", "RemoveConstraint", "AddConstraintNotValid", "ValidateConstraint"}
DATA_KINDS == {"RunPython", "RunSQL"}
LOCKING_KINDS == SCHEMA \cup INDEX \cup CONSTRAINT

-----------------------------------------------------------------------------
(* Where Django keeps a field's data, and the names a release uses.            *)

Column_of(name, field) ==
  IF field.pin # NoName THEN <<field.pin>>
  ELSE IF IsRelation(field) THEN <<name, "_id">> ELSE <<name>>

Concrete(t) == {c \in Column : t.fields[c] # NoDeclared /\ t.fields[c].kind \notin TABLE_VALUED_FIELDS}
Joining(t) == {c \in Column : t.fields[c].kind \in TABLE_VALUED_FIELDS}

FieldOf(t, c) == IF c \in Column THEN t.fields[c] ELSE NoDeclared
TableOf(d, m) == IF m \in Model THEN d[m] ELSE Absent

NamesOf(t) ==
  IF ~t.exists THEN {}
  ELSE {<<t.table>>} \cup {<<t.table, Column_of(c, t.fields[c])>> : c \in Concrete(t)}
                     \cup {<<t.table, "joins", c>> : c \in Joining(t)}
Names(d) == UNION {NamesOf(d[m]) : m \in Model}

(* What the release in production names, before the leaf. *)
Running == IF steps = <<>> THEN Names(tables) ELSE Names(steps[1].met)
Gone(d) == Running \ Names(d)

NoCollision(d) ==
  /\ \A m, n \in Model : m # n /\ d[m].exists /\ d[n].exists => d[m].table # d[n].table
  /\ \A m \in Model : \A c, e \in Concrete(d[m]) :
        c # e => Column_of(c, d[m].fields[c]) # Column_of(e, d[m].fields[e])

(* The tables after an operation. *)
Changed(d, op) ==
  LET t == TableOf(d, op.model)
      Holding(fields) == [d EXCEPT ![op.model].fields = fields] IN
  CASE op.name = "CreateModel" ->
         [d EXCEPT ![op.model] = [exists |-> TRUE, table |-> op.model, born |-> "leaf", fields |-> NoFieldsYet]]
    [] op.name = "DeleteModel" -> [d EXCEPT ![op.model] = Absent]
    [] op.name = "RenameModel" ->
         [d EXCEPT ![op.to] = [t EXCEPT !.table = IF t.table = op.model THEN op.to ELSE @], ![op.model] = Absent]
    [] op.name = "AlterModelTable" -> [d EXCEPT ![op.model].table = op.to]
    [] op.name \in {"AddField", "AlterField"} -> Holding([t.fields EXCEPT ![op.column] = op.field])
    [] op.name = "RemoveField" -> Holding([t.fields EXCEPT ![op.column] = NoDeclared])
    [] op.name = "RenameField" -> Holding(Moved(t.fields, op.column, op.to, NoDeclared))
    [] OTHER -> d

-----------------------------------------------------------------------------
(* The statements Django makes of an operation.  words is what locks.RULES     *)
(* looks for; lock and work are what Postgres takes and does: how much they    *)
(* stop (1 nothing a request does, 2 writes, 3 everything), how far they grow. *)

CATALOGUE == 0
SCAN == 1
REWRITE == 2

Statement(words, lock, work) == [words |-> words, lock |-> lock, work |-> work]
AddColumn == Statement({"ALTER TABLE", "ADD COLUMN"}, 3, CATALOGUE)
AddVolatileColumn == Statement({"ALTER TABLE", "ADD COLUMN", "DEFAULT VOLATILE"}, 3, REWRITE)
DropColumn == Statement({"ALTER TABLE", "DROP COLUMN"}, 3, CATALOGUE)
Rename == Statement({"ALTER TABLE", "RENAME"}, 3, CATALOGUE)
AlterType == Statement({"ALTER TABLE", "ALTER COLUMN", "TYPE"}, 3, REWRITE)
GrowType == [AlterType EXCEPT !.work = CATALOGUE]
SetNotNull == Statement({"ALTER TABLE", "ALTER COLUMN", "SET OR DROP", "SET NOT NULL"}, 3, SCAN)
DropNotNull == Statement({"ALTER TABLE", "ALTER COLUMN", "SET OR DROP"}, 3, CATALOGUE)
ChangeDefault == DropNotNull
CreateTable == Statement({"CREATE TABLE"}, 0, CATALOGUE)
DropTable == Statement({"DROP TABLE"}, 3, CATALOGUE)
CreateIndex == Statement({"CREATE INDEX"}, 2, SCAN)
CreateUniqueIndex == Statement({"CREATE INDEX", "UNIQUE"}, 2, SCAN)
CreateIndexConcurrently == Statement({"CREATE INDEX", "CONCURRENTLY"}, 1, SCAN)
AddCheck == Statement({"ALTER TABLE", "ADD CONSTRAINT"}, 3, SCAN)
AddUnique == Statement({"ALTER TABLE", "ADD CONSTRAINT", "UNIQUE"}, 3, REWRITE)
AddExclusion == Statement({"ALTER TABLE", "ADD CONSTRAINT", "EXCLUDE"}, 3, SCAN)
DropIndex == Statement({"DROP INDEX"}, 3, CATALOGUE)
DropIndexConcurrently == Statement({"DROP INDEX", "CONCURRENTLY"}, 1, CATALOGUE)
AddNotValid == Statement({"ALTER TABLE", "ADD CONSTRAINT", "NOT VALID"}, 3, CATALOGUE)
Validate == Statement({"ALTER TABLE", "VALIDATE CONSTRAINT"}, 1, SCAN)
DropConstraint == Statement({"ALTER TABLE", "DROP CONSTRAINT"}, 3, CATALOGUE)

(* Every way to declare a constraint: its class and, of a UniqueConstraint, whether it *)
(* has one of INDEX_BACKED.  A class of the project's own is anything.                 *)
Constraints == {"CheckConstraint", "UniqueConstraint", "UniqueConstraint condition", "ExclusionConstraint",
                "OwnConstraint"}

When(condition, statement) == IF condition THEN <<statement>> ELSE <<>>

(* Django joins what it changes of one column into one statement: the first rule that    *)
(* matches it is the worst of those that match its parts, which are written apart here.  *)
(* The default that a column is filled with while it is tightened is left out.           *)
StatementsOf(op, met) ==
  LET t == TableOf(met, op.model)
      was == FieldOf(t, op.column)
      joins == was.kind \in TABLE_VALUED_FIELDS IN
  CASE op.name = "CreateModel" -> <<CreateTable>>
    [] op.name = "DeleteModel" -> <<DropTable>>
    [] op.name = "RenameModel" -> When(t.table = op.model, Rename)
    [] op.name = "AlterModelTable" -> When(t.table # op.to, Rename)
    [] op.name = "AddField" ->
         IF op.field.kind \in TABLE_VALUED_FIELDS THEN <<CreateTable>>
         ELSE <<IF op.field.db_default = "volatile" THEN AddVolatileColumn ELSE AddColumn>>
              \o When(op.field.kind = "ForeignKey", CreateIndex)
    [] op.name = "RemoveField" -> IF joins THEN <<DropTable>> ELSE <<DropColumn>>
    [] op.name = "RenameField" ->
         When(joins \/ Column_of(op.column, was) # Column_of(op.to, was), Rename)
    [] op.name = "AlterField" ->
         When(Column_of(op.column, was) # Column_of(op.column, op.field), Rename)
         \o When(<<was.kind, was.max_length>> # <<op.field.kind, op.field.max_length>>,
                 IF no_rewrite(was, op.field) THEN GrowType ELSE AlterType)
         \o When(was.db_default # op.field.db_default, ChangeDefault)
         \o When(Tightened(was, op.field), SetNotNull)
         \o When(~was.null /\ op.field.null, DropNotNull)
    [] op.name = "AddIndex" -> <<CreateIndex>>
    [] op.name = "AddIndexConcurrently" -> <<CreateIndexConcurrently>>
    [] op.name = "RemoveIndex" -> <<DropIndex>>
    [] op.name = "RemoveIndexConcurrently" -> <<DropIndexConcurrently>>
    [] op.name = "AddConstraintNotValid" -> <<AddNotValid>>
    [] op.name = "ValidateConstraint" -> <<Validate>>
    [] op.name = "AddConstraint" ->
         CASE op.how = "CheckConstraint" -> <<AddCheck>>
           [] op.how = "UniqueConstraint" -> <<AddUnique>>
           [] op.how = "UniqueConstraint condition" -> <<CreateUniqueIndex>>
           [] op.how = "ExclusionConstraint" -> <<AddExclusion>>
           [] OTHER -> <<>>
    [] op.name = "RemoveConstraint" ->
         CASE op.how = "UniqueConstraint condition" -> <<DropIndex>>
           [] op.how = "OwnConstraint" -> <<>>
           [] OTHER -> <<DropConstraint>>
    [] OTHER -> <<>>

(* Whether an operation stops the release in production, and for how long. *)
InService(s) == TableOf(s.met, s.op.model).born = "before"
LocksTheTable(s) ==
  /\ s.op.name \notin DATA_KINDS /\ InService(s)
  /\ \E i \in DOMAIN StatementsOf(s.op, s.met) :
        StatementsOf(s.op, s.met)[i].lock >= 2 /\ StatementsOf(s.op, s.met)[i] # CreateTable
Stalls(statement) == statement.lock >= 2 /\ statement.work > CATALOGUE

-----------------------------------------------------------------------------
(* What a rule is told.                                                        *)

Written == DOMAIN steps
Separate(i) == steps[i].op.separate
Existing_field(i) ==
  LET s == steps[i] IN
  IF InService(s) /\ ~leaf.known THEN NoDeclared ELSE FieldOf(TableOf(s.met, s.op.model), s.op.column)
(* A keyword that cannot be read leaves Django's default behind. *)
ReadField(field) == [field EXCEPT !.null = @ /\ "null" \notin field.lost]

(* Mutated: every table is taken to be in service. *)
AnyPopulated(i) == TRUE
(* MigrationRule.populated: a table no CreateModel was seen for has been there all along. *)
PopulatedTable(i) == TableOf(steps[i].met, steps[i].op.model).born # "leaf"

(* DJM-001. *)
NonNullableAddFieldWithoutDefault(i) ==
  LET op == steps[i].op
      field == ReadField(op.field) IN
  /\ op.name = "AddField" /\ PopulatedTable(i)
  /\ ~field.null /\ ~field.default
  /\ field.kind \notin TABLE_VALUED_FIELDS \cup EMPTY_STRING_FIELDS
  /\ field.lost \cap {"null", "default"} = {}

(* DJM-002, over the declarations in full. *)
TableRewritingAlterField(i) ==
  LET op == steps[i].op
      was == Existing_field(i) IN
  /\ op.name = "AlterField" /\ was # NoDeclared /\ PopulatedTable(i)
  /\ Locks(ReadField(was), ReadField(op.field)) /\ "null" \notin op.field.lost

(* DJM-003. *)
BlockingAddIndex(i) == steps[i].op.name = "AddIndex" /\ PopulatedTable(i)

(* DJM-009: the severity goes by the statement it expects. *)
Emitted(how) ==
  CASE how \in {"CheckConstraint", "ExclusionConstraint", "UniqueConstraint"} -> "HIGH"
    [] how = "UniqueConstraint condition" -> "MEDIUM"
    [] OTHER -> "none"
ValidatedAddConstraint(i) ==
  /\ steps[i].op.name = "AddConstraint" /\ PopulatedTable(i)
  /\ Emitted(steps[i].op.how) # "none"

(* DJM-004.  _deletes_model looks at the whole file, wrapped operations included. *)
DeletesModel(m) == \E i \in Written : steps[i].op.name = "DeleteModel" /\ steps[i].op.model = m
RemoveFieldBreaksRollingDeploy(i) ==
  LET op == steps[i].op IN
  /\ op.name = "RemoveField" /\ ~Separate(i) /\ PopulatedTable(i)
  /\ ~DeletesModel(op.model)

(* DJM-005.  _repinned and _table_pinned_to take the first one in the file's own list. *)
Repinning(m, names) ==
  {i \in Written : /\ ~Separate(i) /\ steps[i].op.name = "AlterField"
                   /\ steps[i].op.model = m /\ steps[i].op.column \in names}
Retabling(names) ==
  {i \in Written : ~Separate(i) /\ steps[i].op.name = "AlterModelTable" /\ steps[i].op.model \in names}
FirstOf(S) == CHOOSE i \in S : \A j \in S : i <= j

(* Mutated: what a field is pinned to is not looked at. *)
PlacedByName(name, field) == <<name>>
Placed(name, field) == IF field = NoDeclared THEN <<name>> ELSE Column_of(name, field)
PinIsRead(field) == "db_column" \notin field.lost
(* Where a db_column cannot be read, nothing is said. *)
ColumnMoves(i) ==
  LET op == steps[i].op
      pins == Repinning(op.model, {op.column, op.to})
      before == Existing_field(i)
      after == IF pins # {} THEN steps[FirstOf(pins)].op.field ELSE before IN
  PinIsRead(before) /\ PinIsRead(after) /\ Placed(op.column, before) # Placed(op.to, after)
ModelMoves(i) ==
  LET op == steps[i].op
      pins == Retabling({op.model, op.to}) IN
  op.model # (IF pins # {} THEN steps[FirstOf(pins)].op.to ELSE op.to)
RenameBreaksRollingDeploy(i) ==
  /\ ~Separate(i) /\ PopulatedTable(i)
  /\ \/ steps[i].op.name = "RenameField" /\ ColumnMoves(i)
     \/ steps[i].op.name = "RenameModel" /\ ModelMoves(i)

(* DJM-006. *)
Irreversible(i) == steps[i].op.name \in DATA_KINDS /\ ~steps[i].op.reverse
SchemaOperations == {i \in Written : steps[i].op.name \in LOCKING_KINDS}
IrreversibleDataOperationBlocksRollback(i) == Irreversible(i) /\ SchemaOperations # {}

(* DJM-007: of the file's function of that name, its loop over rows without a slice,      *)
(* traced to a queryset or not; reported at the first operation that runs the function,   *)
(* of the file's own list before those in a wrapper.                                      *)
MANAGER_SOURCES == {"objects", "_default_manager", "_base_manager"}
ManagerChain(body) == body.chain \cap MANAGER_SOURCES # {} /\ body.chain \cap {"get", "first", "count", "aggregate"} = {}
Bounded(body) == body.chain \cap {"iterator", "aiterator"} # {}
UnboundedRows(body) == body.loops /\ ~Bounded(body) /\ (body.traced \/ ManagerChain(body))
ForwardNames == {i \in Written : steps[i].op.runs # NoName}
Forward ==
  LET own == {i \in ForwardNames : ~Separate(i)} IN FirstOf(IF own # {} THEN own ELSE ForwardNames)
UnboundedQuerysetInDataMigration(i) == UnboundedRows(leaf.body) /\ i \in ForwardNames /\ i = Forward

(* DJM-008. *)
(* Mutated: the data passes before it are not counted. *)
NoDataBefore(i) == FALSE
DataBefore(i) == \E j \in 1..(i - 1) : steps[j].op.name \in DATA_KINDS
Blocking(i) == {j \in 1..(i - 1) : /\ steps[j].op.name \in LOCKING_KINDS \ {"CreateModel"}
                                   /\ PopulatedTable(j)}
SchemaAndDataInOneTransaction(i) ==
  /\ leaf.atomic /\ steps[i].op.name \in DATA_KINDS
  /\ ~DataBefore(i) /\ Blocking(i) # {}

-----------------------------------------------------------------------------
(* DJM-010, over what sqlmigrate prints of the leaf.                           *)

(* locks.RULES, in its order: the first whose words a statement holds decides.  What a  *)
(* table or a column is called is not among a statement's words.                        *)
RULES == <<
  Statement({"CREATE INDEX", "CONCURRENTLY"}, 1, SCAN),
  Statement({"DROP INDEX", "CONCURRENTLY"}, 1, CATALOGUE),
  Statement({"CREATE INDEX"}, 2, SCAN),
  Statement({"ALTER TABLE", "VALIDATE CONSTRAINT"}, 1, SCAN),
  Statement({"ALTER TABLE", "ADD CONSTRAINT", "NOT VALID"}, 3, CATALOGUE),
  Statement({"ALTER TABLE", "ADD CONSTRAINT", "UNIQUE"}, 3, REWRITE),
  Statement({"ALTER TABLE", "ADD CONSTRAINT"}, 3, SCAN),
  Statement({"ALTER TABLE", "ALTER COLUMN", "TYPE"}, 3, REWRITE),
  Statement({"ALTER TABLE", "ALTER COLUMN", "SET NOT NULL"}, 3, SCAN),
  Statement({"ALTER TABLE", "ADD COLUMN", "DEFAULT VOLATILE"}, 3, REWRITE),
  Statement({"ALTER TABLE", "ADD COLUMN"}, 3, CATALOGUE),
  Statement({"ALTER TABLE", "DROP COLUMN"}, 3, CATALOGUE),
  Statement({"ALTER TABLE", "ALTER COLUMN", "SET OR DROP"}, 3, CATALOGUE),
  Statement({"ALTER TABLE", "DROP CONSTRAINT"}, 3, CATALOGUE),
  Statement({"ALTER TABLE", "RENAME"}, 3, CATALOGUE),
  Statement({"ALTER TABLE", "SET ("}, 1, CATALOGUE),
  Statement({"DROP INDEX"}, 3, CATALOGUE),
  Statement({"DROP TABLE"}, 3, CATALOGUE),
  Statement({"TRUNCATE"}, 3, CATALOGUE),
  Statement({"CREATE TABLE"}, 0, CATALOGUE),
  Statement({"INSERT OR UPDATE"}, 0, CATALOGUE)>>
UNKNOWN == Statement({}, 0, CATALOGUE)

(* Mutated: the last of the rules that match decides. *)
ClassifyByLast(statement) ==
  LET said == {r \in DOMAIN RULES : RULES[r].words \subseteq statement.words} IN
  IF said = {} THEN UNKNOWN ELSE RULES[CHOOSE r \in said : \A q \in said : q <= r]

Classify(statement) ==
  LET said == {r \in DOMAIN RULES : RULES[r].words \subseteq statement.words} IN
  IF said = {} THEN UNKNOWN ELSE RULES[FirstOf(said)]

Dangerous(statement) == Classify(statement).lock >= 2 /\ Classify(statement).work > CATALOGUE

(* The lines that are printed, by operation and place; a table is measured by its name. *)
Lines == UNION {{<<j, k>> : k \in DOMAIN StatementsOf(steps[j].op, steps[j].met)} : j \in Written}
Line(l) == StatementsOf(steps[l[1]].op, steps[l[1]].met)[l[2]]
Earlier(l, k) == l[1] < k[1] \/ (l[1] = k[1] /\ l[2] < k[2])
TableNamed(l) == TableOf(steps[l[1]].met, steps[l[1]].op.model).table
Sized(l) == IF TableNamed(l) \in DOMAIN leaf.sizes THEN leaf.sizes[TableNamed(l)] ELSE "unknown"

DangerousLines == {l \in Lines : Dangerous(Line(l))}
Effort(l) == 4 * Classify(Line(l)).work + Classify(Line(l)).lock
Worst ==
  CHOOSE l \in DangerousLines :
    \A k \in DangerousLines \ {l} : Effort(k) < Effort(l) \/ (Effort(k) = Effort(l) /\ Earlier(l, k))

(* _severity: what was not measured stays as severe as the rule declares it. *)
SeverityFor(size) ==
  CASE size = "noticeable" -> "MEDIUM" [] size = "small" -> "LOW" [] OTHER -> "HIGH"

PostgresIsAsked == leaf.backend = "postgresql"
BlockingPendingMigration == PostgresIsAsked /\ DangerousLines # {}

-----------------------------------------------------------------------------
(* Writing the leaf.                                                           *)

Op(name, m) ==
  [name |-> name, model |-> m, column |-> NoName, to |-> NoName, field |-> NoDeclared,
   how |-> "none", separate |-> FALSE, reverse |-> TRUE, runs |-> NoName]

Write(op) ==
  /\ Len(steps) < style.most /\ op.name \in style.names
  /\ \E separate \in (IF op.name \in style.wraps THEN BOOLEAN ELSE {FALSE}) :
        steps' = Append(steps, [op |-> [op EXCEPT !.separate = separate], met |-> tables])
  /\ tables' = Changed(tables, op) /\ NoCollision(tables')
  /\ UNCHANGED <<style, leaf>>

Has(m, c) == tables[m].exists /\ tables[m].fields[c] # NoDeclared
Lacks(m, c) == tables[m].exists /\ tables[m].fields[c] = NoDeclared

WriteCreateModel == \E m \in Model : ~tables[m].exists /\ Write(Op("CreateModel", m))
WriteDeleteModel == \E m \in Model : tables[m].exists /\ Write(Op("DeleteModel", m))
WriteRenameModel ==
  \E old, new \in Model :
    tables[old].exists /\ ~tables[new].exists /\ Write([Op("RenameModel", old) EXCEPT !.to = new])
WriteAlterModelTable ==
  \E m, t \in Model : tables[m].exists /\ Write([Op("AlterModelTable", m) EXCEPT !.to = t])
WriteAddField ==
  \E m \in Model, c \in Column, f \in style.fields :
    Lacks(m, c) /\ Write([Op("AddField", m) EXCEPT !.column = c, !.field = f])
WriteRemoveField ==
  \E m \in Model, c \in Column : Has(m, c) /\ Write([Op("RemoveField", m) EXCEPT !.column = c])
(* A field that has a table of its own is not altered into one that has not. *)
WriteAlterField ==
  \E m \in Model, c \in Column, f \in style.fields :
    /\ Has(m, c)
    /\ tables[m].fields[c].kind \in TABLE_VALUED_FIELDS <=> f.kind \in TABLE_VALUED_FIELDS
    /\ Write([Op("AlterField", m) EXCEPT !.column = c, !.field = f])
WriteRenameField ==
  \E m \in Model : \E old, new \in Column :
    Has(m, old) /\ Lacks(m, new) /\ Write([Op("RenameField", m) EXCEPT !.column = old, !.to = new])
(* CONCURRENTLY is refused in a transaction. *)
WriteIndex ==
  \E m \in Model : /\ tables[m].exists
                   /\ \/ Write(Op("AddIndex", m))
                      \/ ~leaf.atomic /\ Write(Op("AddIndexConcurrently", m))
(* A table in service has indexes and constraints of every kind, to drop and to validate. *)
WriteRemoveIndex ==
  \E m \in Model : /\ tables[m].born = "before"
                   /\ \/ Write(Op("RemoveIndex", m))
                      \/ ~leaf.atomic /\ Write(Op("RemoveIndexConcurrently", m))
WriteAddConstraint ==
  \E m \in Model, how \in Constraints :
    tables[m].exists /\ Write([Op("AddConstraint", m) EXCEPT !.how = how])
(* In two steps, which is for checks: added unseen, then validated. *)
WriteValidation ==
  \E m \in Model : \/ tables[m].exists /\ Write(Op("AddConstraintNotValid", m))
                   \/ tables[m].born = "before" /\ Write(Op("ValidateConstraint", m))
WriteRemoveConstraint ==
  \E m \in Model, how \in Constraints :
    tables[m].born = "before" /\ Write([Op("RemoveConstraint", m) EXCEPT !.how = how])
WriteRunPython ==
  \E reverse \in BOOLEAN, runs \in style.runs :
    Write([Op("RunPython", NoName) EXCEPT !.reverse = reverse, !.runs = runs])
WriteOther ==
  \/ Write(Op("CreateExtension", NoName))
  \/ \E m \in Model : tables[m].exists /\ Write(Op("AlterModelOptions", m))

LeafInit ==
  /\ style \in Styles /\ steps = <<>>
  /\ \E served \in style.served, start \in style.starts, c \in Column :
        tables = [m \in Model |->
          IF m \in served
          THEN [exists |-> TRUE, table |-> m, born |-> "before", fields |-> [NoFieldsYet EXCEPT ![c] = start]]
          ELSE Absent]
  /\ leaf \in [atomic : style.atomic, known : style.known, body : style.bodies, backend : style.backends,
               sizes : style.sizes]

LeafNext ==
  \/ WriteCreateModel \/ WriteDeleteModel \/ WriteRenameModel \/ WriteAlterModelTable
  \/ WriteAddField \/ WriteRemoveField \/ WriteAlterField \/ WriteRenameField
  \/ WriteIndex \/ WriteRemoveIndex \/ WriteAddConstraint \/ WriteValidation \/ WriteRemoveConstraint
  \/ WriteRunPython \/ WriteOther

LeafSpec == LeafInit /\ [][LeafNext]_leafVars

-----------------------------------------------------------------------------
Statements(i) == Range(StatementsOf(steps[i].op, steps[i].met))

(* The operations that may keep the old name of what is renamed, of which one is read. *)
Pins(i) ==
  LET op == steps[i].op IN
  CASE op.name = "RenameField" -> Repinning(op.model, {op.column, op.to})
    [] op.name = "RenameModel" -> Retabling({op.model, op.to})
    [] OTHER -> {}

(* The one operation of the leaf on what it removes or renames, but for a pin that moves nothing. *)
Sole(i) ==
  LET op == steps[i].op IN
  /\ Cardinality(Pins(i)) <= 1 /\ \A j \in Pins(i) : j > i \/ Rename \notin Statements(j)
  /\ \A j \in Written \ (Pins(i) \cup {i}) : {steps[j].op.model, steps[j].op.to} \cap {op.model, op.to} \subseteq {NoName}

Seen(i) == FieldOf(TableOf(steps[i].met, steps[i].op.model), steps[i].op.column) = Existing_field(i)

Legible(field) == field.lost \cap {"null", "default"} = {}
SeenInFull(i) == Seen(i) /\ Legible(Existing_field(i)) /\ Legible(steps[i].op.field)

BreakReports == {i \in Written : RemoveFieldBreaksRollingDeploy(i) \/ RenameBreaksRollingDeploy(i)}

(* What says itself that it moves a name, and what no rule looks at or can read. *)
SaidOrOverlooked(i) ==
  LET op == steps[i].op IN
  \/ Separate(i) \/ op.name \in {"DeleteModel", "AlterModelTable"}
  \/ Cardinality(Pins(i)) > 1
  \/ op.name = "RenameField" /\ \E f \in {Existing_field(i)} \cup {steps[j].op.field : j \in Pins(i)} : ~PinIsRead(f)
  \/ op.name = "AlterField" /\ Rename \in Statements(i)

(* A ManyToManyField keeps its data in a table that joins, named for the field: no       *)
(* db_column is its column's, and no other kind is known to have a table of its own.     *)
JoinsHaveNoColumn ==
  \A s \in Styles : \A f \in s.fields \cup s.starts :
    f.kind \in TABLE_VALUED_FIELDS => f.kind = "ManyToManyField" /\ f.pin = NoName

(* DJM-004 and DJM-005 report what leaves the release in production without a name it   *)
(* uses, pinned before or after ("Both orders of that pattern are accepted"), and when  *)
(* it is left without one they have said so, or it was a deletion, a wrapper, a moved   *)
(* pin or one that cannot be read; wherever the replay had seen the declaration.        *)
ReleasesBreakAsReported ==
  (\A i \in Written : Seen(i)) =>
    /\ \A i \in BreakReports : Sole(i) => Gone(tables) \cap NamesOf(steps[i].met[steps[i].op.model]) # {}
    /\ Gone(tables) # {} => BreakReports # {} \/ \E i \in Written : SaidOrOverlooked(i)

Aborts(s) ==
  /\ s.op.name = "AddField" /\ InService(s)
  /\ s.op.field.kind \notin TABLE_VALUED_FIELDS \cup EMPTY_STRING_FIELDS
  /\ ~s.op.field.null /\ ~s.op.field.default /\ s.op.field.db_default = "none"

StallReports ==
  {i \in Written : BlockingAddIndex(i) \/ ValidatedAddConstraint(i) \/ TableRewritingAlterField(i)}
StallsAt(l) == Stalls(Line(l)) /\ InService(steps[l[1]])

(* DJM-001 reports the columns Postgres refuses to add to a table in service, and those *)
(* only, whatever the leaf did to its models before, of what can be read of them, where *)
(* no db_default fills the rows; DJM-002, DJM-003 and DJM-009 the operations whose      *)
(* statements stop a table in service while they grow with it, but not what comes with  *)
(* a new column (a foreign key's index, a default worked out row by row), nor a change  *)
(* to a column whose declaration was not seen, or not in full.                          *)
TablesInServiceAreJudged ==
  /\ \A i \in Written :
       steps[i].op.field.db_default = "none" =>
         (NonNullableAddFieldWithoutDefault(i) <=> Aborts(steps[i]) /\ Legible(steps[i].op.field))
  /\ \A i \in StallReports : \E s \in Statements(i) : Stalls(s)
  /\ \A l \in Lines : StallsAt(l) /\ SeenInFull(l[1]) /\ steps[l[1]].op.name # "AddField" => l[1] \in StallReports

(* The order of locks.RULES tells every statement Django makes from the ones it looks   *)
(* like: each is said to lock and to grow as Postgres has it do, but for a text that    *)
(* grows.  So DJM-010 speaks of every pending leaf that stops a table in service for    *)
(* its length, and cites a statement that does; or one that lets a text grow, or on a   *)
(* table of the leaf's own.  It is lowered only where the table it cites was measured.  *)
PendingStallsAreReported ==
  /\ \A l \in Lines : /\ Classify(Line(l)).lock = Line(l).lock
                      /\ Line(l) # GrowType => Classify(Line(l)).work = Line(l).work
  /\ PostgresIsAsked /\ (\E l \in Lines : StallsAt(l)) => BlockingPendingMigration
  /\ BlockingPendingMigration =>
       /\ Stalls(Line(Worst)) \/ Line(Worst) = GrowType
       /\ InService(steps[Worst[1]]) /\ SeverityFor(Sized(Worst)) # "HIGH" => Sized(Worst) \in {"small", "noticeable"}
(* "The table is unavailable for as long as the table is large" (DJM-010's rationale). *)
PendingReportsBlock == BlockingPendingMigration => InService(steps[Worst[1]])

HeldAt(i) == leaf.atomic /\ \E j \in 1..(i - 1) : LocksTheTable(steps[j])
DataPasses == {i \in Written : steps[i].op.name \in DATA_KINDS}
DataReports == {i \in Written : SchemaAndDataInOneTransaction(i)}

(* Migration.unapply: nothing is undone when an operation of the file's own list cannot be; *)
(* one in a wrapper is only met on the way back, and what was undone comes back with the     *)
(* transaction, if there is one.                                                             *)
Raising == {i \in Written : Irreversible(i)}
StillInForce ==
  IF Raising = {} THEN {}
  ELSE IF leaf.atomic \/ \E i \in Raising : ~Separate(i) THEN Written
  ELSE {j \in Written : \E i \in Raising : j <= i}
HalfWay == StillInForce \notin {{}, Written}

(* DJM-008 names one data pass of a leaf, and one that runs while its transaction keeps  *)
(* a table in service locked, or comes after an operation that says nothing to Postgres  *)
(* or nothing a request waits for; the first data pass never escapes it.                 *)
LocksHeldAreReported ==
  /\ Cardinality(DataReports) <= 1
  /\ \A i \in DataReports : HeldAt(i) \/ \E j \in Blocking(i) : \A s \in Statements(j) : s.lock < 2
  /\ \A i \in DataPasses : HeldAt(i) /\ ~DataBefore(i) => i \in DataReports

(* DJM-006 reports a rollback that leaves the schema where it is, or half of it; and one  *)
(* that leaves a statement of the leaf in force never escapes it.                         *)
RollbacksAreReported ==
  LET kept == \E j \in StillInForce : Statements(j) # {}
      reported == \E i \in Written : IrreversibleDataOperationBlocksRollback(i) IN
  /\ kept => reported
  /\ reported => kept \/ HalfWay \/ \A j \in SchemaOperations : Statements(j) = {}

(* What a data pass does to the transaction it runs in and to the way back is reported as  *)
(* it is; and DJM-007 names a pass over every row once, however many operations run it.    *)
DataPassesAreJudged ==
  /\ LocksHeldAreReported /\ RollbacksAreReported
  /\ (\E i \in Written : steps[i].op.runs = "forward" /\ UnboundedRows(leaf.body)) =>
       Cardinality({j \in Written : UnboundedQuerysetInDataMigration(j)}) = 1
=============================================================================
