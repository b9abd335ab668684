---------------------------- MODULE MigrationReplay ----------------------------
(***************************************************************************)
(* The migrations of one app, replayed and run side by side.  migrations/  *)
(* state.py folds the operations, in the order of the plan, into the       *)
(* columns it believes each model to have, and hands every operation the   *)
(* facts that preceded it; the database applies the same operations to the *)
(* tables themselves.  A rule sees the facts, production sees the tables:  *)
(* DJM-002, judging an AlterField by them, is carried along.               *)
(*                                                                         *)
(* One app with one chain of migrations, so its leaf is its last one, and  *)
(* the leaf is what is about to be deployed.  An operation inside          *)
(* SeparateDatabaseAndState is the same operation (its state half reaches  *)
(* neither side).                                                          *)
(***************************************************************************)
EXTENDS Naturals, FiniteSets

CONSTANTS
  Model,          \* names of models
  Column,         \* names of columns
  Declaration,    \* what a column can be declared as: [kind, max_length, null]
  Leaf,           \* the number of migrations; the last is the app's leaf
  MaxOperations,  \* bound: operations in all of them
  MaxDeclared,    \* bound: columns that appear in one operation
  Computed        \* the keywords a project computes: of "null" and "max_length"

ASSUME ColumnsAreDeclared ==
  /\ Declaration \subseteq [kind : STRING, max_length : Nat, null : BOOLEAN]
  /\ \A d \in Declaration : d.kind # "none"
ASSUME HistoryHasALeaf == Leaf \in Nat \ {0} /\ {MaxOperations, MaxDeclared} \subseteq Nat
ASSUME ComputedAreKeywords == Computed \subseteq {"null", "max_length"}

VARIABLES
  now,        \* the migration being applied
  operations, \* operations applied so far
  models,     \* MigrationState.models: the columns a replay believes in, and who created them
  unknown,    \* MigrationState.unknown: the models it has lost track of
  table,      \* the database: the columns there are, and the migration that made the table
  applied     \* the last Applied, with the change that operation really made

vars == <<now, operations, models, unknown, table, applied>>

OperationName == {"none", "CreateModel", "DeleteModel", "RenameModel", "AddField", "AlterField",
                  "RemoveField", "RenameField", "AddIndex", "ThirdParty"}
VARIABLE_LENGTH_TEXT == {"CharField", "TextField", "SlugField", "EmailField", "URLField"}
RELATION_FIELDS == {"ForeignKey", "OneToOneField"}

(* No limit is 0, and no creator is migration 0: one that is not in the project. *)
NoLimit == 0
Unseen == 0

NoColumn == [kind |-> "none", max_length |-> NoLimit, null |-> FALSE]
NoField == [kind |-> "none", max_length |-> NoLimit, null |-> FALSE, unreadable |-> {}]

Columns == [Column -> Declaration \cup {NoColumn}]
Few == {columns \in Columns : Cardinality({c \in Column : columns[c] # NoColumn}) <= MaxDeclared}
NoColumns == [c \in Column |-> NoColumn]
NoFields == [c \in Column |-> NoField]
NoModel == [tracked |-> FALSE, fields |-> NoFields, created_by |-> Unseen]
NoTable == [exists |-> FALSE, columns |-> NoColumns, made_by |-> Unseen]

-----------------------------------------------------------------------------
(* graph.fields.field_from_call: a keyword that is computed reads as Django's *)
(* default and is listed.                                                     *)

Reading(d, lost) ==
  [kind |-> d.kind,
   max_length |-> IF "max_length" \in lost THEN NoLimit ELSE d.max_length,
   null |-> d.null /\ "null" \notin lost,
   unreadable |-> lost]

MayLose(d) == IF d.max_length = NoLimit THEN Computed \ {"max_length"} ELSE Computed

Readings(d) == {Reading(d, lost) : lost \in SUBSET MayLose(d)}

FieldNode == UNION {Readings(d) : d \in Declaration}

(* _read_declared_fields: every entry of a CreateModel is read, or is left out. *)
ReadOf(columns) ==
  {fields \in [Column -> FieldNode \cup {NoField}] :
     \A c \in Column :
        IF columns[c] = NoColumn THEN fields[c] = NoField
        ELSE fields[c] \in Readings(columns[c]) \cup {NoField}}

Complete(columns, fields) == \A c \in Column : columns[c] # NoColumn => fields[c] # NoField

-----------------------------------------------------------------------------
(* DJM-002 over one Applied.                                                 *)

no_rewrite(before, after) ==
  \/ before.kind \in RELATION_FIELDS /\ after.kind \in RELATION_FIELDS
  \/ /\ before.kind \in VARIABLE_LENGTH_TEXT /\ after.kind \in VARIABLE_LENGTH_TEXT
     /\ \/ after.max_length = NoLimit
        \/ before.max_length # NoLimit /\ after.max_length >= before.max_length

Tightened(before, after) == before.null /\ ~after.null
Retyped(before, after) == before.kind # after.kind /\ ~no_rewrite(before, after)
Narrowed(before, after) ==
  /\ before.kind = after.kind /\ before.kind \in VARIABLE_LENGTH_TEXT
  /\ ~no_rewrite(before, after)

Locks(before, after) ==
  Tightened(before, after) \/ Retyped(before, after) \/ Narrowed(before, after)

(* Mutated: every table is taken to hold rows. *)
AnyTable(a) == TRUE

(* MigrationRule.populated, with the leaf in scope. *)
Populated(a) == a.created_by = Unseen \/ a.created_by # Leaf

(* TableRewritingAlterField.inspect, of an operation check passes to it. *)
Reported(a) ==
  /\ a.migration = Leaf
  /\ a.name = "AlterField" /\ a.field # NoField /\ a.existing_field # NoField
  /\ Populated(a)
  /\ Locks(a.existing_field, a.field)
  /\ "null" \notin a.field.unreadable

-----------------------------------------------------------------------------
(* _capture: the facts about the state an operation meets. *)

Existing(m, c) == IF m \notin unknown THEN models[m].fields[c] ELSE NoField

Captured(name, m, c, field, becomes) ==
  applied' = [migration |-> now, name |-> name, field |-> field,
              existing_field |-> Existing(m, c),
              model_tracked |-> m \notin unknown,
              created_by |-> models[m].created_by,
              was |-> table[m].columns[c], becomes |-> becomes, made_by |-> table[m].made_by]

CapturedNoColumn(name, m) ==
  applied' = [migration |-> now, name |-> name, field |-> NoField,
              existing_field |-> NoField,
              model_tracked |-> m \notin unknown,
              created_by |-> models[m].created_by,
              was |-> NoColumn, becomes |-> NoColumn, made_by |-> table[m].made_by]

HoldingFields(m, fields) ==
  [tracked |-> TRUE, fields |-> fields, created_by |-> models[m].created_by]
HoldingColumns(m, columns) ==
  [exists |-> TRUE, columns |-> columns, made_by |-> table[m].made_by]

(* _apply gives a model no CreateModel was seen for a state of its own, and distrusts it. *)
Followed(m) == HoldingFields(m, models[m].fields)
Distrusted(m) == IF models[m].tracked THEN unknown ELSE unknown \cup {m}

Init ==
  /\ now = 1 /\ operations = 0
  /\ models = [m \in Model |-> NoModel] /\ unknown = {}
  /\ \E there \in SUBSET Model, columns \in Few :
        table = [m \in Model |-> IF m \in there
                                 THEN [exists |-> TRUE, columns |-> columns, made_by |-> Unseen]
                                 ELSE NoTable]
  /\ applied = [migration |-> 1, name |-> "none", field |-> NoField, existing_field |-> NoField,
                model_tracked |-> TRUE, created_by |-> Unseen,
                was |-> NoColumn, becomes |-> NoColumn, made_by |-> Unseen]

NextMigration ==
  /\ now < Leaf /\ now' = now + 1
  /\ UNCHANGED <<operations, models, unknown, table, applied>>

Operation ==
  /\ operations < MaxOperations /\ operations' = operations + 1
  /\ UNCHANGED now

CreateModel(m) ==
  /\ Operation /\ ~table[m].exists
  /\ \E columns \in Few : \E fields \in ReadOf(columns) :
        /\ table' = [table EXCEPT ![m] = [exists |-> TRUE, columns |-> columns, made_by |-> now]]
        /\ models' = [models EXCEPT ![m] = [tracked |-> TRUE, fields |-> fields, created_by |-> now]]
        /\ unknown' = IF Complete(columns, fields) THEN unknown ELSE unknown \cup {m}
  /\ CapturedNoColumn("CreateModel", m)

(* Both leave the column holding exactly the declaration they carry. *)
SetsColumn(name, m, c, d) ==
  /\ table' = [table EXCEPT ![m] = HoldingColumns(m, [@.columns EXCEPT ![c] = d])]
  /\ \E field \in Readings(d) \cup {NoField} :
        /\ models' = [models EXCEPT ![m] =
             IF field # NoField THEN HoldingFields(m, [@.fields EXCEPT ![c] = field])
             ELSE Followed(m)]
        /\ unknown' = IF field # NoField THEN Distrusted(m) ELSE unknown \cup {m}
        /\ Captured(name, m, c, field, d)

AddField(m, c) ==
  /\ Operation /\ table[m].exists /\ table[m].columns[c] = NoColumn
  /\ \E d \in Declaration : SetsColumn("AddField", m, c, d)

AlterField(m, c) ==
  /\ Operation /\ table[m].exists /\ table[m].columns[c] # NoColumn
  /\ \E d \in Declaration : SetsColumn("AlterField", m, c, d)

RemoveField(m, c) ==
  /\ Operation /\ table[m].exists /\ table[m].columns[c] # NoColumn
  /\ table' = [table EXCEPT ![m] = HoldingColumns(m, [@.columns EXCEPT ![c] = NoColumn])]
  /\ models' = [models EXCEPT ![m] = HoldingFields(m, [@.fields EXCEPT ![c] = NoField])]
  /\ unknown' = Distrusted(m)
  /\ Captured("RemoveField", m, c, NoField, NoColumn)

Moved(f, old, new, nothing) == [f EXCEPT ![new] = f[old], ![old] = nothing]

(* A rename is followed when both names are read and the old one is known. *)
RenameField(m, old, new) ==
  /\ Operation /\ table[m].exists
  /\ table[m].columns[old] # NoColumn /\ table[m].columns[new] = NoColumn
  /\ table' = [table EXCEPT ![m] = HoldingColumns(m, Moved(@.columns, old, new, NoColumn))]
  /\ \E read \in BOOLEAN :
        IF read /\ models[m].fields[old] # NoField
        THEN /\ models' = [models EXCEPT ![m] = HoldingFields(m, Moved(@.fields, old, new, NoField))]
             /\ UNCHANGED unknown
        ELSE /\ models' = [models EXCEPT ![m] = Followed(m)]
             /\ unknown' = unknown \cup {m}
  /\ Captured("RenameField", m, old, NoField, NoColumn)

DeleteModel(m) ==
  /\ Operation /\ table[m].exists
  /\ table' = [table EXCEPT ![m] = NoTable]
  /\ models' = [models EXCEPT ![m] = NoModel]
  /\ UNCHANGED unknown
  /\ CapturedNoColumn("DeleteModel", m)

(* Mutated: the doubt about a model stays with its old name. *)
DoubtLeftBehind(old, new) ==
  IF ~models[old].tracked THEN unknown \cup {new} ELSE unknown \ {old}

DoubtMoved(old, new) ==
  IF ~models[old].tracked THEN unknown \cup {new}
  ELSE IF old \in unknown THEN (unknown \ {old}) \cup {new}
  ELSE unknown

RenameModel(old, new) ==
  /\ Operation /\ table[old].exists /\ ~table[new].exists
  /\ table' = [table EXCEPT ![new] = table[old], ![old] = NoTable]
  /\ models' = [models EXCEPT ![new] = Followed(old), ![old] = NoModel]
  /\ unknown' = DoubtMoved(old, new)
  /\ CapturedNoColumn("RenameModel", old)

(* An index, a constraint, an option: no column changes. *)
OtherOperation(m) ==
  /\ Operation /\ table[m].exists
  /\ models' = [models EXCEPT ![m] = Followed(m)] /\ unknown' = Distrusted(m)
  /\ UNCHANGED table
  /\ CapturedNoColumn("AddIndex", m)

(* An operation of somebody else's may do anything to the model's columns. *)
ThirdParty(m) ==
  /\ Operation /\ table[m].exists
  /\ \E columns \in Few : table' = [table EXCEPT ![m] = HoldingColumns(m, columns)]
  /\ models' = [models EXCEPT ![m] = Followed(m)] /\ unknown' = unknown \cup {m}
  /\ CapturedNoColumn("ThirdParty", m)

Next ==
  \/ NextMigration
  \/ \E m \in Model :
        \/ CreateModel(m) \/ DeleteModel(m) \/ OtherOperation(m) \/ ThirdParty(m)
        \/ \E c \in Column : AddField(m, c) \/ AlterField(m, c) \/ RemoveField(m, c)
        \/ \E old, new \in Column : RenameField(m, old, new)
  \/ \E old, new \in Model : RenameModel(old, new)

Spec == Init /\ [][Next]_vars

-----------------------------------------------------------------------------
Table == [exists : BOOLEAN, columns : Columns, made_by : 0..Leaf]
ModelState == [tracked : BOOLEAN, fields : [Column -> FieldNode \cup {NoField}],
               created_by : 0..Leaf]
Applied == [migration : 1..Leaf, name : OperationName, field : FieldNode \cup {NoField},
            existing_field : FieldNode \cup {NoField}, model_tracked : BOOLEAN,
            created_by : 0..Leaf, was : Declaration \cup {NoColumn},
            becomes : Declaration \cup {NoColumn}, made_by : 0..Leaf]

(* Every variable keeps its type, and a model that is followed is a table. *)
TypeOK ==
  /\ now \in 1..Leaf /\ operations \in 0..MaxOperations
  /\ models \in [Model -> ModelState] /\ unknown \subseteq Model
  /\ table \in [Model -> Table]
  /\ \A m \in Model : models[m].tracked => table[m].exists
  /\ applied \in Applied

(* What an operation is told of the past is so: the prior column, when one is given, is *)
(* a reading of the column there is; of a model the replay saw created and has not lost *)
(* track of, no column is missing; and the table was made where it says (Applied).      *)
FactsAreTrue ==
  /\ applied.existing_field # NoField => applied.existing_field \in Readings(applied.was)
  /\ applied.model_tracked /\ applied.created_by # Unseen =>
       (applied.existing_field = NoField <=> applied.was = NoColumn)
  /\ applied.created_by # Unseen => applied.created_by = applied.made_by

(* DJM-002 is right about a change when it locks a table that holds rows. *)
Costly(a) ==
  /\ a.migration = Leaf /\ a.name = "AlterField" /\ a.made_by # Leaf
  /\ Locks(a.was, a.becomes)

(* It reports no change that costs nothing, however little of a declaration it could    *)
(* read ("lower its confidence or stay quiet", FieldNode.unreadable).                   *)
NoFalseAlarm == Reported(applied) => Costly(applied)

(* It passes over none that does unless the prior column or a keyword was not to be read. *)
NoLockMissed ==
  Costly(applied) /\ ~Reported(applied) =>
    \/ NoField \in {applied.existing_field, applied.field}
    \/ applied.existing_field.unreadable \cup applied.field.unreadable # {}

(* DJM-002 reports no change that costs nothing, and passes over none that does unless  *)
(* the prior column or a keyword was not to be read.                                    *)
VerdictIsTrue == NoFalseAlarm /\ NoLockMissed
=============================================================================
