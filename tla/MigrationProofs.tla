---------------------------- MODULE MigrationProofs ----------------------------
(***************************************************************************)
(* What is proved of a project's migrations, for any models, columns,      *)
(* declarations and history, and for any leaf.                             *)
(*                                                                         *)
(* Of MigrationReplay: Sound relates one model's replayed state to its     *)
(* table: the state is a table's, its creator made that table, and,        *)
(* unless the model is doubted, its fields are readings of the columns.    *)
(* Every operation touches one model, or moves one to a free name, so it   *)
(* suffices that what it writes is sound.  Each fact an operation captures *)
(* follows from the soundness of the state before it.                      *)
(*                                                                         *)
(* Of MigrationRules: LeafInv says of every operation of the leaf that it  *)
(* was written on tables it applies to.  What the rules say of it is then  *)
(* compared with the statements Django makes of it on those tables, of     *)
(* which a lemma for each kind of operation says all there may be.         *)
(*                                                                         *)
(* Of MigrationPlan: names lead forward to a file nothing replaces, what a *)
(* file needs is kept by what it leads to, a round lists what waits for    *)
(* none after all it waited for, and who waits at the end is in a cycle.   *)
(***************************************************************************)
EXTENDS MigrationPlan, MigrationRules, FiniteSetTheorems, WellFoundedInduction, TLAPS

-----------------------------------------------------------------------------
(* The replay and the database, side by side (MigrationReplay).              *)
Told(field, column) ==
  IF column = NoColumn THEN field = NoField ELSE field \in Readings(column)

Sound(state, t, doubted) ==
  /\ state.tracked => t.exists
  /\ ~t.exists => t = NoTable
  /\ ~state.tracked => state = NoModel
  /\ state.created_by # Unseen => t.made_by = state.created_by
  /\ state.tracked /\ ~doubted =>
       /\ state.created_by # Unseen
       /\ \A c \in Column : Told(state.fields[c], t.columns[c])

StateInv ==
  /\ models \in [Model -> ModelState] /\ table \in [Model -> Table] /\ unknown \subseteq Model
  /\ \A m \in Model : Sound(models[m], table[m], m \in unknown)

AppliedInv ==
  /\ applied \in Applied
  /\ FactsAreTrue
  /\ applied.existing_field # NoField => applied.created_by # Unseen
  /\ applied.field # NoField => applied.field \in Readings(applied.becomes)

Inv == now \in 1..Leaf /\ operations \in 0..MaxOperations /\ StateInv /\ AppliedInv

-----------------------------------------------------------------------------
LEMMA ReadingsAreNodes ==
  ASSUME NEW d \in Declaration, NEW f \in Readings(d)
  PROVE  f \in FieldNode /\ f # NoField /\ f.kind = d.kind
<1>1. f \in FieldNode
  BY DEF FieldNode
<1>2. f.kind = d.kind
  BY DEF Readings, Reading
<1>3. d.kind # "none"
  BY ColumnsAreDeclared
<1>. QED
  BY <1>1, <1>2, <1>3 DEF NoField

LEMMA NoColumnIsNotDeclared == NoColumn \notin Declaration
  BY ColumnsAreDeclared DEF NoColumn

LEMMA NothingIsTyped ==
  /\ NoFields \in [Column -> FieldNode \cup {NoField}] /\ NoColumns \in Columns
  /\ NoModel \in ModelState /\ NoTable \in Table
  /\ Sound(NoModel, NoTable, FALSE)
<1>1. NoFields \in [Column -> FieldNode \cup {NoField}] /\ NoColumns \in Columns
  BY DEF NoFields, NoColumns, Columns
<1>2. NoModel \in ModelState /\ NoTable \in Table
  BY <1>1, HistoryHasALeaf DEF NoModel, NoTable, ModelState, Table, Unseen
<1>. QED
  BY <1>1, <1>2 DEF Sound, NoModel, NoTable, Unseen

(* A state that is sound stays sound when one model's part is replaced by a sound one. *)
LEMMA OneModelReplaced ==
  ASSUME StateInv, NEW m \in Model, NEW state \in ModelState, NEW t \in Table,
         models' = [models EXCEPT ![m] = state], table' = [table EXCEPT ![m] = t],
         unknown' \subseteq Model, unknown' \ {m} = unknown \ {m},
         Sound(state, t, m \in unknown')
  PROVE  StateInv'
<1>1. models' \in [Model -> ModelState] /\ table' \in [Model -> Table]
  BY DEF StateInv
<1>2. ASSUME NEW k \in Model PROVE Sound(models'[k], table'[k], k \in unknown')
  <2>1. CASE k = m
    BY <2>1 DEF StateInv
  <2>2. CASE k # m
    <3>1. models'[k] = models[k] /\ table'[k] = table[k] /\ (k \in unknown' <=> k \in unknown)
      BY <2>2 DEF StateInv
    <3>. QED
      BY <3>1 DEF StateInv, Sound
  <2>. QED
    BY <2>1, <2>2
<1>. QED
  BY <1>1, <1>2 DEF StateInv

-----------------------------------------------------------------------------
(* What _capture reads of a sound state is so. *)
LEMMA ColumnIsCaptured ==
  ASSUME StateInv, now \in 1..Leaf, NEW m \in Model, NEW c \in Column, NEW name \in OperationName,
         NEW field \in FieldNode \cup {NoField}, NEW becomes \in Declaration \cup {NoColumn},
         field # NoField => field \in Readings(becomes),
         Captured(name, m, c, field, becomes)
  PROVE  AppliedInv'
<1> DEFINE s == models[m]
           t == table[m]
           prior == Existing(m, c)
<1>1. /\ s \in ModelState /\ t \in Table /\ Sound(s, t, m \in unknown)
      /\ s.fields[c] \in FieldNode \cup {NoField}
      /\ t.columns[c] \in Declaration \cup {NoColumn}
      /\ s.created_by \in 0..Leaf /\ t.made_by \in 0..Leaf
  BY DEF StateInv, ModelState, Table, Columns
<1>2. prior \in FieldNode \cup {NoField}
  BY <1>1 DEF Existing
<1>3. /\ applied'.migration = now /\ applied'.name = name /\ applied'.field = field
      /\ applied'.existing_field = prior /\ applied'.model_tracked = (m \notin unknown)
      /\ applied'.created_by = s.created_by /\ applied'.was = t.columns[c]
      /\ applied'.becomes = becomes /\ applied'.made_by = t.made_by
  BY DEF Captured
<1>4. applied' \in Applied
  BY <1>1, <1>2 DEF Captured, Applied
<1>5. ASSUME ~s.tracked PROVE s.created_by = Unseen /\ s.fields[c] = NoField
  BY <1>1, <1>5 DEF Sound, NoModel, NoFields
<1>6. ASSUME prior # NoField PROVE prior \in Readings(t.columns[c]) /\ s.created_by # Unseen
  <2>1. m \notin unknown /\ prior = s.fields[c] /\ s.tracked
    BY <1>5, <1>6 DEF Existing
  <2>2. s.created_by # Unseen /\ Told(s.fields[c], t.columns[c])
    BY <1>1, <2>1 DEF Sound
  <2>. QED
    BY <1>6, <2>1, <2>2 DEF Told
<1>7. ASSUME m \notin unknown, s.created_by # Unseen
      PROVE  prior = NoField <=> t.columns[c] = NoColumn
  <2>1. prior = s.fields[c] /\ Told(s.fields[c], t.columns[c])
    BY <1>1, <1>5, <1>7 DEF Existing, Sound
  <2>2. CASE t.columns[c] = NoColumn
    BY <2>1, <2>2 DEF Told
  <2>3. CASE t.columns[c] # NoColumn
    BY <1>1, <2>1, <2>3, ReadingsAreNodes DEF Told
  <2>. QED
    BY <2>2, <2>3
<1>8. s.created_by # Unseen => s.created_by = t.made_by
  BY <1>1 DEF Sound
<1>9. FactsAreTrue'
  BY <1>3, <1>6, <1>7, <1>8 DEF FactsAreTrue
<1>. QED
  BY <1>3, <1>4, <1>6, <1>9 DEF AppliedInv

LEMMA NoColumnIsCaptured ==
  ASSUME StateInv, now \in 1..Leaf, NEW m \in Model, NEW name \in OperationName,
         CapturedNoColumn(name, m)
  PROVE  AppliedInv'
<1>1. /\ models[m] \in ModelState /\ table[m] \in Table
      /\ Sound(models[m], table[m], m \in unknown)
      /\ models[m].created_by \in 0..Leaf /\ table[m].made_by \in 0..Leaf
  BY DEF StateInv, ModelState, Table
<1>2. applied' \in Applied
  BY <1>1 DEF CapturedNoColumn, Applied
<1>3. FactsAreTrue'
  BY <1>1 DEF CapturedNoColumn, FactsAreTrue, Sound
<1>. QED
  BY <1>2, <1>3 DEF AppliedInv, CapturedNoColumn

(* A table that is followed under new columns stays sound when it is doubted, or when *)
(* what was known of its columns is known of the new ones.                            *)
LEMMA ColumnsRewritten ==
  ASSUME StateInv, NEW m \in Model, table[m].exists,
         NEW fields \in [Column -> FieldNode \cup {NoField}], NEW columns \in Columns,
         models' = [models EXCEPT ![m] = HoldingFields(m, fields)],
         table' = [table EXCEPT ![m] = HoldingColumns(m, columns)],
         unknown' = Distrusted(m) \/ unknown' = unknown \cup {m},
         ASSUME models[m].tracked, \A c \in Column : Told(models[m].fields[c], table[m].columns[c])
         PROVE  m \in unknown' \/ \A c \in Column : Told(fields[c], columns[c])
  PROVE  StateInv'
<1> DEFINE state == HoldingFields(m, fields)
           t == HoldingColumns(m, columns)
<1>1. models[m] \in ModelState /\ table[m] \in Table /\ Sound(models[m], table[m], m \in unknown)
  BY DEF StateInv
<1>2. state \in ModelState /\ t \in Table
  BY <1>1 DEF HoldingFields, HoldingColumns, ModelState, Table
<1>3. /\ unknown' \subseteq Model /\ unknown' \ {m} = unknown \ {m}
      /\ m \notin unknown' => m \notin unknown /\ models[m].tracked
  BY DEF Distrusted, StateInv
<1>4. m \notin unknown' =>
        models[m].created_by # Unseen /\ \A c \in Column : Told(fields[c], columns[c])
  BY <1>1, <1>3 DEF Sound
<1>5. models[m].created_by # Unseen => table[m].made_by = models[m].created_by
  BY <1>1 DEF Sound
<1>6. Sound(state, t, m \in unknown')
  BY <1>4, <1>5 DEF Sound, HoldingFields, HoldingColumns
<1>7. QED
  <2> HIDE DEF state, t
  <2>. QED
    BY <1>2, <1>3, <1>6, OneModelReplaced DEF state, t

(* The fields of a model and the columns of its table, changed in one place or two. *)
LEMMA OneColumnSet ==
  ASSUME StateInv, NEW m \in Model, NEW c \in Column,
         NEW field \in FieldNode \cup {NoField}, NEW d \in Declaration \cup {NoColumn},
         Told(field, d)
  PROVE  /\ [models[m].fields EXCEPT ![c] = field] \in [Column -> FieldNode \cup {NoField}]
         /\ [table[m].columns EXCEPT ![c] = d] \in Columns
         /\ (\A k \in Column : Told(models[m].fields[k], table[m].columns[k])) =>
              \A k \in Column : Told([models[m].fields EXCEPT ![c] = field][k],
                                     [table[m].columns EXCEPT ![c] = d][k])
<1>1. models[m].fields \in [Column -> FieldNode \cup {NoField}] /\ table[m].columns \in Columns
  BY DEF StateInv, ModelState, Table
<1>. QED
  BY <1>1 DEF Columns

-----------------------------------------------------------------------------
(* Each operation keeps the state sound. *)
LEMMA CreateModelKeeps ==
  ASSUME Inv, NEW m \in Model, CreateModel(m)
  PROVE  StateInv' /\ AppliedInv'
<1>1. PICK columns \in Few : \E fields \in ReadOf(columns) :
        /\ table' = [table EXCEPT ![m] = [exists |-> TRUE, columns |-> columns, made_by |-> now]]
        /\ models' = [models EXCEPT ![m] = [tracked |-> TRUE, fields |-> fields, created_by |-> now]]
        /\ unknown' = IF Complete(columns, fields) THEN unknown ELSE unknown \cup {m}
  BY DEF CreateModel
<1>2. PICK fields \in ReadOf(columns) :
        /\ table' = [table EXCEPT ![m] = [exists |-> TRUE, columns |-> columns, made_by |-> now]]
        /\ models' = [models EXCEPT ![m] = [tracked |-> TRUE, fields |-> fields, created_by |-> now]]
        /\ unknown' = IF Complete(columns, fields) THEN unknown ELSE unknown \cup {m}
  BY <1>1
<1> DEFINE state == [tracked |-> TRUE, fields |-> fields, created_by |-> now]
           t == [exists |-> TRUE, columns |-> columns, made_by |-> now]
<1>3. now \in 1..Leaf /\ now \in 0..Leaf /\ now # Unseen
  BY HistoryHasALeaf DEF Inv, Unseen
<1>4. state \in ModelState /\ t \in Table
  BY <1>3 DEF ModelState, Table, Few, ReadOf
<1>5. ASSUME m \notin unknown', NEW c \in Column PROVE Told(fields[c], columns[c])
  <2>1. columns[c] # NoColumn => fields[c] # NoField
    BY <1>2, <1>5 DEF Complete
  <2>. QED
    BY <2>1 DEF ReadOf, Told
<1>6. Sound(state, t, m \in unknown')
  BY <1>3, <1>5 DEF Sound
<1>7. unknown' \subseteq Model /\ unknown' \ {m} = unknown \ {m}
  BY <1>2 DEF Inv, StateInv
<1>8. StateInv'
  <2> HIDE DEF state, t
  <2>. QED
    BY <1>2, <1>4, <1>6, <1>7, OneModelReplaced DEF Inv, state, t
<1>9. AppliedInv'
  <2>1. "CreateModel" \in OperationName /\ CapturedNoColumn("CreateModel", m)
    BY DEF CreateModel, OperationName
  <2>. QED
    BY <1>3, <2>1, NoColumnIsCaptured DEF Inv
<1>. QED
  BY <1>8, <1>9

LEMMA SetsColumnKeeps ==
  ASSUME Inv, NEW m \in Model, NEW c \in Column, NEW d \in Declaration, NEW name \in OperationName,
         table[m].exists, SetsColumn(name, m, c, d)
  PROVE  StateInv' /\ AppliedInv'
<1>1. PICK field \in Readings(d) \cup {NoField} :
        /\ models' = [models EXCEPT ![m] =
             IF field # NoField THEN HoldingFields(m, [models[m].fields EXCEPT ![c] = field])
             ELSE Followed(m)]
        /\ unknown' = IF field # NoField THEN Distrusted(m) ELSE unknown \cup {m}
        /\ Captured(name, m, c, field, d)
  BY DEF SetsColumn, Inv, StateInv
<1>2. StateInv /\ now \in 1..Leaf
  BY DEF Inv
<1>3. field \in FieldNode \cup {NoField} /\ d # NoColumn
  BY ReadingsAreNodes, NoColumnIsNotDeclared
<1>4. table' = [table EXCEPT ![m] = HoldingColumns(m, [table[m].columns EXCEPT ![c] = d])]
  BY <1>2 DEF SetsColumn, StateInv
<1>5. /\ models[m].fields \in [Column -> FieldNode \cup {NoField}]
      /\ [table[m].columns EXCEPT ![c] = d] \in Columns
  BY <1>2 DEF StateInv, ModelState, Table, Columns
<1>6. StateInv'
  <2>1. CASE field = NoField
    BY <1>1, <1>2, <1>4, <1>5, <2>1, ColumnsRewritten, Zenon DEF Followed
  <2>2. CASE field # NoField
    <3>1. Told(field, d)
      BY <1>1, <1>3, <2>2 DEF Told
    <3>. QED
      BY <1>1, <1>2, <1>3, <1>4, <2>2, <3>1, OneColumnSet, ColumnsRewritten, Zenon
  <2>. QED
    BY <2>1, <2>2
<1>7. AppliedInv'
  BY <1>1, <1>2, <1>3, ColumnIsCaptured
<1>. QED
  BY <1>6, <1>7

LEMMA RemoveFieldKeeps ==
  ASSUME Inv, NEW m \in Model, NEW c \in Column, RemoveField(m, c)
  PROVE  StateInv' /\ AppliedInv'
<1>1. StateInv /\ now \in 1..Leaf /\ table[m].exists
  BY DEF Inv, RemoveField
<1>2. /\ table' = [table EXCEPT ![m] = HoldingColumns(m, [table[m].columns EXCEPT ![c] = NoColumn])]
      /\ models' = [models EXCEPT ![m] = HoldingFields(m, [models[m].fields EXCEPT ![c] = NoField])]
      /\ unknown' = Distrusted(m)
  BY <1>1 DEF RemoveField, StateInv
<1>3. Told(NoField, NoColumn)
  BY DEF Told
<1>4. StateInv'
  BY <1>1, <1>2, <1>3, OneColumnSet, ColumnsRewritten, Zenon
<1>5. AppliedInv'
  <2>1. "RemoveField" \in OperationName /\ Captured("RemoveField", m, c, NoField, NoColumn)
    BY DEF RemoveField, OperationName
  <2>. QED
    BY <1>1, <2>1, ColumnIsCaptured
<1>. QED
  BY <1>4, <1>5

LEMMA RenameFieldKeeps ==
  ASSUME Inv, NEW m \in Model, NEW old \in Column, NEW new \in Column, RenameField(m, old, new)
  PROVE  StateInv' /\ AppliedInv'
<1> DEFINE fields == Moved(models[m].fields, old, new, NoField)
           columns == Moved(table[m].columns, old, new, NoColumn)
<1>1. /\ StateInv /\ now \in 1..Leaf /\ table[m].exists
      /\ table[m].columns[old] # NoColumn /\ table[m].columns[new] = NoColumn
  BY DEF Inv, RenameField
<1>2. /\ models[m] \in ModelState /\ table[m] \in Table
      /\ models[m].fields \in [Column -> FieldNode \cup {NoField}] /\ table[m].columns \in Columns
      /\ Sound(models[m], table[m], m \in unknown)
  BY <1>1 DEF StateInv, ModelState, Table
<1>3. fields \in [Column -> FieldNode \cup {NoField}] /\ columns \in Columns
  BY <1>2 DEF Moved, Columns
<1>4. table' = [table EXCEPT ![m] = HoldingColumns(m, columns)]
  BY <1>1 DEF RenameField, StateInv
<1>5. ASSUME \A c \in Column : Told(models[m].fields[c], table[m].columns[c])
      PROVE  \A c \in Column : Told(fields[c], columns[c])
  <2>1. old # new
    BY <1>1
  <2>2. SUFFICES ASSUME NEW c \in Column PROVE Told(fields[c], columns[c])
    OBVIOUS
  <2>3. CASE c = old
    BY <1>2, <2>3 DEF Told, Moved, Columns
  <2>4. CASE c = new
    BY <1>2, <1>5, <2>1, <2>4 DEF Moved, Columns
  <2>5. CASE c # old /\ c # new
    BY <1>2, <1>5, <2>5 DEF Moved, Columns
  <2>. QED
    BY <2>3, <2>4, <2>5
<1>6. StateInv'
  <2>1. PICK read \in BOOLEAN :
        IF read /\ models[m].fields[old] # NoField
        THEN /\ models' = [models EXCEPT ![m] = HoldingFields(m, fields)]
             /\ UNCHANGED unknown
        ELSE /\ models' = [models EXCEPT ![m] = Followed(m)]
             /\ unknown' = unknown \cup {m}
    BY <1>1 DEF RenameField, StateInv
  <2>2. CASE read /\ models[m].fields[old] # NoField
    <3>1. models[m].tracked
      BY <1>2, <2>2 DEF Sound, NoModel, NoFields
    <3>2. unknown' = Distrusted(m)
      BY <2>1, <2>2, <3>1 DEF Distrusted
    <3> HIDE DEF fields, columns
    <3>. QED
      BY <1>1, <1>3, <1>4, <1>5, <2>1, <2>2, <3>2, ColumnsRewritten, Zenon
  <2>3. CASE ~(read /\ models[m].fields[old] # NoField)
    <3> HIDE DEF fields, columns
    <3>. QED
      BY <1>1, <1>2, <1>3, <1>4, <2>1, <2>3, ColumnsRewritten, Zenon DEF Followed
  <2>. QED
    BY <2>2, <2>3
<1>7. AppliedInv'
  <2>1. "RenameField" \in OperationName /\ Captured("RenameField", m, old, NoField, NoColumn)
    BY DEF RenameField, OperationName
  <2>. QED
    BY <1>1, <2>1, ColumnIsCaptured
<1>. QED
  BY <1>6, <1>7

LEMMA DeleteModelKeeps ==
  ASSUME Inv, NEW m \in Model, DeleteModel(m)
  PROVE  StateInv' /\ AppliedInv'
<1>1. StateInv /\ now \in 1..Leaf
  BY DEF Inv
<1>2. StateInv'
  <2>1. /\ models' = [models EXCEPT ![m] = NoModel] /\ table' = [table EXCEPT ![m] = NoTable]
        /\ unknown' = unknown /\ unknown \subseteq Model
    BY <1>1 DEF DeleteModel, StateInv
  <2>2. NoModel \in ModelState /\ NoTable \in Table /\ Sound(NoModel, NoTable, m \in unknown')
    BY NothingIsTyped DEF Sound
  <2>. QED
    BY <1>1, <2>1, <2>2, OneModelReplaced
<1>3. AppliedInv'
  <2>1. "DeleteModel" \in OperationName /\ CapturedNoColumn("DeleteModel", m)
    BY DEF DeleteModel, OperationName
  <2>. QED
    BY <1>1, <2>1, NoColumnIsCaptured
<1>. QED
  BY <1>2, <1>3

LEMMA OtherOperationKeeps ==
  ASSUME Inv, NEW m \in Model, OtherOperation(m)
  PROVE  StateInv' /\ AppliedInv'
<1>1. StateInv /\ now \in 1..Leaf /\ table[m].exists /\ models[m] \in ModelState /\ table[m] \in Table
  BY DEF Inv, StateInv, OtherOperation
<1>2. HoldingColumns(m, table[m].columns) = table[m]
  BY <1>1 DEF HoldingColumns, Table
<1>3. table' = [table EXCEPT ![m] = HoldingColumns(m, table[m].columns)]
  BY <1>1, <1>2 DEF OtherOperation, StateInv
<1>4. models[m].fields \in [Column -> FieldNode \cup {NoField}] /\ table[m].columns \in Columns
  BY <1>1 DEF ModelState, Table
<1>5. /\ models' = [models EXCEPT ![m] = HoldingFields(m, models[m].fields)]
      /\ unknown' = Distrusted(m)
  BY DEF OtherOperation, Followed
<1>6. StateInv'
  BY <1>1, <1>3, <1>4, <1>5, ColumnsRewritten, Zenon
<1>7. AppliedInv'
  <2>1. "AddIndex" \in OperationName /\ CapturedNoColumn("AddIndex", m)
    BY DEF OtherOperation, OperationName
  <2>. QED
    BY <1>1, <2>1, NoColumnIsCaptured
<1>. QED
  BY <1>6, <1>7

LEMMA ThirdPartyKeeps ==
  ASSUME Inv, NEW m \in Model, ThirdParty(m)
  PROVE  StateInv' /\ AppliedInv'
<1>1. StateInv /\ now \in 1..Leaf /\ table[m].exists /\ models[m] \in ModelState
  BY DEF Inv, StateInv, ThirdParty
<1>2. PICK columns \in Few : table' = [table EXCEPT ![m] = HoldingColumns(m, columns)]
  BY DEF ThirdParty
<1>3. columns \in Columns /\ models[m].fields \in [Column -> FieldNode \cup {NoField}]
  BY <1>1 DEF Few, ModelState
<1>4. /\ models' = [models EXCEPT ![m] = HoldingFields(m, models[m].fields)]
      /\ unknown' = unknown \cup {m}
  BY DEF ThirdParty, Followed
<1>5. StateInv'
  BY <1>1, <1>2, <1>3, <1>4, ColumnsRewritten, Zenon
<1>6. AppliedInv'
  <2>1. "ThirdParty" \in OperationName /\ CapturedNoColumn("ThirdParty", m)
    BY DEF ThirdParty, OperationName
  <2>. QED
    BY <1>1, <2>1, NoColumnIsCaptured
<1>. QED
  BY <1>5, <1>6

LEMMA RenameModelKeeps ==
  ASSUME Inv, NEW old \in Model, NEW new \in Model, RenameModel(old, new)
  PROVE  StateInv' /\ AppliedInv'
<1>1. StateInv /\ now \in 1..Leaf /\ table[old].exists /\ old # new
  BY DEF Inv, RenameModel
<1>2. /\ Sound(models[old], table[old], old \in unknown) /\ table[old] \in Table
      /\ models[old] \in ModelState
  BY <1>1 DEF StateInv
<1>3. Followed(old) \in ModelState
  BY <1>2 DEF Followed, HoldingFields, ModelState
<1>4. /\ models' = [models EXCEPT ![new] = Followed(old), ![old] = NoModel]
      /\ table' = [table EXCEPT ![new] = table[old], ![old] = NoTable]
      /\ unknown' = DoubtMoved(old, new)
  BY DEF RenameModel
<1>5. models' \in [Model -> ModelState] /\ table' \in [Model -> Table] /\ unknown' \subseteq Model
  BY <1>1, <1>2, <1>3, <1>4, NothingIsTyped DEF StateInv, DoubtMoved
<1>6. ASSUME NEW k \in Model PROVE Sound(models'[k], table'[k], k \in unknown')
  <2>1. CASE k = old
    <3>1. models'[k] = NoModel /\ table'[k] = NoTable
      BY <1>1, <1>4, <2>1 DEF StateInv
    <3>. QED
      BY <3>1, NothingIsTyped DEF Sound
  <2>2. CASE k = new
    <3>1. models'[k] = Followed(old) /\ table'[k] = table[old]
      BY <1>1, <1>4, <2>2 DEF StateInv
    <3>2. k \notin unknown' => models[old].tracked /\ old \notin unknown
      BY <1>1, <1>4, <2>2 DEF DoubtMoved
    <3>3. Sound(Followed(old), table[old], k \in unknown')
      BY <1>1, <1>2, <3>2 DEF Sound, Followed, HoldingFields
    <3>. QED
      BY <3>1, <3>3
  <2>3. CASE k # old /\ k # new
    <3>1. models'[k] = models[k] /\ table'[k] = table[k] /\ (k \in unknown' <=> k \in unknown)
      BY <1>1, <1>4, <2>3 DEF StateInv, DoubtMoved
    <3>. QED
      BY <1>1, <3>1 DEF StateInv, Sound
  <2>. QED
    BY <2>1, <2>2, <2>3
<1>7. StateInv'
  BY <1>5, <1>6 DEF StateInv
<1>8. AppliedInv'
  <2>1. "RenameModel" \in OperationName /\ CapturedNoColumn("RenameModel", old)
    BY DEF RenameModel, OperationName
  <2>. QED
    BY <1>1, <2>1, NoColumnIsCaptured
<1>. QED
  BY <1>7, <1>8

-----------------------------------------------------------------------------
LEMMA InitIsInv == Init => Inv
<1> SUFFICES ASSUME Init PROVE Inv
  OBVIOUS
<1>1. PICK there \in SUBSET Model, columns \in Few :
        table = [m \in Model |-> IF m \in there
                                THEN [exists |-> TRUE, columns |-> columns, made_by |-> Unseen]
                                ELSE NoTable]
  BY DEF Init
<1>2. columns \in Columns /\ Unseen \in 0..Leaf /\ NoModel \in ModelState /\ NoTable \in Table
  BY HistoryHasALeaf, NothingIsTyped DEF Few, Unseen
<1>3. /\ models = [m \in Model |-> NoModel] /\ unknown = {}
      /\ applied = [migration |-> 1, name |-> "none", field |-> NoField, existing_field |-> NoField,
                    model_tracked |-> TRUE, created_by |-> Unseen,
                    was |-> NoColumn, becomes |-> NoColumn, made_by |-> Unseen]
  BY DEF Init
<1>4. [exists |-> TRUE, columns |-> columns, made_by |-> Unseen] \in Table
  BY <1>2 DEF Table
<1>5. models \in [Model -> ModelState] /\ table \in [Model -> Table] /\ unknown \subseteq Model
  BY <1>1, <1>2, <1>3, <1>4
<1>6. \A m \in Model : Sound(models[m], table[m], m \in unknown)
  BY <1>1, <1>3 DEF Sound, NoModel, NoTable
<1>7. AppliedInv
  <2>1. 1 \in 1..Leaf /\ "none" \in OperationName
    BY HistoryHasALeaf DEF OperationName
  <2>2. applied \in Applied
    BY <1>2, <1>3, <2>1 DEF Applied
  <2>3. FactsAreTrue /\ applied.existing_field = NoField /\ applied.field = NoField
    BY <1>3 DEF FactsAreTrue
  <2>. QED
    BY <2>2, <2>3 DEF AppliedInv
<1>8. now \in 1..Leaf /\ operations \in 0..MaxOperations
  BY HistoryHasALeaf DEF Init
<1>. QED
  BY <1>5, <1>6, <1>7, <1>8 DEF Inv, StateInv

LEMMA NextKeepsInv == Inv /\ [Next]_vars => Inv'
<1> SUFFICES ASSUME Inv, [Next]_vars PROVE Inv'
  OBVIOUS
<1>1. CASE UNCHANGED vars
  BY <1>1 DEF Inv, vars, StateInv, AppliedInv, Sound, FactsAreTrue
<1>2. CASE NextMigration
  <2>1. now' \in 1..Leaf
    BY <1>2, HistoryHasALeaf DEF NextMigration, Inv
  <2>. QED
    BY <1>2, <2>1 DEF NextMigration, Inv, StateInv, AppliedInv, Sound, FactsAreTrue
<1>3. ASSUME Operation, StateInv', AppliedInv' PROVE Inv'
  BY <1>3, HistoryHasALeaf DEF Operation, Inv
<1>4. ASSUME NEW m \in Model,
             CreateModel(m) \/ DeleteModel(m) \/ OtherOperation(m) \/ ThirdParty(m)
      PROVE  Inv'
  <2>1. Operation
    BY <1>4 DEF CreateModel, DeleteModel, OtherOperation, ThirdParty
  <2>. QED
    BY <1>3, <1>4, <2>1, CreateModelKeeps, DeleteModelKeeps, OtherOperationKeeps, ThirdPartyKeeps
<1>5. ASSUME NEW m \in Model, NEW c \in Column, AddField(m, c) PROVE Inv'
  <2>1. PICK d \in Declaration : SetsColumn("AddField", m, c, d)
    BY <1>5 DEF AddField
  <2>2. Operation /\ table[m].exists /\ "AddField" \in OperationName
    BY <1>5 DEF AddField, OperationName
  <2>. QED
    BY <1>3, <2>1, <2>2, SetsColumnKeeps
<1>6. ASSUME NEW m \in Model, NEW c \in Column, AlterField(m, c) PROVE Inv'
  <2>1. PICK d \in Declaration : SetsColumn("AlterField", m, c, d)
    BY <1>6 DEF AlterField
  <2>2. Operation /\ table[m].exists /\ "AlterField" \in OperationName
    BY <1>6 DEF AlterField, OperationName
  <2>. QED
    BY <1>3, <2>1, <2>2, SetsColumnKeeps
<1>7. ASSUME NEW m \in Model, NEW c \in Column, RemoveField(m, c) PROVE Inv'
  <2>1. Operation
    BY <1>7 DEF RemoveField
  <2>. QED
    BY <1>3, <1>7, <2>1, RemoveFieldKeeps
<1>8. ASSUME NEW m \in Model, NEW old \in Column, NEW new \in Column, RenameField(m, old, new)
      PROVE  Inv'
  <2>1. Operation
    BY <1>8 DEF RenameField
  <2>. QED
    BY <1>3, <1>8, <2>1, RenameFieldKeeps
<1>9. ASSUME NEW old \in Model, NEW new \in Model, RenameModel(old, new) PROVE Inv'
  <2>1. Operation
    BY <1>9 DEF RenameModel
  <2>. QED
    BY <1>3, <1>9, <2>1, RenameModelKeeps
<1>. QED
  BY <1>1, <1>2, <1>4, <1>5, <1>6, <1>7, <1>8, <1>9 DEF Next

LEMMA InvAlways == Spec => []Inv
  BY InitIsInv, NextKeepsInv, PTL DEF Spec

(* Every variable keeps its type, and a model that is followed is a table (replay). *)
THEOREM TypeCorrect == Spec => []TypeOK
<1>1. Inv => TypeOK
  BY DEF Inv, StateInv, AppliedInv, Sound, TypeOK
<1>. QED
  BY <1>1, InvAlways, PTL

(* However a history goes, what an operation is told of the past is so (_capture). *)
THEOREM HistoryIsTold == Spec => []FactsAreTrue
<1>1. Inv => FactsAreTrue
  BY DEF Inv, AppliedInv
<1>. QED
  BY <1>1, InvAlways, PTL

-----------------------------------------------------------------------------
(* What a reading keeps of a declaration. *)
LEMMA ReadingAgrees ==
  ASSUME NEW d \in Declaration \cup {NoColumn}, NEW f \in Readings(d)
  PROVE  /\ f.kind = d.kind
         /\ f.unreadable = {} \/ "max_length" \notin Computed => f.max_length = d.max_length
         /\ f.null => d.null
         /\ "null" \notin f.unreadable => f.null = d.null
<1>1. PICK lost \in SUBSET MayLose(d) : f = Reading(d, lost)
  BY DEF Readings
<1>2. d.null \in BOOLEAN
  <2>1. CASE d \in Declaration
    BY <2>1, ColumnsAreDeclared
  <2>2. CASE d = NoColumn
    BY <2>2 DEF NoColumn
  <2>. QED
    BY <2>1, <2>2
<1>. QED
  BY <1>1, <1>2 DEF Reading, MayLose

(* DJM-002 misses no lock on a table with rows, unless something was not to be read *)
(* (TableRewritingAlterField.inspect).                                              *)
THEOREM NoLockIsMissed == Spec => []NoLockMissed
<1>1. ASSUME Inv PROVE NoLockMissed
  <2> DEFINE a == applied
  <2>1. SUFFICES ASSUME Costly(a), ~Reported(a), a.existing_field # NoField, a.field # NoField,
                        a.existing_field.unreadable = {}, a.field.unreadable = {}
                 PROVE  FALSE
    BY DEF NoLockMissed
  <2>2. /\ a.existing_field \in Readings(a.was) /\ a.field \in Readings(a.becomes)
        /\ a.was \in Declaration \cup {NoColumn} /\ a.becomes \in Declaration \cup {NoColumn}
        /\ a.created_by = a.made_by
    BY <1>1, <2>1 DEF Inv, AppliedInv, FactsAreTrue, Applied
  <2>3. /\ a.existing_field.kind = a.was.kind /\ a.field.kind = a.becomes.kind
        /\ a.existing_field.max_length = a.was.max_length
        /\ a.field.max_length = a.becomes.max_length
        /\ a.existing_field.null = a.was.null /\ a.field.null = a.becomes.null
    BY <2>1, <2>2, ReadingAgrees
  <2>4. Locks(a.existing_field, a.field)
    BY <2>1, <2>3 DEF Costly, Locks, Tightened, Retyped, Narrowed, no_rewrite
  <2>. QED
    BY <2>1, <2>2, <2>4 DEF Costly, Reported, Populated
<1>. QED
  BY <1>1, InvAlways, PTL

(* Where no project computes a max_length, DJM-002 is right either way *)
(* (TableRewritingAlterField.inspect).                                 *)
THEOREM JudgedByTheTruth ==
  ASSUME "max_length" \notin Computed
  PROVE  Spec => []VerdictIsTrue
<1>1. ASSUME Inv PROVE NoFalseAlarm
  <2> DEFINE a == applied
  <2>1. SUFFICES ASSUME Reported(a) PROVE Costly(a)
    BY DEF NoFalseAlarm
  <2>2. /\ a.existing_field \in Readings(a.was) /\ a.field \in Readings(a.becomes)
        /\ a.was \in Declaration \cup {NoColumn} /\ a.becomes \in Declaration \cup {NoColumn}
        /\ a.created_by = a.made_by /\ a.created_by # Unseen
    BY <1>1, <2>1 DEF Inv, AppliedInv, FactsAreTrue, Applied, Reported
  <2>3. /\ a.existing_field.kind = a.was.kind /\ a.field.kind = a.becomes.kind
        /\ a.existing_field.max_length = a.was.max_length
        /\ a.field.max_length = a.becomes.max_length
        /\ a.existing_field.null => a.was.null
        /\ a.field.null = a.becomes.null
    BY <2>1, <2>2, ReadingAgrees DEF Reported
  <2>4. Locks(a.was, a.becomes)
    BY <2>1, <2>3 DEF Reported, Locks, Tightened, Retyped, Narrowed, no_rewrite
  <2>. QED
    BY <2>1, <2>2, <2>4 DEF Costly, Reported, Populated
<1>. QED
  BY <1>1, InvAlways, NoLockIsMissed, PTL DEF VerdictIsTrue

-----------------------------------------------------------------------------
(* The leaf as it is written (MigrationRules).                               *)

OnATable == {"DeleteModel", "RenameModel", "AlterModelTable", "AddField", "RemoveField", "AlterField", "RenameField",
             "AddIndex", "AddIndexConcurrently", "RemoveIndex", "RemoveIndexConcurrently", "AddConstraint",
             "AddConstraintNotValid", "ValidateConstraint", "RemoveConstraint", "AlterModelOptions"}
OnAColumn == {"AddField", "RemoveField", "AlterField", "RenameField"}
OnNothing == {"RunPython", "CreateExtension"}

Limited == {f \in Declared : f.max_length # NoLimit => f.kind \in VARIABLE_LENGTH_TEXT}
LeafTable == [exists : BOOLEAN, table : Model \cup {NoName}, born : {"never", "before", "leaf"},
              fields : [Column -> Limited \cup {NoDeclared}]]
Database == {d \in [Model -> LeafTable] : \A m \in Model : d[m].exists <=> d[m].born # "never"}
Operations == [name : {"CreateModel"} \cup OnATable \cup OnNothing, model : Model \cup {NoName},
               column : Column \cup {NoName}, to : Model \cup Column \cup {NoName}, field : Limited \cup {NoDeclared},
               how : Constraints \cup {"none"}, separate : BOOLEAN, reverse : BOOLEAN,
               runs : {NoName} \cup UNION {s.runs : s \in Styles}]

\* What an operation of a leaf finds in the tables it meets; its fields are of the style.
Applies(op, d) ==
  /\ op.name = "CreateModel" => op.model \in Model /\ ~d[op.model].exists
  /\ op.name \in OnATable => op.model \in Model /\ d[op.model].exists
  /\ op.name \in OnNothing => op.model = NoName
  /\ op.name \in {"RenameModel", "AlterModelTable"} => op.to \in Model
  /\ op.name = "RenameModel" => ~d[op.to].exists
  /\ op.name = "RenameField" => op.to \in Column /\ d[op.model].fields[op.to] = NoDeclared
  /\ op.name \notin {"RenameModel", "AlterModelTable", "RenameField"} => op.to = NoName
  /\ op.name \in OnAColumn => op.column \in Column
  /\ op.name = "AddField" => d[op.model].fields[op.column] = NoDeclared
  /\ op.name \in OnAColumn \ {"AddField"} => d[op.model].fields[op.column] # NoDeclared
  /\ op.name \in {"AddField", "AlterField"} => op.field \in Limited \cap style.fields
  /\ op.name = "AlterField" =>
       (d[op.model].fields[op.column].kind \in TABLE_VALUED_FIELDS <=> op.field.kind \in TABLE_VALUED_FIELDS)
  /\ op.name \in {"AddConstraint", "RemoveConstraint"} => op.how \in Constraints

LeafTypeOK ==
  /\ style \in Styles
  /\ tables \in Database
  /\ steps \in Seq([op : Operations, met : Database])

\* Every operation was written on the tables it met.
AsWritten == \A i \in Written : Applies(steps[i].op, steps[i].met)

LeafInv == LeafTypeOK /\ AsWritten

-----------------------------------------------------------------------------
LEMMA NothingIsLimited ==
    /\ NoDeclared \notin Declared
    /\ NoFieldsYet \in [Column -> Limited \cup {NoDeclared}]
    /\ Absent \in LeafTable /\ ~Absent.exists /\ Absent.born = "never" /\ Absent.fields = NoFieldsYet
BY DEF NoDeclared, Plain, Declared, NoFieldsYet, Absent, LeafTable, NoName

\* What an operation on the columns of a table holds of them after it.
FieldsAfter(op, fields) ==
  IF op.name = "RemoveField" THEN [fields EXCEPT ![op.column] = NoDeclared]
  ELSE IF op.name = "RenameField" THEN Moved(fields, op.column, op.to, NoDeclared)
  ELSE [fields EXCEPT ![op.column] = op.field]

LEMMA ColumnsChanged ==
    ASSUME NEW d, NEW op, op.name \in OnAColumn
    PROVE  Changed(d, op) = [d EXCEPT ![op.model].fields = FieldsAfter(op, TableOf(d, op.model).fields)]
<1>1. CASE op.name = "AddField" \/ op.name = "AlterField"
  BY <1>1 DEF Changed, FieldsAfter
<1>2. CASE op.name = "RemoveField"
  BY <1>2 DEF Changed, FieldsAfter
<1>3. CASE op.name = "RenameField"
  BY <1>3 DEF Changed, FieldsAfter
<1>4. QED
  BY <1>1, <1>2, <1>3 DEF OnAColumn

LEMMA FieldsAreLimited ==
    ASSUME NEW d \in Database, NEW op \in Operations, Applies(op, d), op.name \in OnAColumn,
           NEW fields \in [Column -> Limited \cup {NoDeclared}]
    PROVE  FieldsAfter(op, fields) \in [Column -> Limited \cup {NoDeclared}]
<1>1. op.column \in Column
  BY DEF Applies
<1>2. CASE op.name = "AddField" \/ op.name = "AlterField"
  BY <1>1, <1>2 DEF Applies, FieldsAfter
<1>3. CASE op.name = "RemoveField"
  BY <1>1, <1>3 DEF FieldsAfter
<1>4. CASE op.name = "RenameField"
  BY <1>1, <1>4 DEF Applies, FieldsAfter, Moved
<1>5. QED
  BY <1>2, <1>3, <1>4 DEF OnAColumn

\* The tables after an operation are tables again.
LEMMA ChangedIsDatabase ==
    ASSUME NEW d \in Database, NEW op \in Operations, Applies(op, d)
    PROVE  Changed(d, op) \in Database
<1> DEFINE t == TableOf(d, op.model)
<1>1. d \in [Model -> LeafTable] /\ \A m \in Model : d[m] \in LeafTable /\ (d[m].exists <=> d[m].born # "never")
  BY DEF Database
<1>2. ASSUME NEW m \in Model, NEW u \in LeafTable, u.exists <=> u.born # "never"
      PROVE  [d EXCEPT ![m] = u] \in Database
  BY <1>1, <1>2 DEF Database
<1>3. CASE op.name = "CreateModel"
  <2>1. [exists |-> TRUE, table |-> op.model, born |-> "leaf", fields |-> NoFieldsYet] \in LeafTable /\ op.model \in Model
    BY <1>3, NothingIsLimited DEF LeafTable, Applies
  <2>2. QED
    BY <1>2, <1>3, <2>1 DEF Changed
<1>4. CASE op.name \in OnATable
  <2>1. op.model \in Model /\ t = d[op.model] /\ t \in LeafTable /\ t.exists /\ t.born # "never"
    BY <1>1, <1>4 DEF Applies, TableOf
  <2>2. CASE op.name = "DeleteModel"
    BY <1>2, <2>1, <2>2, NothingIsLimited DEF Changed
  <2>3. CASE op.name = "RenameModel"
    <3> DEFINE u == [t EXCEPT !.table = IF t.table = op.model THEN op.to ELSE @]
    <3>1. u \in LeafTable /\ u.exists /\ u.born # "never" /\ op.to \in Model
      BY <2>1, <2>3 DEF LeafTable, Applies
    <3>2. Changed(d, op) = [d EXCEPT ![op.to] = u, ![op.model] = Absent]
      BY <2>3 DEF Changed
    <3>3. [d EXCEPT ![op.to] = u] \in Database
      BY <1>2, <3>1, Zenon
    <3>4. [[d EXCEPT ![op.to] = u] EXCEPT ![op.model] = Absent] \in Database
      BY <2>1, <3>3, NothingIsLimited DEF Database
    <3>5. QED
      BY <3>2, <3>4
  <2>4. CASE op.name = "AlterModelTable"
    <3>1. Changed(d, op) = [d EXCEPT ![op.model] = [t EXCEPT !.table = op.to]]
      BY <2>1, <2>4 DEF Changed
    <3>2. [t EXCEPT !.table = op.to] \in LeafTable /\ [t EXCEPT !.table = op.to].exists /\ [t EXCEPT !.table = op.to].born # "never"
      BY <2>1, <2>4 DEF LeafTable, Applies
    <3>3. QED
      BY <1>2, <2>1, <3>1, <3>2
  <2>5. CASE op.name \in OnAColumn
    <3> DEFINE fields == FieldsAfter(op, t.fields)
               u == [t EXCEPT !.fields = fields]
    <3>1. fields \in [Column -> Limited \cup {NoDeclared}]
      BY <2>1, <2>5, FieldsAreLimited DEF LeafTable
    <3>2. u \in LeafTable /\ u.exists /\ u.born # "never"
      BY <2>1, <3>1 DEF LeafTable
    <3>3. Changed(d, op) = [d EXCEPT ![op.model].fields = fields]
      BY <2>5, ColumnsChanged
    <3>4. Changed(d, op) = [d EXCEPT ![op.model] = u]
      BY <2>1, <3>3
    <3>5. QED
      BY <1>2, <2>1, <3>2, <3>4
  <2>6. CASE op.name \in {"AddIndex", "AddIndexConcurrently", "RemoveIndex", "RemoveIndexConcurrently", "AddConstraint",
                          "AddConstraintNotValid", "ValidateConstraint", "RemoveConstraint", "AlterModelOptions"}
    BY <2>6, Zenon DEF Changed
  <2>7. QED
    BY <1>4, <2>2, <2>3, <2>4, <2>5, <2>6 DEF OnATable, OnAColumn
<1>5. CASE op.name \in OnNothing
  BY <1>5 DEF Changed, OnNothing
<1>6. QED
  BY <1>3, <1>4, <1>5 DEF Operations

\* What is written is one more operation, on the tables there are.
LEMMA WriteKeeps ==
    ASSUME LeafInv, NEW op \in Operations, Applies(op, tables), Write(op)
    PROVE  LeafInv'
<1>1. PICK separate \in BOOLEAN : steps' = Append(steps, [op |-> [op EXCEPT !.separate = separate], met |-> tables])
  BY DEF Write
<1> DEFINE said == [op EXCEPT !.separate = separate]
           step == [op |-> said, met |-> tables]
<1>2. said \in Operations /\ said.name = op.name
  BY DEF Operations
<1>3. /\ said.model = op.model /\ said.column = op.column /\ said.to = op.to
      /\ said.field = op.field /\ said.how = op.how
  BY DEF Operations
<1>4. Applies(said, tables)
  BY <1>2, <1>3 DEF Applies
<1>5. UNCHANGED <<style, leaf>> /\ tables' = Changed(tables, op)
  BY DEF Write
<1>6. tables' \in Database
  BY <1>5, ChangedIsDatabase DEF LeafInv, LeafTypeOK
<1>7. steps' \in Seq([op : Operations, met : Database])
  BY <1>1, <1>2, <1>4 DEF LeafInv, LeafTypeOK
<1>8. \A i \in Written' : (i \in Written /\ steps'[i] = steps[i]) \/ steps'[i] = step
  BY <1>1 DEF LeafInv, LeafTypeOK, Written
<1>9. ASSUME NEW i \in Written'
      PROVE  Applies(steps'[i].op, steps'[i].met)
  <2>1. CASE i \in Written /\ steps'[i] = steps[i]
    BY <1>5, <2>1 DEF LeafInv, AsWritten
  <2>2. CASE steps'[i] = step
    <3>1. steps'[i].op = said /\ steps'[i].met = tables
      BY <2>2
    <3>2. QED
      BY <1>2, <1>4, <1>5, <3>1
  <2>3. QED
    BY <1>8, <1>9, <2>1, <2>2
<1>10. AsWritten'
  <2>1. ASSUME NEW i \in Written'
        PROVE  (Applies(steps[i].op, steps[i].met))'
    <3>1. Applies(steps'[i].op, steps'[i].met)
      BY <1>9, <2>1
    <3>2. QED
      BY <1>5, <3>1, Zenon DEF Applies
  <2>2. QED
    BY <1>5, <1>9, <2>1 DEF AsWritten
<1>11. QED
  BY <1>5, <1>6, <1>7, <1>10 DEF LeafInv, LeafTypeOK

\* An operation that names no column, no constraint and no function.
LEMMA OpIsAnOperation ==
    ASSUME NEW name \in {"CreateModel"} \cup OnATable \cup OnNothing, NEW m \in Model \cup {NoName}
    PROVE  /\ Op(name, m) \in Operations
           /\ Op(name, m).name = name /\ Op(name, m).model = m /\ Op(name, m).to = NoName
BY DEF Op, Operations

\* The keyword arguments an operation is written with: of RenameField, of AddField
\* and AlterField, of RunPython.
LEMMA RenamingIsAnOperation ==
    ASSUME NEW o \in Operations, NEW c \in Column, NEW new \in Column
    PROVE  [o EXCEPT !.column = c, !.to = new] \in Operations
<1>1. [[o EXCEPT !.column = c] EXCEPT !.to = new] \in Operations
  BY Zenon DEF Operations
<1>2. QED
  BY <1>1

LEMMA DeclaringIsAnOperation ==
    ASSUME NEW o \in Operations, NEW c \in Column, NEW f \in Limited
    PROVE  [o EXCEPT !.column = c, !.field = f] \in Operations
<1>1. [[o EXCEPT !.column = c] EXCEPT !.field = f] \in Operations
  BY DEF Operations
<1>2. QED
  BY <1>1

LEMMA RunningIsAnOperation ==
    ASSUME NEW o \in Operations, NEW reverse \in BOOLEAN, NEW runs \in UNION {s.runs : s \in Styles}
    PROVE  [o EXCEPT !.reverse = reverse, !.runs = runs] \in Operations
<1>1. [[o EXCEPT !.reverse = reverse] EXCEPT !.runs = runs] \in Operations
  BY DEF Operations
<1>2. QED
  BY <1>1

\* A leaf is declared with fields that have a length only where a text has one.
LEMMA StylesAreLimited ==
    ASSUME LeafInv
    PROVE  style.fields \subseteq Limited
BY StylesDeclareFields DEF LeafInv, LeafTypeOK, Limited

LEMMA LeafBegins == LeafInit => LeafInv
<1> SUFFICES ASSUME LeafInit
             PROVE  LeafInv
  OBVIOUS
<1>1. PICK served \in style.served, start \in style.starts, c \in Column :
        tables = [m \in Model |->
          IF m \in served
          THEN [exists |-> TRUE, table |-> m, born |-> "before", fields |-> [NoFieldsYet EXCEPT ![c] = start]]
          ELSE Absent]
  BY DEF LeafInit
<1>2. style \in Styles /\ start \in Limited
  BY StylesDeclareFields DEF LeafInit, Limited
<1>3. [NoFieldsYet EXCEPT ![c] = start] \in [Column -> Limited \cup {NoDeclared}]
  BY <1>2, NothingIsLimited
<1>4. ASSUME NEW m \in Model
      PROVE  tables[m] \in LeafTable /\ (tables[m].exists <=> tables[m].born # "never")
  <2>1. CASE m \in served
    BY <1>1, <1>3, <2>1 DEF LeafTable
  <2>2. CASE m \notin served
    BY <1>1, <2>2, NothingIsLimited
  <2>3. QED
    BY <2>1, <2>2
<1>5. tables \in Database
  BY <1>1, <1>4 DEF Database
<1>6. steps = <<>>
  BY DEF LeafInit
<1>7. QED
  BY <1>2, <1>5, <1>6 DEF LeafInv, LeafTypeOK, AsWritten, Written

\* What any action does: it writes an operation that applies to the tables there are.
Writes ==
  \E op \in Operations :
    Applies(op, tables) /\ Write(op)

LEMMA LeafWrites == LeafInv /\ LeafNext => Writes
<1> SUFFICES ASSUME LeafInv, LeafNext
             PROVE  Writes
  OBVIOUS
<1>1. ASSUME NEW m \in Model, tables[m].exists, NEW name \in OnATable \ OnAColumn,
             name \notin {"RenameModel", "AlterModelTable", "AddConstraint", "RemoveConstraint"}, Write(Op(name, m))
      PROVE  Writes
  <2>1. Applies(Op(name, m), tables)
    BY <1>1, OpIsAnOperation DEF Applies, OnATable, OnAColumn, OnNothing
  <2>2. Op(name, m) \in Operations /\ Op(name, m).name = name
    BY <1>1, OpIsAnOperation
  <2>3. QED
    BY <1>1, <2>1, <2>2 DEF Writes
<1>2. CASE WriteCreateModel
  <2>1. PICK m \in Model : ~tables[m].exists /\ Write(Op("CreateModel", m))
    BY <1>2 DEF WriteCreateModel
  <2>2. Applies(Op("CreateModel", m), tables)
    BY <2>1, OpIsAnOperation DEF Applies, OnATable, OnAColumn, OnNothing
  <2>3. QED
    BY <2>1, <2>2, OpIsAnOperation DEF Writes
<1>3. CASE WriteDeleteModel
  BY <1>1, <1>3 DEF WriteDeleteModel, OnATable, OnAColumn
<1>4. CASE WriteRenameModel
  <2>1. PICK old, new \in Model :
          tables[old].exists /\ ~tables[new].exists /\ Write([Op("RenameModel", old) EXCEPT !.to = new])
    BY <1>4 DEF WriteRenameModel
  <2> DEFINE op == [Op("RenameModel", old) EXCEPT !.to = new]
  <2>2. op \in Operations /\ op.name = "RenameModel" /\ op.model = old /\ op.to = new
    BY OpIsAnOperation DEF Operations, OnATable
  <2>3. Applies(op, tables)
    BY <2>1, <2>2 DEF Applies, OnATable, OnAColumn, OnNothing
  <2>4. QED
    BY <2>1, <2>2, <2>3 DEF Writes
<1>5. CASE WriteAlterModelTable
  <2>1. PICK m, t \in Model : tables[m].exists /\ Write([Op("AlterModelTable", m) EXCEPT !.to = t])
    BY <1>5 DEF WriteAlterModelTable
  <2> DEFINE op == [Op("AlterModelTable", m) EXCEPT !.to = t]
  <2>2. op \in Operations /\ op.name = "AlterModelTable" /\ op.model = m /\ op.to = t
    BY OpIsAnOperation DEF Operations, OnATable
  <2>3. Applies(op, tables)
    BY <2>1, <2>2 DEF Applies, OnATable, OnAColumn, OnNothing
  <2>4. QED
    BY <2>1, <2>2, <2>3 DEF Writes
<1>6. CASE WriteAddField
  <2>1. PICK m \in Model, c \in Column, f \in style.fields :
          Lacks(m, c) /\ Write([Op("AddField", m) EXCEPT !.column = c, !.field = f])
    BY <1>6, Zenon DEF WriteAddField
  <2> DEFINE op == [Op("AddField", m) EXCEPT !.column = c, !.field = f]
  <2>2. op \in Operations /\ op.name = "AddField" /\ op.model = m /\ op.to = NoName /\ op.column = c /\ op.field = f
    <3>1. /\ Op("AddField", m) \in Operations /\ Op("AddField", m).name = "AddField"
          /\ Op("AddField", m).model = m /\ Op("AddField", m).to = NoName
      BY OpIsAnOperation DEF OnATable
    <3>2. op \in Operations
      BY <3>1, StylesAreLimited, DeclaringIsAnOperation, Zenon
    <3>3. QED
      BY <3>1, <3>2 DEF Operations
  <2>3. Applies(op, tables)
    BY <2>1, <2>2, StylesAreLimited DEF Applies, OnATable, OnAColumn, OnNothing, Lacks
  <2>4. QED
    BY <2>1, <2>2, <2>3 DEF Writes
<1>7. CASE WriteRemoveField
  <2>1. PICK m \in Model, c \in Column : Has(m, c) /\ Write([Op("RemoveField", m) EXCEPT !.column = c])
    BY <1>7 DEF WriteRemoveField
  <2> DEFINE op == [Op("RemoveField", m) EXCEPT !.column = c]
  <2>2. op \in Operations /\ op.name = "RemoveField" /\ op.model = m /\ op.to = NoName /\ op.column = c
    BY OpIsAnOperation DEF Operations, OnATable
  <2>3. Applies(op, tables)
    BY <2>1, <2>2 DEF Applies, OnATable, OnAColumn, OnNothing, Has
  <2>4. QED
    BY <2>1, <2>2, <2>3 DEF Writes
<1>8. CASE WriteAlterField
  <2>1. PICK m \in Model, c \in Column, f \in style.fields :
          /\ Has(m, c)
          /\ tables[m].fields[c].kind \in TABLE_VALUED_FIELDS <=> f.kind \in TABLE_VALUED_FIELDS
          /\ Write([Op("AlterField", m) EXCEPT !.column = c, !.field = f])
    BY <1>8, Zenon DEF WriteAlterField
  <2> DEFINE op == [Op("AlterField", m) EXCEPT !.column = c, !.field = f]
  <2>2. op \in Operations /\ op.name = "AlterField" /\ op.model = m /\ op.to = NoName /\ op.column = c /\ op.field = f
    <3>1. /\ Op("AlterField", m) \in Operations /\ Op("AlterField", m).name = "AlterField"
          /\ Op("AlterField", m).model = m /\ Op("AlterField", m).to = NoName
      BY OpIsAnOperation DEF OnATable
    <3>2. op \in Operations
      BY <3>1, StylesAreLimited, DeclaringIsAnOperation, Zenon
    <3>3. QED
      BY <3>1, <3>2 DEF Operations
  <2>3. Applies(op, tables)
    BY <2>1, <2>2, StylesAreLimited DEF Applies, OnATable, OnAColumn, OnNothing, Has
  <2>4. QED
    BY <2>1, <2>2, <2>3 DEF Writes
<1>9. CASE WriteRenameField
  <2>1. PICK m \in Model, old, new \in Column :
          Has(m, old) /\ Lacks(m, new) /\ Write([Op("RenameField", m) EXCEPT !.column = old, !.to = new])
    BY <1>9, Zenon DEF WriteRenameField
  <2> DEFINE op == [Op("RenameField", m) EXCEPT !.column = old, !.to = new]
  <2>2. op \in Operations /\ op.name = "RenameField" /\ op.model = m /\ op.to = new /\ op.column = old
    <3>1. Op("RenameField", m) \in Operations /\ Op("RenameField", m).name = "RenameField" /\ Op("RenameField", m).model = m
      BY OpIsAnOperation DEF OnATable
    <3>2. op \in Operations
      BY <3>1, RenamingIsAnOperation, Zenon
    <3>3. QED
      BY <3>1, <3>2 DEF Operations
  <2>3. Applies(op, tables)
    BY <2>1, <2>2 DEF Applies, OnATable, OnAColumn, OnNothing, Has, Lacks
  <2>4. QED
    BY <2>1, <2>2, <2>3 DEF Writes
<1>10. CASE WriteIndex
  BY <1>1, <1>10 DEF WriteIndex, OnATable, OnAColumn
<1>11. \A m \in Model : tables[m].born = "before" => tables[m].exists
  BY DEF LeafInv, LeafTypeOK, Database
<1>12. CASE WriteRemoveIndex
  BY <1>1, <1>11, <1>12 DEF WriteRemoveIndex, OnATable, OnAColumn
<1>13. CASE WriteValidation
  BY <1>1, <1>11, <1>13 DEF WriteValidation, OnATable, OnAColumn
<1>14. ASSUME NEW name \in {"AddConstraint", "RemoveConstraint"}, NEW m \in Model, tables[m].exists,
              NEW how \in Constraints, Write([Op(name, m) EXCEPT !.how = how])
       PROVE  Writes
  <2> DEFINE op == [Op(name, m) EXCEPT !.how = how]
  <2>1. op \in Operations /\ op.name = name /\ op.model = m /\ op.to = NoName /\ op.how = how
    BY OpIsAnOperation DEF Operations, OnATable
  <2>2. Applies(op, tables)
    BY <1>14, <2>1 DEF Applies, OnATable, OnAColumn, OnNothing
  <2>3. QED
    BY <1>14, <2>1, <2>2 DEF Writes
<1>15. CASE WriteAddConstraint
  BY <1>14, <1>15, Zenon DEF WriteAddConstraint
<1>16. CASE WriteRemoveConstraint
  BY <1>11, <1>14, <1>16, Zenon DEF WriteRemoveConstraint
<1>17. CASE WriteRunPython
  <2>1. PICK reverse \in BOOLEAN, runs \in style.runs :
          Write([Op("RunPython", NoName) EXCEPT !.reverse = reverse, !.runs = runs])
    BY <1>17, Zenon DEF WriteRunPython
  <2> DEFINE op == [Op("RunPython", NoName) EXCEPT !.reverse = reverse, !.runs = runs]
  <2>2. op \in Operations /\ op.name = "RunPython" /\ op.model = NoName /\ op.to = NoName
    <3>1. runs \in UNION {s.runs : s \in Styles}
      BY DEF LeafInv, LeafTypeOK
    <3>2. /\ Op("RunPython", NoName) \in Operations /\ Op("RunPython", NoName).name = "RunPython"
          /\ Op("RunPython", NoName).model = NoName /\ Op("RunPython", NoName).to = NoName
      BY OpIsAnOperation DEF OnNothing
    <3>3. op \in Operations
      BY <3>1, <3>2, RunningIsAnOperation, Zenon
    <3>4. QED
      BY <3>2, <3>3 DEF Operations
  <2>3. Applies(op, tables)
    BY <2>1, <2>2 DEF Applies, OnATable, OnAColumn, OnNothing
  <2>4. QED
    BY <2>1, <2>2, <2>3 DEF Writes
<1>18. CASE WriteOther
  <2>1. CASE Write(Op("CreateExtension", NoName))
    <3>1. Applies(Op("CreateExtension", NoName), tables)
      BY OpIsAnOperation DEF Applies, OnATable, OnAColumn, OnNothing
    <3>2. QED
      BY <2>1, <3>1, OpIsAnOperation DEF Writes, OnNothing
  <2>2. QED
    BY <1>1, <1>18, <2>1 DEF WriteOther, OnATable, OnAColumn
<1>19. QED
  BY <1>2, <1>3, <1>4, <1>5, <1>6, <1>7, <1>8, <1>9, <1>10, <1>12, <1>13, <1>15, <1>16, <1>17, <1>18 DEF LeafNext

LEMMA LeafKeeps == LeafInv /\ [LeafNext]_leafVars => LeafInv'
<1>1. CASE LeafInv /\ UNCHANGED leafVars
  BY <1>1, ZenonT(30) DEF leafVars, LeafInv, LeafTypeOK, AsWritten, Written, Applies
<1>2. CASE LeafInv /\ LeafNext
  BY <1>2, LeafWrites, WriteKeeps DEF Writes
<1>3. QED
  BY <1>1, <1>2

-----------------------------------------------------------------------------
(* Statements.                                                               *)

LEMMA RangeOfNone == Range(<<>>) = {}
  BY DEF Range

LEMMA RangeOfOne ==
    ASSUME NEW statement
    PROVE  Range(<<statement>>) = {statement}
<1>1. DOMAIN <<statement>> = {1} /\ <<statement>>[1] = statement
  OBVIOUS
<1>2. QED
  BY <1>1 DEF Range

LEMMA RangeOfWhen ==
    ASSUME NEW S, NEW statement \in S, NEW condition
    PROVE  /\ When(condition, statement) \in Seq(S)
           /\ \A s : s \in Range(When(condition, statement)) <=> condition /\ s = statement
<1>1. CASE condition
  <2>1. When(condition, statement) = <<statement>>
    BY <1>1 DEF When
  <2>2. <<statement>> \in Seq(S)
    OBVIOUS
  <2>3. QED
    BY <1>1, <2>1, <2>2, RangeOfOne
<1>2. CASE ~condition
  <2>1. When(condition, statement) = <<>>
    BY <1>2 DEF When
  <2>2. <<>> \in Seq(S)
    OBVIOUS
  <2>3. QED
    BY <1>2, <2>1, <2>2, RangeOfNone
<1>3. QED
  BY <1>1, <1>2

LEMMA RangeOfBoth ==
    ASSUME NEW S, NEW a \in Seq(S), NEW b \in Seq(S)
    PROVE  a \o b \in Seq(S) /\ Range(a \o b) = Range(a) \cup Range(b)
<1>1. DOMAIN a = 1..Len(a) /\ DOMAIN b = 1..Len(b) /\ DOMAIN (a \o b) = 1..(Len(a) + Len(b)) /\ a \o b \in Seq(S)
  OBVIOUS
<1>2. \A k \in DOMAIN a : (a \o b)[k] = a[k] /\ k \in DOMAIN (a \o b)
  BY <1>1
<1>3. \A k \in DOMAIN b : (a \o b)[Len(a) + k] = b[k] /\ Len(a) + k \in DOMAIN (a \o b)
  BY <1>1
<1>4. \A k \in DOMAIN (a \o b) : \/ k \in DOMAIN a /\ (a \o b)[k] = a[k]
                                 \/ k - Len(a) \in DOMAIN b /\ (a \o b)[k] = b[k - Len(a)]
  BY <1>1
<1>5. Range(a \o b) \subseteq Range(a) \cup Range(b)
  BY <1>4 DEF Range
<1>6. Range(a) \cup Range(b) \subseteq Range(a \o b)
  BY <1>2, <1>3, Zenon DEF Range
<1>7. QED
  BY <1>1, <1>5, <1>6

\* The statements of an operation, in no order.
SaidBy(op, met) == Range(StatementsOf(op, met))

\* The statements of a column that is altered: each where its part of the
\* declaration differs.
Altering(op, was, s) ==
  \/ s = Rename /\ Column_of(op.column, was) # Column_of(op.column, op.field)
  \/ s = GrowType /\ no_rewrite(was, op.field) /\ <<was.kind, was.max_length>> # <<op.field.kind, op.field.max_length>>
  \/ s = AlterType /\ ~no_rewrite(was, op.field) /\ <<was.kind, was.max_length>> # <<op.field.kind, op.field.max_length>>
  \/ s = SetNotNull /\ Tightened(was, op.field)
  \/ s = DropNotNull /\ ~was.null /\ op.field.null
  \/ s = DropNotNull /\ was.db_default # op.field.db_default

LEMMA AlterFieldSays ==
    ASSUME NEW op, NEW met, op.name = "AlterField"
    PROVE  \A s : s \in SaidBy(op, met) <=> Altering(op, FieldOf(TableOf(met, op.model), op.column), s)
<1> DEFINE was == FieldOf(TableOf(met, op.model), op.column)
           all == {Rename, GrowType, AlterType, SetNotNull, DropNotNull}
           named == Column_of(op.column, was) # Column_of(op.column, op.field)
           typed == <<was.kind, was.max_length>> # <<op.field.kind, op.field.max_length>>
           type == IF no_rewrite(was, op.field) THEN GrowType ELSE AlterType
           filled == was.db_default # op.field.db_default
           tight == Tightened(was, op.field)
           loose == ~was.null /\ op.field.null
           a == When(named, Rename)
           b == When(typed, type)
           c == When(filled, DropNotNull)
           d == When(tight, SetNotNull)
           e == When(loose, DropNotNull)
<1>1. StatementsOf(op, met) = a \o b \o c \o d \o e
  BY Zenon DEF StatementsOf, ChangeDefault
<1>2. type \in all
  OBVIOUS
<1>3. \A s : Altering(op, was, s) <=>
               \/ named /\ s = Rename
               \/ typed /\ s = type
               \/ filled /\ s = DropNotNull
               \/ tight /\ s = SetNotNull
               \/ loose /\ s = DropNotNull
  BY DEF Altering
<1> HIDE DEF named, typed, filled, tight, loose, type
<1>4. /\ a \in Seq(all) /\ \A s : s \in Range(a) <=> named /\ s = Rename
      /\ b \in Seq(all) /\ \A s : s \in Range(b) <=> typed /\ s = type
      /\ c \in Seq(all) /\ \A s : s \in Range(c) <=> filled /\ s = DropNotNull
      /\ d \in Seq(all) /\ \A s : s \in Range(d) <=> tight /\ s = SetNotNull
      /\ e \in Seq(all) /\ \A s : s \in Range(e) <=> loose /\ s = DropNotNull
  <2>1. Rename \in all /\ type \in all /\ SetNotNull \in all /\ DropNotNull \in all
    BY <1>2
  <2> HIDE DEF all
  <2>2. a \in Seq(all) /\ \A s : s \in Range(a) <=> named /\ s = Rename
    BY <2>1, RangeOfWhen
  <2>3. b \in Seq(all) /\ \A s : s \in Range(b) <=> typed /\ s = type
    BY <2>1, RangeOfWhen
  <2>4. c \in Seq(all) /\ \A s : s \in Range(c) <=> filled /\ s = DropNotNull
    BY <2>1, RangeOfWhen
  <2>5. d \in Seq(all) /\ \A s : s \in Range(d) <=> tight /\ s = SetNotNull
    BY <2>1, RangeOfWhen
  <2>6. e \in Seq(all) /\ \A s : s \in Range(e) <=> loose /\ s = DropNotNull
    BY <2>1, RangeOfWhen
  <2>7. QED
    BY <2>2, <2>3, <2>4, <2>5, <2>6
<1> HIDE DEF a, b, c, d, e, all
<1> DEFINE ab == a \o b
           abc == ab \o c
           abcd == abc \o d
<1>5. ab \in Seq(all) /\ Range(ab) = Range(a) \cup Range(b)
  BY <1>4, RangeOfBoth
<1> HIDE DEF ab
<1>6. abc \in Seq(all) /\ Range(abc) = Range(ab) \cup Range(c)
  BY <1>4, <1>5, RangeOfBoth
<1> HIDE DEF abc
<1>7. abcd \in Seq(all) /\ Range(abcd) = Range(abc) \cup Range(d)
  BY <1>4, <1>6, RangeOfBoth
<1> HIDE DEF abcd
<1>8. Range(abcd \o e) = Range(abcd) \cup Range(e)
  BY <1>4, <1>7, RangeOfBoth
<1>9. StatementsOf(op, met) = abcd \o e
  BY <1>1 DEF ab, abc, abcd
<1>10. QED
  BY <1>3, <1>4, <1>5, <1>6, <1>7, <1>8, <1>9 DEF SaidBy

\* The statements of every other operation: on a table, on its columns, beside them.
LEMMA TablesSay ==
    ASSUME NEW op, NEW met
    PROVE  /\ op.name = "CreateModel" => SaidBy(op, met) = {CreateTable}
           /\ op.name = "DeleteModel" => SaidBy(op, met) = {DropTable}
           /\ op.name = "RenameModel" =>
                \A s : s \in SaidBy(op, met) <=> s = Rename /\ TableOf(met, op.model).table = op.model
           /\ op.name = "AlterModelTable" =>
                \A s : s \in SaidBy(op, met) <=> s = Rename /\ TableOf(met, op.model).table # op.to
<1>1. CASE op.name \in {"CreateModel", "DeleteModel"}
  BY <1>1, RangeOfOne, Zenon DEF StatementsOf, SaidBy
<1>2. CASE op.name = "RenameModel"
  BY <1>2, RangeOfOne, RangeOfNone DEF StatementsOf, When, SaidBy
<1>3. CASE op.name = "AlterModelTable"
  BY <1>3, RangeOfOne, RangeOfNone DEF StatementsOf, When, SaidBy
<1>4. QED
  BY <1>1, <1>2, <1>3

LEMMA ColumnsSay ==
    ASSUME NEW op, NEW met
    PROVE  /\ op.name = "AddField" => SaidBy(op, met) \subseteq {CreateTable, AddColumn, AddVolatileColumn, CreateIndex}
           /\ op.name = "RemoveField" => SaidBy(op, met) \in {{DropTable}, {DropColumn}}
           /\ op.name = "RenameField" => SaidBy(op, met) \subseteq {Rename}
<1>1. CASE op.name = "RemoveField"
  BY <1>1, RangeOfOne DEF StatementsOf, SaidBy
<1>2. CASE op.name = "RenameField"
  BY <1>2, RangeOfOne, RangeOfNone DEF StatementsOf, When, SaidBy
<1>3. CASE op.name = "AddField"
  <2>1. CASE op.field.kind \in TABLE_VALUED_FIELDS
    BY <1>3, <2>1, RangeOfOne DEF StatementsOf, SaidBy
  <2>2. CASE op.field.kind \notin TABLE_VALUED_FIELDS
    <3> DEFINE column == IF op.field.db_default = "volatile" THEN AddVolatileColumn ELSE AddColumn
               more == When(op.field.kind = "ForeignKey", CreateIndex)
               one == <<column>>
               two == {AddColumn, AddVolatileColumn, CreateIndex}
    <3>1. StatementsOf(op, met) = one \o more
      BY <1>3, <2>2 DEF StatementsOf
    <3>2. one \in Seq(two) /\ more \in Seq(two) /\ \A s : s \in Range(more) => s = CreateIndex
      BY RangeOfWhen
    <3>3. Range(one) = {column}
      BY RangeOfOne
    <3> HIDE DEF one, more, two
    <3>4. Range(one \o more) = Range(one) \cup Range(more)
      BY <3>2, RangeOfBoth
    <3>5. QED
      BY <1>3, <3>1, <3>2, <3>3, <3>4 DEF SaidBy
  <2>3. QED
    BY <1>3, <2>1, <2>2
<1>4. QED
  BY <1>1, <1>2, <1>3

LEMMA IndexesSay ==
    ASSUME NEW op, NEW met
    PROVE  /\ op.name = "AddIndex" => SaidBy(op, met) = {CreateIndex}
           /\ op.name = "AddIndexConcurrently" => SaidBy(op, met) = {CreateIndexConcurrently}
           /\ op.name = "RemoveIndex" => SaidBy(op, met) = {DropIndex}
           /\ op.name = "RemoveIndexConcurrently" => SaidBy(op, met) = {DropIndexConcurrently}
           /\ op.name = "AddConstraintNotValid" => SaidBy(op, met) = {AddNotValid}
           /\ op.name = "ValidateConstraint" => SaidBy(op, met) = {Validate}
           /\ op.name \in {"AlterModelOptions", "RunPython", "RunSQL", "CreateExtension"} => SaidBy(op, met) = {}
BY RangeOfOne, RangeOfNone, Zenon DEF StatementsOf, SaidBy

LEMMA ConstraintsSay ==
    ASSUME NEW op, NEW met, op.name = "AddConstraint"
    PROVE  /\ op.how = "CheckConstraint" => SaidBy(op, met) = {AddCheck}
           /\ op.how = "UniqueConstraint" => SaidBy(op, met) = {AddUnique}
           /\ op.how = "UniqueConstraint condition" => SaidBy(op, met) = {CreateUniqueIndex}
           /\ op.how = "ExclusionConstraint" => SaidBy(op, met) = {AddExclusion}
           /\ op.how \in {"OwnConstraint", "none"} => SaidBy(op, met) = {}
BY RangeOfOne, RangeOfNone, Zenon DEF StatementsOf, SaidBy

LEMMA RemovalsSay ==
    ASSUME NEW op, NEW met, op.name = "RemoveConstraint"
    PROVE  SaidBy(op, met) \subseteq {DropIndex, DropConstraint}
<1>1. CASE op.how = "UniqueConstraint condition"
  BY <1>1, RangeOfOne, Zenon DEF StatementsOf, SaidBy
<1>2. CASE op.how = "OwnConstraint"
  BY <1>2, RangeOfNone, Zenon DEF StatementsOf, SaidBy
<1>3. CASE op.how \notin {"UniqueConstraint condition", "OwnConstraint"}
  BY <1>3, RangeOfOne, Zenon DEF StatementsOf, SaidBy
<1>4. QED
  BY <1>1, <1>2, <1>3

\* What every statement locks, and how far it grows.
Growing == {AlterType, SetNotNull, CreateIndex, CreateUniqueIndex, AddCheck, AddUnique, AddExclusion, AddVolatileColumn}
Quick == {AddColumn, DropColumn, Rename, GrowType, DropNotNull, DropTable, DropIndex, AddNotValid, DropConstraint}
Gentle == {CreateTable, CreateIndexConcurrently, DropIndexConcurrently, Validate}

LEMMA EachLocks ==
    /\ AlterType.lock = 3 /\ AlterType.work = 2
    /\ SetNotNull.lock = 3 /\ SetNotNull.work = 1
    /\ CreateIndex.lock = 2 /\ CreateIndex.work = 1
    /\ CreateUniqueIndex.lock = 2 /\ CreateUniqueIndex.work = 1
    /\ AddCheck.lock = 3 /\ AddCheck.work = 1
    /\ AddUnique.lock = 3 /\ AddUnique.work = 2
    /\ AddExclusion.lock = 3 /\ AddExclusion.work = 1
    /\ AddColumn.lock = 3 /\ AddColumn.work = 0
    /\ DropColumn.lock = 3 /\ DropColumn.work = 0
    /\ Rename.lock = 3 /\ Rename.work = 0
    /\ GrowType.lock = 3 /\ GrowType.work = 0
    /\ DropNotNull.lock = 3 /\ DropNotNull.work = 0
    /\ DropTable.lock = 3 /\ DropTable.work = 0
    /\ CreateTable.lock = 0 /\ CreateTable.work = 0
    /\ CreateIndexConcurrently.lock = 1 /\ CreateIndexConcurrently.work = 1
    /\ AddVolatileColumn.lock = 3 /\ AddVolatileColumn.work = 2
    /\ DropIndex.lock = 3 /\ DropIndex.work = 0
    /\ DropIndexConcurrently.lock = 1 /\ DropIndexConcurrently.work = 0
    /\ AddNotValid.lock = 3 /\ AddNotValid.work = 0
    /\ Validate.lock = 1 /\ Validate.work = 1
    /\ DropConstraint.lock = 3 /\ DropConstraint.work = 0
BY DEF CATALOGUE, SCAN, REWRITE, Statement, AlterType, SetNotNull, CreateIndex,
       CreateUniqueIndex, AddCheck, AddUnique, AddExclusion, AddColumn, DropColumn, Rename, GrowType, DropNotNull,
       DropTable, CreateTable, CreateIndexConcurrently, AddVolatileColumn, DropIndex, DropIndexConcurrently,
       AddNotValid, Validate, DropConstraint

LEMMA StatementsLock ==
    /\ \A s \in Growing : s.lock >= 2 /\ Stalls(s) /\ s # CreateTable
    /\ \A s \in Quick : s.lock >= 2 /\ ~Stalls(s) /\ s # CreateTable
    /\ \A s \in Gentle : s.lock < 2 /\ ~Stalls(s)
BY EachLocks DEF Growing, Quick, Gentle, Stalls, CATALOGUE

LEMMA StatementsAreKnown ==
    ASSUME NEW op \in Operations, NEW met
    PROVE  SaidBy(op, met) \subseteq Growing \cup Quick \cup Gentle
<1>1. CASE op.name = "AlterField"
  BY <1>1, AlterFieldSays DEF Altering, Growing, Quick
<1>2. CASE op.name \in {"CreateModel", "DeleteModel", "RenameModel", "AlterModelTable"}
  BY <1>2, TablesSay DEF Quick, Gentle
<1>3. CASE op.name \in {"RemoveField", "RenameField", "AddField"}
  BY <1>3, ColumnsSay DEF Growing, Quick, Gentle
<1>4. CASE op.name \in {"AddIndex", "AddIndexConcurrently", "RemoveIndex", "RemoveIndexConcurrently",
                        "AddConstraintNotValid", "ValidateConstraint", "AlterModelOptions", "RunPython",
                        "CreateExtension"}
  BY <1>4, IndexesSay DEF Growing, Quick, Gentle
<1>5. CASE op.name = "AddConstraint"
  <2>1. op.how \in {"CheckConstraint", "UniqueConstraint", "UniqueConstraint condition", "ExclusionConstraint",
                    "OwnConstraint", "none"}
    BY Zenon DEF Operations, Constraints
  <2>2. QED
    BY <1>5, <2>1, ConstraintsSay, ZenonT(30) DEF Growing
<1>6. CASE op.name = "RemoveConstraint"
  BY <1>6, RemovalsSay DEF Quick
<1>7. QED
  BY <1>1, <1>2, <1>3, <1>4, <1>5, <1>6 DEF Operations, OnATable, OnNothing

-----------------------------------------------------------------------------
(* The tables in service (DJM-001, DJM-002, DJM-003, DJM-009).               *)

LEMMA StepIsWritten ==
    ASSUME LeafInv, NEW i \in Written
    PROVE  /\ steps[i].op \in Operations /\ steps[i].met \in Database
           /\ Applies(steps[i].op, steps[i].met)
           /\ Statements(i) = SaidBy(steps[i].op, steps[i].met)
<1> DEFINE Step == [op : Operations, met : Database]
<1>1. steps \in Seq(Step)
  BY DEF LeafInv, LeafTypeOK
<1> HIDE DEF Step
<1>2. steps[i] \in Step
  BY <1>1 DEF Written
<1> USE DEF Step
<1>3. QED
  BY <1>2 DEF LeafInv, AsWritten, Statements, SaidBy

\* The table an operation is on is in service, or the leaf's own.
LEMMA TableIsServedOrNew ==
    ASSUME LeafInv, NEW i \in Written, steps[i].op.name \in OnATable
    PROVE  /\ TableOf(steps[i].met, steps[i].op.model) = steps[i].met[steps[i].op.model]
           /\ steps[i].met[steps[i].op.model] \in LeafTable
           /\ PopulatedTable(i) <=> InService(steps[i])
<1> DEFINE t == steps[i].met[steps[i].op.model]
<1>1. TableOf(steps[i].met, steps[i].op.model) = t /\ t.exists /\ t \in LeafTable /\ t.born # "never"
  BY StepIsWritten, Zenon DEF Applies, TableOf, Database
<1>2. t.born \in {"before", "leaf"}
  BY <1>1 DEF LeafTable
<1>3. QED
  BY <1>1, <1>2, Zenon DEF PopulatedTable, InService

\* DJM-001 reports a column that Postgres refuses wherever its declaration can be read.
LEMMA RefusalsAreReported ==
    ASSUME LeafInv, NEW i \in Written, steps[i].op.field.db_default = "none"
    PROVE  NonNullableAddFieldWithoutDefault(i) <=> Aborts(steps[i]) /\ Legible(steps[i].op.field)
<1>1. CASE steps[i].op.name = "AddField"
  <2> DEFINE f == steps[i].op.field
  <2>1. f \in Declared
    BY <1>1, StepIsWritten, Zenon DEF Applies, Limited
  <2>2. f.lost \cap {"null", "default"} = {} => ReadField(f).null = f.null
    BY <2>1 DEF ReadField, Declared
  <2>3. /\ ReadField(f).default = f.default /\ ReadField(f).kind = f.kind /\ ReadField(f).lost = f.lost
    BY <2>1 DEF ReadField, Declared
  <2>4. PopulatedTable(i) <=> InService(steps[i])
    BY <1>1, TableIsServedOrNew DEF OnATable
  <2>5. QED
    BY <1>1, <2>2, <2>3, <2>4 DEF NonNullableAddFieldWithoutDefault, Aborts, Legible
<1>2. CASE steps[i].op.name # "AddField"
  BY <1>2, Zenon DEF NonNullableAddFieldWithoutDefault, Aborts
<1>3. QED
  BY <1>1, <1>2

\* A column that is altered was declared.
LEMMA AlteredWasDeclared ==
    ASSUME LeafInv, NEW i \in Written, steps[i].op.name = "AlterField"
    PROVE  LET was == FieldOf(TableOf(steps[i].met, steps[i].op.model), steps[i].op.column) IN
           was \in Limited /\ was # NoDeclared /\ steps[i].op.field \in Limited
<1> DEFINE op == steps[i].op
           t == steps[i].met[op.model]
<1>1. /\ TableOf(steps[i].met, op.model) = t /\ t \in LeafTable
      /\ op.column \in Column /\ t.fields[op.column] # NoDeclared /\ op.field \in Limited
  BY StepIsWritten, TableIsServedOrNew, ZenonT(30) DEF Applies, OnATable, OnAColumn
<1>2. t.fields[op.column] \in Limited \cup {NoDeclared}
  BY <1>1 DEF LeafTable
<1>3. QED
  BY <1>1, <1>2, Zenon DEF FieldOf

\* What a declaration reads as, where it is not read in full.
LEMMA ReadingsOfFields ==
    ASSUME NEW f \in Limited
    PROVE  /\ ReadField(f).kind = f.kind /\ ReadField(f).max_length = f.max_length
           /\ ReadField(f).null => f.null
           /\ "null" \notin f.lost => ReadField(f).null = f.null
BY DEF ReadField, Limited, Declared

\* DJM-002 reports a change of a column that locks it for as long as it is large, and
\* only that, of declarations that can be read.
LEMMA AltersAreJudged ==
    ASSUME LeafInv, NEW i \in Written, steps[i].op.name = "AlterField"
    PROVE  /\ TableRewritingAlterField(i) => \E s \in Statements(i) : Stalls(s)
           /\ (\E s \in Statements(i) : Stalls(s)) /\ InService(steps[i]) /\ SeenInFull(i) =>
                TableRewritingAlterField(i)
<1> DEFINE op == steps[i].op
           was == FieldOf(TableOf(steps[i].met, op.model), op.column)
<1>1. was \in Limited /\ was # NoDeclared /\ op.field \in Limited
  BY AlteredWasDeclared, Zenon
<1>2. /\ was.max_length \in Nat /\ op.field.max_length \in Nat
      /\ was.null \in BOOLEAN /\ op.field.null \in BOOLEAN
      /\ was.max_length # NoLimit => was.kind \in VARIABLE_LENGTH_TEXT
      /\ op.field.max_length # NoLimit => op.field.kind \in VARIABLE_LENGTH_TEXT
  BY <1>1 DEF Limited, Declared
<1>3. \A s : s \in Statements(i) <=> Altering(op, was, s)
  BY StepIsWritten, AlterFieldSays
<1>4. Stalls(AlterType) /\ Stalls(SetNotNull) /\ ~Stalls(Rename) /\ ~Stalls(GrowType) /\ ~Stalls(DropNotNull)
  BY StatementsLock DEF Growing, Quick
<1>5. ReadField(was).kind = was.kind /\ ReadField(op.field).kind = op.field.kind
      /\ ReadField(was).max_length = was.max_length /\ ReadField(op.field).max_length = op.field.max_length
  BY <1>1, ReadingsOfFields
<1>6. no_rewrite(ReadField(was), ReadField(op.field)) <=> no_rewrite(was, op.field)
  BY <1>5 DEF no_rewrite
<1>7. Existing_field(i) # NoDeclared => Existing_field(i) = was
  BY DEF Existing_field
<1>8. ASSUME TableRewritingAlterField(i)
      PROVE  \E s \in Statements(i) : Stalls(s)
  <2>1. Locks(ReadField(was), ReadField(op.field)) /\ "null" \notin op.field.lost
    BY <1>7, <1>8, Zenon DEF TableRewritingAlterField
  <2>2. CASE Tightened(ReadField(was), ReadField(op.field))
    <3>1. Tightened(was, op.field)
      BY <1>1, <2>1, <2>2, ReadingsOfFields, Zenon DEF Tightened
    <3>2. QED
      BY <1>3, <1>4, <3>1 DEF Altering
  <2>3. CASE Retyped(ReadField(was), ReadField(op.field)) \/ Narrowed(ReadField(was), ReadField(op.field))
    <3>1. ~no_rewrite(was, op.field)
      BY <1>6, <2>3, Zenon DEF Retyped, Narrowed
    <3>2. <<was.kind, was.max_length>> # <<op.field.kind, op.field.max_length>>
      BY <1>2, <1>5, <2>3, <3>1 DEF Retyped, Narrowed, no_rewrite
    <3>3. QED
      BY <1>3, <1>4, <3>1, <3>2 DEF Altering
  <2>4. QED
    BY <2>1, <2>2, <2>3 DEF Locks
<1>9. ASSUME NEW s \in Statements(i), Stalls(s), InService(steps[i]), SeenInFull(i)
      PROVE  TableRewritingAlterField(i)
  <2>1. Existing_field(i) = was /\ "null" \notin was.lost /\ "null" \notin op.field.lost
    BY <1>9 DEF SeenInFull, Seen, Legible
  <2>2. ReadField(was).null = was.null /\ ReadField(op.field).null = op.field.null
    BY <1>1, <2>1, ReadingsOfFields, Zenon
  <2>3. \/ s = AlterType /\ ~no_rewrite(was, op.field)
              /\ <<was.kind, was.max_length>> # <<op.field.kind, op.field.max_length>>
        \/ s = SetNotNull /\ Tightened(was, op.field)
    BY <1>3, <1>4, <1>9 DEF Altering
  <2>4. Locks(ReadField(was), ReadField(op.field))
    BY <1>2, <1>5, <1>6, <2>2, <2>3 DEF Locks, Tightened, Retyped, Narrowed
  <2>5. PopulatedTable(i)
    BY <1>9, TableIsServedOrNew DEF OnATable
  <2>6. QED
    BY <1>1, <2>1, <2>4, <2>5 DEF TableRewritingAlterField
<1>10. QED
  BY <1>8, <1>9

LEMMA StallReportsStall ==
    ASSUME LeafInv, NEW i \in StallReports
    PROVE  \E s \in Statements(i) : Stalls(s)
<1>1. i \in Written /\ (BlockingAddIndex(i) \/ ValidatedAddConstraint(i) \/ TableRewritingAlterField(i))
  BY DEF StallReports
<1>2. CASE BlockingAddIndex(i)
  BY <1>1, <1>2, StepIsWritten, IndexesSay, StatementsLock DEF BlockingAddIndex, Growing
<1>3. CASE ValidatedAddConstraint(i)
  <2>1. /\ steps[i].op.name = "AddConstraint"
        /\ steps[i].op.how \in {"CheckConstraint", "UniqueConstraint", "UniqueConstraint condition", "ExclusionConstraint"}
    BY <1>3, Zenon DEF ValidatedAddConstraint, Emitted
  <2>2. Statements(i) \in {{AddCheck}, {AddUnique}, {CreateUniqueIndex}, {AddExclusion}}
    BY <1>1, <2>1, StepIsWritten, ConstraintsSay, ZenonT(30)
  <2>3. QED
    BY <2>2, StatementsLock DEF Growing
<1>4. CASE TableRewritingAlterField(i)
  BY <1>1, <1>4, AltersAreJudged DEF TableRewritingAlterField
<1>5. QED
  BY <1>1, <1>2, <1>3, <1>4

LEMMA StallsAreReported ==
    ASSUME LeafInv, NEW i \in Written, NEW s \in Statements(i), Stalls(s), InService(steps[i]), SeenInFull(i),
           steps[i].op.name # "AddField"
    PROVE  i \in StallReports
<1> DEFINE op == steps[i].op
<1>1. s \in Growing
  BY StepIsWritten, StatementsAreKnown, StatementsLock
<1>2. CASE op.name = "AlterField"
  BY <1>2, AltersAreJudged DEF StallReports
<1>3. CASE op.name = "AddIndex"
  BY <1>3, TableIsServedOrNew DEF OnATable, BlockingAddIndex, StallReports
<1>4. CASE op.name = "AddConstraint"
  <2>1. op.how \in Constraints /\ PopulatedTable(i)
    BY <1>4, StepIsWritten, TableIsServedOrNew, Zenon DEF OnATable, Applies
  <2>2. op.how # "OwnConstraint"
    BY <1>4, StepIsWritten, ConstraintsSay, Zenon
  <2>3. Emitted(op.how) # "none"
    BY <2>1, <2>2, Zenon DEF Emitted, Constraints
  <2>4. QED
    BY <1>4, <2>1, <2>3 DEF ValidatedAddConstraint, StallReports
<1>5. CASE op.name \in {"CreateModel", "DeleteModel", "RenameModel", "AlterModelTable"}
  BY <1>5, StepIsWritten, TablesSay, StatementsLock DEF Quick, Gentle
<1>6. CASE op.name \in {"RemoveField", "RenameField"}
  BY <1>6, StepIsWritten, ColumnsSay, StatementsLock DEF Quick
<1>7. CASE op.name \in {"AddIndexConcurrently", "RemoveIndex", "RemoveIndexConcurrently", "AddConstraintNotValid",
                        "ValidateConstraint", "AlterModelOptions", "RunPython", "CreateExtension"}
  BY <1>7, StepIsWritten, IndexesSay, StatementsLock DEF Quick, Gentle
<1>8. CASE op.name = "RemoveConstraint"
  BY <1>8, StepIsWritten, RemovalsSay, StatementsLock DEF Quick
<1>9. QED
  BY <1>2, <1>3, <1>4, <1>5, <1>6, <1>7, <1>8, StepIsWritten DEF Operations, OnATable, OnNothing

\* A line is of an operation, and one of its statements.
LEMMA LinesAreStatements ==
    ASSUME NEW l \in Lines
    PROVE  /\ l[1] \in Written /\ l[2] \in DOMAIN StatementsOf(steps[l[1]].op, steps[l[1]].met)
           /\ l = <<l[1], l[2]>> /\ Line(l) \in Statements(l[1])
<1>1. PICK j \in Written : \E k \in DOMAIN StatementsOf(steps[j].op, steps[j].met) : l = <<j, k>>
  BY DEF Lines
<1>2. QED
  BY <1>1 DEF Line, Statements, Range

LEMMA InvMeansTablesAreJudged == LeafInv => TablesInServiceAreJudged
<1> SUFFICES ASSUME LeafInv
             PROVE  TablesInServiceAreJudged
  OBVIOUS
<1>1. \A i \in Written :
        steps[i].op.field.db_default = "none" =>
          (NonNullableAddFieldWithoutDefault(i) <=> Aborts(steps[i]) /\ Legible(steps[i].op.field))
  BY RefusalsAreReported
<1>2. \A i \in StallReports : \E s \in Statements(i) : Stalls(s)
  BY StallReportsStall
<1>3. ASSUME NEW l \in Lines, StallsAt(l), SeenInFull(l[1]), steps[l[1]].op.name # "AddField"
      PROVE  l[1] \in StallReports
  BY <1>3, LinesAreStatements, StallsAreReported DEF StallsAt
<1>4. QED
  BY <1>1, <1>2, <1>3 DEF TablesInServiceAreJudged

-----------------------------------------------------------------------------
(* The statements of a pending leaf (DJM-010).                               *)

LEMMA RulesNumbered == DOMAIN RULES = 1..21
  BY DEF RULES

\* The rules whose words a statement holds.
Picks(k, S) == RULES[k].words \subseteq S

LEMMA RulesLookFor ==
    ASSUME NEW S
    PROVE  /\ Picks(1, S) <=> "CREATE INDEX" \in S /\ "CONCURRENTLY" \in S
           /\ Picks(2, S) <=> "DROP INDEX" \in S /\ "CONCURRENTLY" \in S
           /\ Picks(3, S) <=> "CREATE INDEX" \in S
           /\ Picks(4, S) <=> "ALTER TABLE" \in S /\ "VALIDATE CONSTRAINT" \in S
           /\ Picks(5, S) <=> "ALTER TABLE" \in S /\ "ADD CONSTRAINT" \in S /\ "NOT VALID" \in S
           /\ Picks(6, S) <=> "ALTER TABLE" \in S /\ "ADD CONSTRAINT" \in S /\ "UNIQUE" \in S
           /\ Picks(7, S) <=> "ALTER TABLE" \in S /\ "ADD CONSTRAINT" \in S
           /\ Picks(8, S) <=> "ALTER TABLE" \in S /\ "ALTER COLUMN" \in S /\ "TYPE" \in S
           /\ Picks(9, S) <=> "ALTER TABLE" \in S /\ "ALTER COLUMN" \in S /\ "SET NOT NULL" \in S
           /\ Picks(10, S) <=> "ALTER TABLE" \in S /\ "ADD COLUMN" \in S /\ "DEFAULT VOLATILE" \in S
           /\ Picks(11, S) <=> "ALTER TABLE" \in S /\ "ADD COLUMN" \in S
           /\ Picks(12, S) <=> "ALTER TABLE" \in S /\ "DROP COLUMN" \in S
           /\ Picks(13, S) <=> "ALTER TABLE" \in S /\ "ALTER COLUMN" \in S /\ "SET OR DROP" \in S
           /\ Picks(14, S) <=> "ALTER TABLE" \in S /\ "DROP CONSTRAINT" \in S
           /\ Picks(15, S) <=> "ALTER TABLE" \in S /\ "RENAME" \in S
           /\ Picks(16, S) <=> "ALTER TABLE" \in S /\ "SET (" \in S
           /\ Picks(17, S) <=> "DROP INDEX" \in S
           /\ Picks(18, S) <=> "DROP TABLE" \in S
           /\ Picks(19, S) <=> "TRUNCATE" \in S
           /\ Picks(20, S) <=> "CREATE TABLE" \in S
           /\ Picks(21, S) <=> "INSERT OR UPDATE" \in S
BY Zenon DEF RULES, Statement, Picks

LEMMA RulesLock ==
    /\ RULES[1].lock = 1 /\ RULES[1].work = 1
    /\ RULES[2].lock = 1 /\ RULES[2].work = 0
    /\ RULES[3].lock = 2 /\ RULES[3].work = 1
    /\ RULES[4].lock = 1 /\ RULES[4].work = 1
    /\ RULES[5].lock = 3 /\ RULES[5].work = 0
    /\ RULES[6].lock = 3 /\ RULES[6].work = 2
    /\ RULES[7].lock = 3 /\ RULES[7].work = 1
    /\ RULES[8].lock = 3 /\ RULES[8].work = 2
    /\ RULES[9].lock = 3 /\ RULES[9].work = 1
    /\ RULES[10].lock = 3 /\ RULES[10].work = 2
    /\ RULES[11].lock = 3 /\ RULES[11].work = 0
    /\ RULES[12].lock = 3 /\ RULES[12].work = 0
    /\ RULES[13].lock = 3 /\ RULES[13].work = 0
    /\ RULES[14].lock = 3 /\ RULES[14].work = 0
    /\ RULES[15].lock = 3 /\ RULES[15].work = 0
    /\ RULES[16].lock = 1 /\ RULES[16].work = 0
    /\ RULES[17].lock = 3 /\ RULES[17].work = 0
    /\ RULES[18].lock = 3 /\ RULES[18].work = 0
    /\ RULES[19].lock = 3 /\ RULES[19].work = 0
    /\ RULES[20].lock = 0 /\ RULES[20].work = 0
    /\ RULES[21].lock = 0 /\ RULES[21].work = 0
BY Zenon DEF RULES, Statement, CATALOGUE, SCAN, REWRITE

LEMMA FirstIsLeast ==
    ASSUME NEW S \in SUBSET Nat, NEW k \in S, \A j \in S : k <= j
    PROVE  FirstOf(S) = k
<1>1. \E i \in S : \A j \in S : i <= j
  OBVIOUS
<1> DEFINE f == FirstOf(S)
<1>2. f \in S /\ \A j \in S : f <= j
  BY <1>1 DEF FirstOf
<1> HIDE DEF f
<1>3. f \in Nat /\ k \in Nat /\ f <= k /\ k <= f
  BY <1>2
<1>4. f = k
  BY <1>3
<1>5. QED
  BY <1>4 DEF f

LEMMA FirstRuleDecides ==
    ASSUME NEW statement, NEW k \in 1..21, Picks(k, statement.words),
           \A j \in 1..21 : j < k => ~Picks(j, statement.words)
    PROVE  Classify(statement) = RULES[k]
<1> DEFINE said == {r \in DOMAIN RULES : RULES[r].words \subseteq statement.words}
<1>1. said \in SUBSET Nat /\ k \in said /\ \A j \in said : k <= j
  BY RulesNumbered DEF Picks
<1>2. FirstOf(said) = k
  BY <1>1, FirstIsLeast
<1>3. QED
  BY <1>1, <1>2 DEF Classify

LEMMA EachSays ==
    /\ CreateIndexConcurrently.words = {"CREATE INDEX", "CONCURRENTLY"}
    /\ DropIndexConcurrently.words = {"DROP INDEX", "CONCURRENTLY"}
    /\ CreateIndex.words = {"CREATE INDEX"}
    /\ CreateUniqueIndex.words = {"CREATE INDEX", "UNIQUE"}
    /\ Validate.words = {"ALTER TABLE", "VALIDATE CONSTRAINT"}
    /\ AddNotValid.words = {"ALTER TABLE", "ADD CONSTRAINT", "NOT VALID"}
    /\ AddUnique.words = {"ALTER TABLE", "ADD CONSTRAINT", "UNIQUE"}
    /\ AddCheck.words = {"ALTER TABLE", "ADD CONSTRAINT"}
    /\ AddExclusion.words = {"ALTER TABLE", "ADD CONSTRAINT", "EXCLUDE"}
    /\ AlterType.words = {"ALTER TABLE", "ALTER COLUMN", "TYPE"}
    /\ GrowType.words = {"ALTER TABLE", "ALTER COLUMN", "TYPE"}
    /\ SetNotNull.words = {"ALTER TABLE", "ALTER COLUMN", "SET OR DROP", "SET NOT NULL"}
    /\ AddVolatileColumn.words = {"ALTER TABLE", "ADD COLUMN", "DEFAULT VOLATILE"}
    /\ AddColumn.words = {"ALTER TABLE", "ADD COLUMN"}
    /\ DropColumn.words = {"ALTER TABLE", "DROP COLUMN"}
    /\ DropNotNull.words = {"ALTER TABLE", "ALTER COLUMN", "SET OR DROP"}
    /\ DropConstraint.words = {"ALTER TABLE", "DROP CONSTRAINT"}
    /\ Rename.words = {"ALTER TABLE", "RENAME"}
    /\ DropIndex.words = {"DROP INDEX"}
    /\ DropTable.words = {"DROP TABLE"}
    /\ CreateTable.words = {"CREATE TABLE"}
BY DEF Statement, CreateIndexConcurrently, DropIndexConcurrently, CreateIndex, CreateUniqueIndex, Validate,
       AddNotValid, AddUnique, AddCheck, AddExclusion, AlterType, GrowType, SetNotNull, AddVolatileColumn,
       AddColumn, DropColumn, DropNotNull, DropConstraint, Rename, DropIndex, DropTable, CreateTable

\* The rule that decides for each statement Django makes.
LEMMA EachIsClassified ==
    /\ Classify(CreateIndexConcurrently) = RULES[1]
    /\ Classify(DropIndexConcurrently) = RULES[2]
    /\ Classify(CreateIndex) = RULES[3]
    /\ Classify(CreateUniqueIndex) = RULES[3]
    /\ Classify(Validate) = RULES[4]
    /\ Classify(AddNotValid) = RULES[5]
    /\ Classify(AddUnique) = RULES[6]
    /\ Classify(AddCheck) = RULES[7]
    /\ Classify(AddExclusion) = RULES[7]
    /\ Classify(AlterType) = RULES[8]
    /\ Classify(GrowType) = RULES[8]
    /\ Classify(SetNotNull) = RULES[9]
    /\ Classify(AddVolatileColumn) = RULES[10]
    /\ Classify(AddColumn) = RULES[11]
    /\ Classify(DropColumn) = RULES[12]
    /\ Classify(DropNotNull) = RULES[13]
    /\ Classify(DropConstraint) = RULES[14]
    /\ Classify(Rename) = RULES[15]
    /\ Classify(DropIndex) = RULES[17]
    /\ Classify(DropTable) = RULES[18]
    /\ Classify(CreateTable) = RULES[20]
<1>1. Classify(CreateIndexConcurrently) = RULES[1]
  <2> DEFINE S == CreateIndexConcurrently.words
  <2>1. S = {"CREATE INDEX", "CONCURRENTLY"}
    BY EachSays, Zenon
  <2> HIDE DEF S
  <2>2. "CREATE INDEX" \in S /\ "CONCURRENTLY" \in S
    BY <2>1, Zenon
  <2>3. Picks(1, S)
    BY <2>2, RulesLookFor, Zenon
  <2>4. QED
    BY <2>3, FirstRuleDecides DEF S
<1>2. Classify(DropIndexConcurrently) = RULES[2]
  <2> DEFINE S == DropIndexConcurrently.words
  <2>1. S = {"DROP INDEX", "CONCURRENTLY"}
    BY EachSays, Zenon
  <2> HIDE DEF S
  <2>2. "DROP INDEX" \in S /\ "CONCURRENTLY" \in S /\ "CREATE INDEX" \notin S
    BY <2>1, Zenon
  <2>3. Picks(2, S) /\ ~Picks(1, S)
    BY <2>2, RulesLookFor, Zenon
  <2>4. QED
    BY <2>3, FirstRuleDecides DEF S
<1>3. Classify(CreateIndex) = RULES[3]
  <2> DEFINE S == CreateIndex.words
  <2>1. S = {"CREATE INDEX"}
    BY EachSays, Zenon
  <2> HIDE DEF S
  <2>2. "CREATE INDEX" \in S /\ "CONCURRENTLY" \notin S
    BY <2>1, Zenon
  <2>3. Picks(3, S) /\ ~Picks(1, S) /\ ~Picks(2, S)
    BY <2>2, RulesLookFor, Zenon
  <2>4. QED
    BY <2>3, FirstRuleDecides DEF S
<1>4. Classify(CreateUniqueIndex) = RULES[3]
  <2> DEFINE S == CreateUniqueIndex.words
  <2>1. S = {"CREATE INDEX", "UNIQUE"}
    BY EachSays, Zenon
  <2> HIDE DEF S
  <2>2. "CREATE INDEX" \in S /\ "CONCURRENTLY" \notin S
    BY <2>1, Zenon
  <2>3. Picks(3, S) /\ ~Picks(1, S) /\ ~Picks(2, S)
    BY <2>2, RulesLookFor, Zenon
  <2>4. QED
    BY <2>3, FirstRuleDecides DEF S
<1>5. Classify(Validate) = RULES[4]
  <2> DEFINE S == Validate.words
  <2>1. S = {"ALTER TABLE", "VALIDATE CONSTRAINT"}
    BY EachSays, Zenon
  <2> HIDE DEF S
  <2>2. "ALTER TABLE" \in S /\ "VALIDATE CONSTRAINT" \in S /\ "CREATE INDEX" \notin S /\ "DROP INDEX" \notin S
    BY <2>1, Zenon
  <2>3. Picks(4, S) /\ ~Picks(1, S) /\ ~Picks(2, S) /\ ~Picks(3, S)
    BY <2>2, RulesLookFor, Zenon
  <2>4. QED
    BY <2>3, FirstRuleDecides DEF S
<1>6. Classify(AddNotValid) = RULES[5]
  <2> DEFINE S == AddNotValid.words
  <2>1. S = {"ALTER TABLE", "ADD CONSTRAINT", "NOT VALID"}
    BY EachSays, Zenon
  <2> HIDE DEF S
  <2>2. /\ "ALTER TABLE" \in S /\ "ADD CONSTRAINT" \in S /\ "NOT VALID" \in S /\ "CREATE INDEX" \notin S
        /\ "DROP INDEX" \notin S /\ "VALIDATE CONSTRAINT" \notin S
    BY <2>1, Zenon
  <2>3. Picks(5, S) /\ ~Picks(1, S) /\ ~Picks(2, S) /\ ~Picks(3, S) /\ ~Picks(4, S)
    BY <2>2, RulesLookFor, Zenon
  <2>4. QED
    BY <2>3, FirstRuleDecides DEF S
<1>7. Classify(AddUnique) = RULES[6]
  <2> DEFINE S == AddUnique.words
  <2>1. S = {"ALTER TABLE", "ADD CONSTRAINT", "UNIQUE"}
    BY EachSays, Zenon
  <2> HIDE DEF S
  <2>2. /\ "ALTER TABLE" \in S /\ "ADD CONSTRAINT" \in S /\ "UNIQUE" \in S /\ "CREATE INDEX" \notin S
        /\ "DROP INDEX" \notin S /\ "VALIDATE CONSTRAINT" \notin S /\ "NOT VALID" \notin S
    BY <2>1, Zenon
  <2>3. Picks(6, S) /\ ~Picks(1, S) /\ ~Picks(2, S) /\ ~Picks(3, S) /\ ~Picks(4, S) /\ ~Picks(5, S)
    BY <2>2, RulesLookFor, Zenon
  <2>4. QED
    BY <2>3, FirstRuleDecides DEF S
<1>8. Classify(AddCheck) = RULES[7]
  <2> DEFINE S == AddCheck.words
  <2>1. S = {"ALTER TABLE", "ADD CONSTRAINT"}
    BY EachSays, Zenon
  <2> HIDE DEF S
  <2>2. /\ "ALTER TABLE" \in S /\ "ADD CONSTRAINT" \in S /\ "CREATE INDEX" \notin S /\ "DROP INDEX" \notin S
        /\ "VALIDATE CONSTRAINT" \notin S /\ "NOT VALID" \notin S /\ "UNIQUE" \notin S
    BY <2>1, Zenon
  <2>3. /\ Picks(7, S) /\ ~Picks(1, S) /\ ~Picks(2, S) /\ ~Picks(3, S) /\ ~Picks(4, S) /\ ~Picks(5, S)
        /\ ~Picks(6, S)
    BY <2>2, RulesLookFor, Zenon
  <2>4. QED
    BY <2>3, FirstRuleDecides DEF S
<1>9. Classify(AddExclusion) = RULES[7]
  <2> DEFINE S == AddExclusion.words
  <2>1. S = {"ALTER TABLE", "ADD CONSTRAINT", "EXCLUDE"}
    BY EachSays, Zenon
  <2> HIDE DEF S
  <2>2. /\ "ALTER TABLE" \in S /\ "ADD CONSTRAINT" \in S /\ "CREATE INDEX" \notin S /\ "DROP INDEX" \notin S
        /\ "VALIDATE CONSTRAINT" \notin S /\ "NOT VALID" \notin S /\ "UNIQUE" \notin S
    BY <2>1, Zenon
  <2>3. /\ Picks(7, S) /\ ~Picks(1, S) /\ ~Picks(2, S) /\ ~Picks(3, S) /\ ~Picks(4, S) /\ ~Picks(5, S)
        /\ ~Picks(6, S)
    BY <2>2, RulesLookFor, Zenon
  <2>4. QED
    BY <2>3, FirstRuleDecides DEF S
<1>10. Classify(AlterType) = RULES[8]
  <2> DEFINE S == AlterType.words
  <2>1. S = {"ALTER TABLE", "ALTER COLUMN", "TYPE"}
    BY EachSays, Zenon
  <2> HIDE DEF S
  <2>2. /\ "ALTER TABLE" \in S /\ "ALTER COLUMN" \in S /\ "TYPE" \in S /\ "CREATE INDEX" \notin S
        /\ "DROP INDEX" \notin S /\ "VALIDATE CONSTRAINT" \notin S /\ "ADD CONSTRAINT" \notin S
    BY <2>1, Zenon
  <2>3. /\ Picks(8, S) /\ ~Picks(1, S) /\ ~Picks(2, S) /\ ~Picks(3, S) /\ ~Picks(4, S) /\ ~Picks(5, S)
        /\ ~Picks(6, S) /\ ~Picks(7, S)
    BY <2>2, RulesLookFor, Zenon
  <2>4. QED
    BY <2>3, FirstRuleDecides DEF S
<1>11. Classify(GrowType) = RULES[8]
  <2> DEFINE S == GrowType.words
  <2>1. S = {"ALTER TABLE", "ALTER COLUMN", "TYPE"}
    BY EachSays, Zenon
  <2> HIDE DEF S
  <2>2. /\ "ALTER TABLE" \in S /\ "ALTER COLUMN" \in S /\ "TYPE" \in S /\ "CREATE INDEX" \notin S
        /\ "DROP INDEX" \notin S /\ "VALIDATE CONSTRAINT" \notin S /\ "ADD CONSTRAINT" \notin S
    BY <2>1, Zenon
  <2>3. /\ Picks(8, S) /\ ~Picks(1, S) /\ ~Picks(2, S) /\ ~Picks(3, S) /\ ~Picks(4, S) /\ ~Picks(5, S)
        /\ ~Picks(6, S) /\ ~Picks(7, S)
    BY <2>2, RulesLookFor, Zenon
  <2>4. QED
    BY <2>3, FirstRuleDecides DEF S
<1>12. Classify(SetNotNull) = RULES[9]
  <2> DEFINE S == SetNotNull.words
  <2>1. S = {"ALTER TABLE", "ALTER COLUMN", "SET OR DROP", "SET NOT NULL"}
    BY EachSays, Zenon
  <2> HIDE DEF S
  <2>2. /\ "ALTER TABLE" \in S /\ "ALTER COLUMN" \in S /\ "SET NOT NULL" \in S /\ "CREATE INDEX" \notin S
        /\ "DROP INDEX" \notin S /\ "VALIDATE CONSTRAINT" \notin S /\ "ADD CONSTRAINT" \notin S
        /\ "TYPE" \notin S
    BY <2>1, Zenon
  <2>3. /\ Picks(9, S) /\ ~Picks(1, S) /\ ~Picks(2, S) /\ ~Picks(3, S) /\ ~Picks(4, S) /\ ~Picks(5, S)
        /\ ~Picks(6, S) /\ ~Picks(7, S) /\ ~Picks(8, S)
    BY <2>2, RulesLookFor, Zenon
  <2>4. QED
    BY <2>3, FirstRuleDecides DEF S
<1>13. Classify(AddVolatileColumn) = RULES[10]
  <2> DEFINE S == AddVolatileColumn.words
  <2>1. S = {"ALTER TABLE", "ADD COLUMN", "DEFAULT VOLATILE"}
    BY EachSays, Zenon
  <2> HIDE DEF S
  <2>2. /\ "ALTER TABLE" \in S /\ "ADD COLUMN" \in S /\ "DEFAULT VOLATILE" \in S /\ "CREATE INDEX" \notin S
        /\ "DROP INDEX" \notin S /\ "VALIDATE CONSTRAINT" \notin S /\ "ADD CONSTRAINT" \notin S
        /\ "ALTER COLUMN" \notin S
    BY <2>1, Zenon
  <2>3. /\ Picks(10, S) /\ ~Picks(1, S) /\ ~Picks(2, S) /\ ~Picks(3, S) /\ ~Picks(4, S) /\ ~Picks(5, S)
        /\ ~Picks(6, S) /\ ~Picks(7, S) /\ ~Picks(8, S) /\ ~Picks(9, S)
    BY <2>2, RulesLookFor, Zenon
  <2>4. QED
    BY <2>3, FirstRuleDecides DEF S
<1>14. Classify(AddColumn) = RULES[11]
  <2> DEFINE S == AddColumn.words
  <2>1. S = {"ALTER TABLE", "ADD COLUMN"}
    BY EachSays, Zenon
  <2> HIDE DEF S
  <2>2. /\ "ALTER TABLE" \in S /\ "ADD COLUMN" \in S /\ "CREATE INDEX" \notin S /\ "DROP INDEX" \notin S
        /\ "VALIDATE CONSTRAINT" \notin S /\ "ADD CONSTRAINT" \notin S /\ "ALTER COLUMN" \notin S
        /\ "DEFAULT VOLATILE" \notin S
    BY <2>1, Zenon
  <2>3. /\ Picks(11, S) /\ ~Picks(1, S) /\ ~Picks(2, S) /\ ~Picks(3, S) /\ ~Picks(4, S) /\ ~Picks(5, S)
        /\ ~Picks(6, S) /\ ~Picks(7, S) /\ ~Picks(8, S) /\ ~Picks(9, S) /\ ~Picks(10, S)
    BY <2>2, RulesLookFor, Zenon
  <2>4. QED
    BY <2>3, FirstRuleDecides DEF S
<1>15. Classify(DropColumn) = RULES[12]
  <2> DEFINE S == DropColumn.words
  <2>1. S = {"ALTER TABLE", "DROP COLUMN"}
    BY EachSays, Zenon
  <2> HIDE DEF S
  <2>2. /\ "ALTER TABLE" \in S /\ "DROP COLUMN" \in S /\ "CREATE INDEX" \notin S /\ "DROP INDEX" \notin S
        /\ "VALIDATE CONSTRAINT" \notin S /\ "ADD CONSTRAINT" \notin S /\ "ALTER COLUMN" \notin S
        /\ "ADD COLUMN" \notin S
    BY <2>1, Zenon
  <2>3. /\ Picks(12, S) /\ ~Picks(1, S) /\ ~Picks(2, S) /\ ~Picks(3, S) /\ ~Picks(4, S) /\ ~Picks(5, S)
        /\ ~Picks(6, S) /\ ~Picks(7, S) /\ ~Picks(8, S) /\ ~Picks(9, S) /\ ~Picks(10, S) /\ ~Picks(11, S)
    BY <2>2, RulesLookFor, Zenon
  <2>4. QED
    BY <2>3, FirstRuleDecides DEF S
<1>16. Classify(DropNotNull) = RULES[13]
  <2> DEFINE S == DropNotNull.words
  <2>1. S = {"ALTER TABLE", "ALTER COLUMN", "SET OR DROP"}
    BY EachSays, Zenon
  <2> HIDE DEF S
  <2>2. /\ "ALTER TABLE" \in S /\ "ALTER COLUMN" \in S /\ "SET OR DROP" \in S /\ "CREATE INDEX" \notin S
        /\ "DROP INDEX" \notin S /\ "VALIDATE CONSTRAINT" \notin S /\ "ADD CONSTRAINT" \notin S
        /\ "TYPE" \notin S /\ "SET NOT NULL" \notin S /\ "ADD COLUMN" \notin S /\ "DROP COLUMN" \notin S
    BY <2>1, Zenon
  <2>3. /\ Picks(13, S) /\ ~Picks(1, S) /\ ~Picks(2, S) /\ ~Picks(3, S) /\ ~Picks(4, S) /\ ~Picks(5, S)
        /\ ~Picks(6, S) /\ ~Picks(7, S) /\ ~Picks(8, S) /\ ~Picks(9, S) /\ ~Picks(10, S) /\ ~Picks(11, S)
        /\ ~Picks(12, S)
    BY <2>2, RulesLookFor, Zenon
  <2>4. QED
    BY <2>3, FirstRuleDecides DEF S
<1>17. Classify(DropConstraint) = RULES[14]
  <2> DEFINE S == DropConstraint.words
  <2>1. S = {"ALTER TABLE", "DROP CONSTRAINT"}
    BY EachSays, Zenon
  <2> HIDE DEF S
  <2>2. /\ "ALTER TABLE" \in S /\ "DROP CONSTRAINT" \in S /\ "CREATE INDEX" \notin S /\ "DROP INDEX" \notin S
        /\ "VALIDATE CONSTRAINT" \notin S /\ "ADD CONSTRAINT" \notin S /\ "ALTER COLUMN" \notin S
        /\ "ADD COLUMN" \notin S /\ "DROP COLUMN" \notin S
    BY <2>1, Zenon
  <2>3. /\ Picks(14, S) /\ ~Picks(1, S) /\ ~Picks(2, S) /\ ~Picks(3, S) /\ ~Picks(4, S) /\ ~Picks(5, S)
        /\ ~Picks(6, S) /\ ~Picks(7, S) /\ ~Picks(8, S) /\ ~Picks(9, S) /\ ~Picks(10, S) /\ ~Picks(11, S)
        /\ ~Picks(12, S) /\ ~Picks(13, S)
    BY <2>2, RulesLookFor, Zenon
  <2>4. QED
    BY <2>3, FirstRuleDecides DEF S
<1>18. Classify(Rename) = RULES[15]
  <2> DEFINE S == Rename.words
  <2>1. S = {"ALTER TABLE", "RENAME"}
    BY EachSays, Zenon
  <2> HIDE DEF S
  <2>2. /\ "ALTER TABLE" \in S /\ "RENAME" \in S /\ "CREATE INDEX" \notin S /\ "DROP INDEX" \notin S
        /\ "VALIDATE CONSTRAINT" \notin S /\ "ADD CONSTRAINT" \notin S /\ "ALTER COLUMN" \notin S
        /\ "ADD COLUMN" \notin S /\ "DROP COLUMN" \notin S /\ "DROP CONSTRAINT" \notin S
    BY <2>1, Zenon
  <2>3. /\ Picks(15, S) /\ ~Picks(1, S) /\ ~Picks(2, S) /\ ~Picks(3, S) /\ ~Picks(4, S) /\ ~Picks(5, S)
        /\ ~Picks(6, S) /\ ~Picks(7, S) /\ ~Picks(8, S) /\ ~Picks(9, S) /\ ~Picks(10, S) /\ ~Picks(11, S)
        /\ ~Picks(12, S) /\ ~Picks(13, S) /\ ~Picks(14, S)
    BY <2>2, RulesLookFor, Zenon
  <2>4. QED
    BY <2>3, FirstRuleDecides DEF S
<1>19. Classify(DropIndex) = RULES[17]
  <2> DEFINE S == DropIndex.words
  <2>1. S = {"DROP INDEX"}
    BY EachSays, Zenon
  <2> HIDE DEF S
  <2>2. "DROP INDEX" \in S /\ "CREATE INDEX" \notin S /\ "CONCURRENTLY" \notin S /\ "ALTER TABLE" \notin S
    BY <2>1, Zenon
  <2>3. /\ Picks(17, S) /\ ~Picks(1, S) /\ ~Picks(2, S) /\ ~Picks(3, S) /\ ~Picks(4, S) /\ ~Picks(5, S)
        /\ ~Picks(6, S) /\ ~Picks(7, S) /\ ~Picks(8, S) /\ ~Picks(9, S) /\ ~Picks(10, S) /\ ~Picks(11, S)
        /\ ~Picks(12, S) /\ ~Picks(13, S) /\ ~Picks(14, S) /\ ~Picks(15, S) /\ ~Picks(16, S)
    BY <2>2, RulesLookFor, Zenon
  <2>4. QED
    BY <2>3, FirstRuleDecides DEF S
<1>20. Classify(DropTable) = RULES[18]
  <2> DEFINE S == DropTable.words
  <2>1. S = {"DROP TABLE"}
    BY EachSays, Zenon
  <2> HIDE DEF S
  <2>2. "DROP TABLE" \in S /\ "CREATE INDEX" \notin S /\ "DROP INDEX" \notin S /\ "ALTER TABLE" \notin S
    BY <2>1, Zenon
  <2>3. /\ Picks(18, S) /\ ~Picks(1, S) /\ ~Picks(2, S) /\ ~Picks(3, S) /\ ~Picks(4, S) /\ ~Picks(5, S)
        /\ ~Picks(6, S) /\ ~Picks(7, S) /\ ~Picks(8, S) /\ ~Picks(9, S) /\ ~Picks(10, S) /\ ~Picks(11, S)
        /\ ~Picks(12, S) /\ ~Picks(13, S) /\ ~Picks(14, S) /\ ~Picks(15, S) /\ ~Picks(16, S) /\ ~Picks(17, S)
    BY <2>2, RulesLookFor, Zenon
  <2>4. QED
    BY <2>3, FirstRuleDecides DEF S
<1>21. Classify(CreateTable) = RULES[20]
  <2> DEFINE S == CreateTable.words
  <2>1. S = {"CREATE TABLE"}
    BY EachSays, Zenon
  <2> HIDE DEF S
  <2>2. /\ "CREATE TABLE" \in S /\ "CREATE INDEX" \notin S /\ "DROP INDEX" \notin S /\ "ALTER TABLE" \notin S
        /\ "DROP TABLE" \notin S /\ "TRUNCATE" \notin S
    BY <2>1, Zenon
  <2>3. /\ Picks(20, S) /\ ~Picks(1, S) /\ ~Picks(2, S) /\ ~Picks(3, S) /\ ~Picks(4, S) /\ ~Picks(5, S)
        /\ ~Picks(6, S) /\ ~Picks(7, S) /\ ~Picks(8, S) /\ ~Picks(9, S) /\ ~Picks(10, S) /\ ~Picks(11, S)
        /\ ~Picks(12, S) /\ ~Picks(13, S) /\ ~Picks(14, S) /\ ~Picks(15, S) /\ ~Picks(16, S) /\ ~Picks(17, S)
        /\ ~Picks(18, S) /\ ~Picks(19, S)
    BY <2>2, RulesLookFor, Zenon
  <2>4. ASSUME NEW j \in 1..21, j < 20
        PROVE  ~Picks(j, S)
    <3>1. j \in {1, 2, 3, 4, 5, 6, 7, 8, 9, 10, 11, 12, 13, 14, 15, 16, 17, 18, 19}
      BY <2>4
    <3>2. QED
      BY <2>3, <3>1, Zenon
  <2>5. QED
    BY <2>3, <2>4, FirstRuleDecides DEF S
<1>22. QED
  BY <1>1, <1>2, <1>3, <1>4, <1>5, <1>6, <1>7, <1>8, <1>9, <1>10, <1>11, <1>12, <1>13, <1>14, <1>15, <1>16, <1>17,
     <1>18, <1>19, <1>20, <1>21

\* A statement of Django's that stops a table while it grows with it is taken for
\* one; so is the change of a type that Postgres makes in place, and no other.
LEMMA DangersAreStalls ==
    ASSUME NEW s \in Growing \cup Quick \cup Gentle
    PROVE  /\ Stalls(s) => Dangerous(s)
           /\ Dangerous(s) => Stalls(s) \/ s = GrowType
           /\ Classify(s).lock = s.lock /\ (s # GrowType => Classify(s).work = s.work)
           /\ 4 * Classify(s).work + Classify(s).lock \in 0..11
<1>1. CASE s \in Growing
  BY <1>1, EachIsClassified, EachLocks, RulesLock, StatementsLock DEF Growing, Dangerous, CATALOGUE
<1>2. CASE s \in Quick
  BY <1>2, EachIsClassified, EachLocks, RulesLock, StatementsLock DEF Quick, Dangerous, CATALOGUE
<1>3. CASE s \in Gentle
  BY <1>3, EachIsClassified, EachLocks, RulesLock, StatementsLock DEF Gentle, Dangerous, CATALOGUE
<1>4. QED
  BY <1>1, <1>2, <1>3

\* A set of numbers that is not empty has a least one.
LEMMA LeastExists ==
    ASSUME NEW S \in SUBSET Nat, S # {}
    PROVE  \E m \in S : \A k \in S : m <= k
<1> DEFINE Less == {p \in Nat \X Nat : p[1] < p[2]}
<1>1. IsWellFoundedOn(Less, Nat)
  BY NatLessThanWellFounded DEF OpToRel
<1>2. PICK m \in S : \A k \in S : <<k, m>> \notin Less
  BY <1>1, WFMin
<1>3. ASSUME NEW k \in S PROVE m <= k
  <2>1. m \in Nat /\ k \in Nat /\ ~(k < m)
    BY <1>2
  <2>2. QED
    BY <2>1
<1>4. QED
  BY <1>3

\* The statements of an operation are numbered.
LEMMA StatementsAreListed ==
    ASSUME NEW op \in Operations, NEW met
    PROVE  DOMAIN StatementsOf(op, met) \subseteq Nat
<1>1. \A condition, statement : DOMAIN When(condition, statement) \subseteq Nat
  BY DEF When
<1>2. \A s, t : DOMAIN (s \o t) \subseteq Nat
  OBVIOUS
<1>3. \A s : DOMAIN <<s>> \subseteq Nat /\ DOMAIN <<>> \subseteq Nat
  OBVIOUS
<1>4. CASE op.name = "AlterField"
  BY <1>2, <1>4 DEF StatementsOf
<1>5. CASE op.name = "AddField"
  BY <1>2, <1>3, <1>5 DEF StatementsOf
<1>6. CASE op.name \in {"RenameModel", "AlterModelTable", "RenameField"}
  BY <1>1, <1>6, Zenon DEF StatementsOf
<1>7. CASE op.name \in {"AddConstraint", "RemoveConstraint"}
  BY <1>3, <1>7, Zenon DEF StatementsOf
<1>8. CASE op.name \in {"CreateModel", "DeleteModel", "RemoveField", "AddIndex", "AddIndexConcurrently", "RemoveIndex",
                        "RemoveIndexConcurrently", "AddConstraintNotValid", "ValidateConstraint",
                        "AlterModelOptions", "RunPython", "CreateExtension"}
  BY <1>3, <1>8, Zenon DEF StatementsOf
<1>9. QED
  BY <1>4, <1>5, <1>6, <1>7, <1>8 DEF Operations, OnATable, OnNothing

\* Every printed line is one of Django's statements, at numbered places.
LEMMA LinesAreKnown ==
    ASSUME LeafInv, NEW l \in Lines
    PROVE  /\ Line(l) \in Growing \cup Quick \cup Gentle
           /\ l[1] \in Nat /\ l[2] \in Nat /\ l = <<l[1], l[2]>>
           /\ Effort(l) \in 0..11
<1>1. /\ l[1] \in Written /\ l = <<l[1], l[2]>> /\ Line(l) \in Statements(l[1])
      /\ l[2] \in DOMAIN StatementsOf(steps[l[1]].op, steps[l[1]].met)
  BY LinesAreStatements
<1>2. Line(l) \in Growing \cup Quick \cup Gentle
  BY <1>1, StepIsWritten, StatementsAreKnown
<1>3. l[1] \in Nat
  BY <1>1 DEF LeafInv, LeafTypeOK, Written
<1>4. l[2] \in Nat
  BY <1>1, StepIsWritten, StatementsAreListed
<1>5. QED
  BY <1>1, <1>2, <1>3, <1>4, DangersAreStalls DEF Effort

\* Where there is a dangerous line there is a worst one, and one only.
LEMMA WorstIsDangerous ==
    ASSUME LeafInv, DangerousLines # {}
    PROVE  Worst \in DangerousLines
<1> DEFINE D == DangerousLines
           ease(l) == 11 - Effort(l)
           eases == {ease(l) : l \in D}
<1>1. \A l \in D : /\ l[1] \in Nat /\ l[2] \in Nat /\ l = <<l[1], l[2]>>
                   /\ Effort(l) \in 0..11
  BY LinesAreKnown DEF DangerousLines
<1> HIDE DEF D
<1>2. PICK least \in eases : \A e \in eases : least <= e
  <2>1. eases \in SUBSET Nat /\ eases # {}
    BY <1>1 DEF D
  <2> HIDE DEF eases
  <2>2. QED
    BY <2>1, LeastExists
<1> DEFINE hardest == {l \in D : ease(l) = least}
           firsts == {l[1] : l \in hardest}
<1>3. PICK first \in firsts : \A f \in firsts : first <= f
  <2>1. firsts \in SUBSET Nat /\ firsts # {}
    BY <1>1
  <2> HIDE DEF firsts
  <2>2. QED
    BY <2>1, LeastExists
<1> DEFINE places == {l[2] : l \in {k \in hardest : k[1] = first}}
<1>4. PICK place \in places : \A p \in places : place <= p
  <2>1. places \in SUBSET Nat /\ places # {}
    BY <1>1
  <2> HIDE DEF places
  <2>2. QED
    BY <2>1, LeastExists
<1>5. PICK worst \in hardest : worst[1] = first /\ worst[2] = place
  OBVIOUS
<1>6. ASSUME NEW k \in D \ {worst}
      PROVE  Effort(k) < Effort(worst) \/ (Effort(k) = Effort(worst) /\ Earlier(worst, k))
  <2>1. least <= ease(k) /\ ease(worst) = least
    BY <1>2, <1>5
  <2>2. CASE ease(k) # least
    BY <1>1, <1>5, <2>1, <2>2
  <2>3. CASE ease(k) = least
    <3>1. k \in hardest /\ first <= k[1]
      BY <1>3, <2>3
    <3>2. CASE k[1] # first
      BY <1>1, <1>5, <2>1, <2>3, <3>1, <3>2 DEF Earlier
    <3>3. CASE k[1] = first
      <4>1. place <= k[2]
        BY <1>4, <3>1, <3>3
      <4>2. k[2] # place
        BY <1>1, <1>5, <1>6, <3>3
      <4>3. QED
        BY <1>1, <1>5, <2>1, <2>3, <3>3, <4>1, <4>2 DEF Earlier
    <3>4. QED
      BY <3>2, <3>3
  <2>4. QED
    BY <2>2, <2>3
<1>7. \E l \in DangerousLines :
        \A k \in DangerousLines \ {l} : Effort(k) < Effort(l) \/ (Effort(k) = Effort(l) /\ Earlier(l, k))
  BY <1>5, <1>6 DEF D
<1>8. QED
  BY <1>7 DEF Worst

LEMMA InvMeansPendingStallsAreReported == LeafInv => PendingStallsAreReported
<1> SUFFICES ASSUME LeafInv
             PROVE  PendingStallsAreReported
  OBVIOUS
<1>1. ASSUME PostgresIsAsked, NEW l \in Lines, StallsAt(l)
      PROVE  BlockingPendingMigration
  BY <1>1, LinesAreKnown, DangersAreStalls DEF StallsAt, BlockingPendingMigration, DangerousLines
<1>2. ASSUME BlockingPendingMigration
      PROVE  Stalls(Line(Worst)) \/ Line(Worst) = GrowType
  <2>1. Worst \in DangerousLines
    BY <1>2, WorstIsDangerous DEF BlockingPendingMigration
  <2>2. QED
    BY <2>1, LinesAreKnown, DangersAreStalls DEF DangerousLines
<1>3. ASSUME SeverityFor(Sized(Worst)) # "HIGH"
      PROVE  Sized(Worst) \in {"small", "noticeable"}
  BY <1>3 DEF SeverityFor
<1>4. ASSUME NEW l \in Lines
      PROVE  /\ Classify(Line(l)).lock = Line(l).lock
             /\ Line(l) # GrowType => Classify(Line(l)).work = Line(l).work
  BY LinesAreKnown, DangersAreStalls
<1>5. QED
  BY <1>1, <1>2, <1>3, <1>4 DEF PendingStallsAreReported

-----------------------------------------------------------------------------
(* The data passes of the leaf (DJM-006, DJM-007, DJM-008).                  *)

LEMMA OperationsAreNumbered == LeafInv => Written \subseteq Nat /\ \A i \in Written : 1..(i - 1) \subseteq Written
  BY DEF LeafInv, LeafTypeOK, Written

\* What speaks to Postgres is of a kind that locks.
LEMMA SpeakersLock ==
    ASSUME LeafInv, NEW j \in Written, Statements(j) # {}
    PROVE  steps[j].op.name \in LOCKING_KINDS /\ steps[j].op.name \in {"CreateModel"} \cup OnATable
<1>1. steps[j].op.name \notin {"AlterModelOptions", "RunPython", "CreateExtension"}
  BY StepIsWritten, IndexesSay
<1>2. QED
  BY <1>1, StepIsWritten DEF Operations, OnATable, OnNothing, LOCKING_KINDS, SCHEMA, INDEX, CONSTRAINT

\* An operation DJM-008 takes to lock does, or says nothing a request waits for.
LEMMA BlockersLock ==
    ASSUME LeafInv, NEW i \in Written, NEW j \in Blocking(i)
    PROVE  LocksTheTable(steps[j]) \/ \A s \in Statements(j) : s.lock < 2
<1>1. j \in Written /\ steps[j].op.name \in LOCKING_KINDS \ {"CreateModel"} /\ PopulatedTable(j)
  BY OperationsAreNumbered DEF Blocking
<1>2. SUFFICES ASSUME NEW s \in Statements(j), ~(s.lock < 2)
               PROVE  LocksTheTable(steps[j])
  OBVIOUS
<1>3. InService(steps[j])
  BY <1>1, <1>2, SpeakersLock, TableIsServedOrNew
<1>4. s.lock >= 2 /\ s # CreateTable
  BY <1>1, <1>2, StepIsWritten, StatementsAreKnown, StatementsLock DEF Gentle
<1>5. steps[j].op.name \notin DATA_KINDS
  BY <1>1 DEF LOCKING_KINDS, SCHEMA, INDEX, CONSTRAINT, DATA_KINDS
<1>6. QED
  BY <1>2, <1>3, <1>4, <1>5 DEF LocksTheTable, Statements, Range

\* What locks a table in service is taken to.
LEMMA LockersBlock ==
    ASSUME LeafInv, NEW i \in Written, NEW j \in 1..(i - 1), LocksTheTable(steps[j])
    PROVE  j \in Blocking(i)
<1>1. j \in Written
  BY OperationsAreNumbered
<1>2. PICK s \in Statements(j) : s.lock >= 2 /\ s # CreateTable
  BY DEF LocksTheTable, Statements, Range
<1>3. steps[j].op.name \in LOCKING_KINDS
  BY <1>1, <1>2, SpeakersLock
<1>4. steps[j].op.name # "CreateModel"
  BY <1>1, <1>2, StepIsWritten, TablesSay
<1>5. PopulatedTable(j)
  BY DEF LocksTheTable, InService, PopulatedTable
<1>6. QED
  BY <1>3, <1>4, <1>5 DEF Blocking

LEMMA InvMeansLocksHeldAreReported == LeafInv => LocksHeldAreReported
<1> SUFFICES ASSUME LeafInv
             PROVE  LocksHeldAreReported
  OBVIOUS
<1>1. Cardinality(DataReports) <= 1
  <2>1. \A i, j \in DataReports : i = j
    <3>1. \A i \in DataReports : /\ i \in Nat /\ steps[i].op.name \in DATA_KINDS /\ ~DataBefore(i) /\ i >= 1
      BY DEF DataReports, SchemaAndDataInOneTransaction, LeafInv, LeafTypeOK, Written
    <3>2. \A i, j \in DataReports : ~(i < j)
      BY <3>1 DEF DataBefore
    <3>3. QED
      BY <3>1, <3>2
  <2>2. CASE DataReports = {}
    BY <2>2, FS_EmptySet
  <2>3. CASE DataReports # {}
    <3>1. PICK i \in DataReports : DataReports = {i}
      BY <2>1, <2>3
    <3>2. Cardinality(DataReports) = 1
      BY <3>1, FS_Singleton
    <3>3. QED
      BY <3>2
  <2>4. QED
    BY <2>2, <2>3
<1>2. ASSUME NEW i \in DataReports
      PROVE  HeldAt(i) \/ \E j \in Blocking(i) : \A s \in Statements(j) : s.lock < 2
  <2>1. i \in Written /\ leaf.atomic /\ Blocking(i) # {}
    BY <1>2 DEF DataReports, SchemaAndDataInOneTransaction
  <2>2. PICK j \in Blocking(i) : TRUE
    BY <2>1
  <2>3. LocksTheTable(steps[j]) \/ \A s \in Statements(j) : s.lock < 2
    BY <2>1, BlockersLock
  <2>4. j \in 1..(i - 1)
    BY DEF Blocking
  <2>5. QED
    BY <2>1, <2>3, <2>4 DEF HeldAt
<1>3. ASSUME NEW i \in DataPasses, HeldAt(i), ~DataBefore(i)
      PROVE  i \in DataReports
  <2>1. PICK j \in 1..(i - 1) : LocksTheTable(steps[j])
    BY <1>3 DEF HeldAt
  <2>2. i \in Written /\ j \in Blocking(i)
    BY <1>3, <2>1, LockersBlock DEF DataPasses
  <2>3. QED
    BY <1>3, <2>2 DEF HeldAt, DataPasses, DataReports, SchemaAndDataInOneTransaction
<1>4. QED
  BY <1>1, <1>2, <1>3 DEF LocksHeldAreReported

LEMMA InvMeansRollbacksAreReported == LeafInv => RollbacksAreReported
<1> SUFFICES ASSUME LeafInv
             PROVE  RollbacksAreReported
  OBVIOUS
<1> DEFINE kept == \E j \in StillInForce : Statements(j) # {}
           reported == \E i \in Written : IrreversibleDataOperationBlocksRollback(i)
<1>1. StillInForce \subseteq Written /\ Raising \subseteq Written
  BY DEF StillInForce, Raising
<1>2. ASSUME kept
      PROVE  reported
  <2>1. PICK j \in StillInForce : Statements(j) # {}
    BY <1>2
  <2>2. j \in SchemaOperations
    BY <1>1, <2>1, SpeakersLock DEF SchemaOperations
  <2>3. Raising # {}
    BY <2>1 DEF StillInForce
  <2>4. QED
    BY <2>2, <2>3 DEF Raising, IrreversibleDataOperationBlocksRollback
<1>3. ASSUME reported, ~HalfWay, NEW j \in SchemaOperations, Statements(j) # {}
      PROVE  kept
  <2>1. PICK i \in Raising : i \in Nat
    BY <1>3, OperationsAreNumbered DEF Raising, IrreversibleDataOperationBlocksRollback
  <2>2. i \in StillInForce
    BY <1>1, <2>1 DEF StillInForce
  <2>3. StillInForce = Written
    BY <1>3, <2>2 DEF HalfWay
  <2>4. QED
    BY <1>3, <2>3 DEF SchemaOperations
<1>4. QED
  BY <1>2, <1>3 DEF RollbacksAreReported

LEMMA InvMeansDataPassesAreJudged == LeafInv => DataPassesAreJudged
<1> SUFFICES ASSUME LeafInv
             PROVE  DataPassesAreJudged
  OBVIOUS
<1>1. ASSUME NEW i \in Written, steps[i].op.runs = "forward", UnboundedRows(leaf.body)
      PROVE  Cardinality({j \in Written : UnboundedQuerysetInDataMigration(j)}) = 1
  <2> DEFINE own == {j \in ForwardNames : ~Separate(j)}
             from == IF own # {} THEN own ELSE ForwardNames
             named == {j \in Written : UnboundedQuerysetInDataMigration(j)}
  <2>1. i \in ForwardNames /\ ForwardNames \in SUBSET Nat
    BY <1>1, OperationsAreNumbered DEF ForwardNames, NoName
  <2>2. from \subseteq ForwardNames /\ from \in SUBSET Nat /\ from # {} /\ Forward = FirstOf(from)
    BY <2>1 DEF Forward
  <2> HIDE DEF own, from
  <2>3. Forward \in from
    <3>1. \E f \in from : \A j \in from : f <= j
      BY <2>2, LeastExists
    <3>2. FirstOf(from) \in from
      BY <3>1 DEF FirstOf
    <3>3. QED
      BY <2>2, <3>2
  <2>4. named = {Forward}
    BY <1>1, <2>2, <2>3 DEF UnboundedQuerysetInDataMigration, ForwardNames
  <2>5. QED
    BY <2>4, FS_Singleton
<1>2. QED
  BY <1>1, InvMeansLocksHeldAreReported, InvMeansRollbacksAreReported DEF DataPassesAreJudged

-----------------------------------------------------------------------------
(* The release in production (DJM-004, DJM-005).                             *)

\* The tables an operation meets, and those there are after the last.
Met(k) == IF k \in Written THEN steps[k].met ELSE tables
Moments == 1..(Len(steps) + 1)

Declares(d, fields) == \A m \in Model, c \in Column : d[m].fields[c] \in fields \cup {NoDeclared}

\* Each operation meets the tables the one before it left, no two names collide in
\* them, they hold fields of the style only, and the first are those in service.
LeafChain ==
  /\ \A k \in Written : Met(k + 1) = Changed(Met(k), steps[k].op)
  /\ \A k \in Moments : NoCollision(Met(k)) /\ Declares(Met(k), style.fields \cup style.starts)
  /\ \A m \in Model : Met(1)[m].exists => Met(1)[m].born = "before" /\ Met(1)[m].table = m

LEMMA MomentsAre ==
    ASSUME LeafInv
    PROVE  /\ Len(steps) \in Nat /\ Written = 1..Len(steps) /\ Moments \subseteq Nat
           /\ \A k \in Written : k \in Moments /\ k + 1 \in Moments
           /\ \A k \in Moments : Met(k) \in Database /\ (k \in Written \/ k = Len(steps) + 1)
<1>1. Len(steps) \in Nat /\ Written = 1..Len(steps)
  BY DEF LeafInv, LeafTypeOK, Written
<1>2. ASSUME NEW k \in Moments
      PROVE  Met(k) \in Database
  BY StepIsWritten DEF Met, LeafInv, LeafTypeOK
<1>3. QED
  BY <1>1, <1>2 DEF Moments

\* The columns of any table after an operation were there, or are what it declares.
LEMMA FieldsComeFrom ==
    ASSUME NEW d \in Database, NEW op \in Operations, Applies(op, d), NEW S, Declares(d, S),
           op.name \in {"AddField", "AlterField"} => op.field \in S
    PROVE  Declares(Changed(d, op), S)
<1>1. \A m \in Model : d[m] \in LeafTable /\ d[m].fields \in [Column -> Limited \cup {NoDeclared}]
  BY DEF Database, LeafTable
<1>2. d \in [Model -> LeafTable] /\ DOMAIN d = Model
  BY DEF Database
<1>3. SUFFICES ASSUME NEW m \in Model, NEW c \in Column
               PROVE  Changed(d, op)[m].fields[c] \in S \cup {NoDeclared}
  BY DEF Declares
<1>4. NoFieldsYet[c] = NoDeclared /\ Absent.fields[c] = NoDeclared
  BY DEF NoFieldsYet, Absent
<1>5. CASE op.name = "CreateModel"
  BY <1>2, <1>4, <1>5 DEF Changed, Declares
<1>6. CASE op.name = "DeleteModel"
  BY <1>2, <1>4, <1>6 DEF Changed, Declares
<1>7. CASE op.name = "RenameModel"
  <2>1. op.model \in Model /\ op.to \in Model /\ TableOf(d, op.model) = d[op.model]
    BY <1>7 DEF Applies, OnATable, TableOf
  <2> DEFINE u == [d[op.model] EXCEPT !.table = IF d[op.model].table = op.model THEN op.to ELSE @]
  <2>2. u.fields = d[op.model].fields
    BY <1>1, <2>1 DEF LeafTable
  <2>3. Changed(d, op) = [d EXCEPT ![op.to] = u, ![op.model] = Absent]
    BY <1>7, <2>1 DEF Changed
  <2> HIDE DEF u
  <2>4. QED
    BY <1>2, <1>4, <2>1, <2>2, <2>3 DEF Declares
<1>8. CASE op.name = "AlterModelTable"
  BY <1>1, <1>2, <1>8 DEF Changed, Declares, LeafTable
<1>9. CASE op.name \in OnAColumn
  <2>1. op.model \in Model /\ TableOf(d, op.model) = d[op.model] /\ op.column \in Column
    BY <1>9 DEF Applies, OnATable, OnAColumn, TableOf
  <2> DEFINE fields == FieldsAfter(op, d[op.model].fields)
  <2>2. Changed(d, op) = [d EXCEPT ![op.model].fields = fields]
    BY <1>9, <2>1, ColumnsChanged
  <2>3. fields[c] \in S \cup {NoDeclared}
    <3>1. CASE op.name = "RemoveField"
      BY <1>1, <2>1, <3>1 DEF FieldsAfter, Declares
    <3>2. CASE op.name = "RenameField"
      BY <1>1, <2>1, <3>2 DEF FieldsAfter, Declares, Moved, Applies
    <3>3. CASE op.name \in {"AddField", "AlterField"}
      BY <1>1, <2>1, <3>3 DEF FieldsAfter, Declares
    <3>4. QED
      BY <1>9, <3>1, <3>2, <3>3 DEF OnAColumn
  <2> HIDE DEF fields
  <2>4. Changed(d, op)[m].fields[c] = IF m = op.model THEN fields[c] ELSE d[m].fields[c]
    BY <1>1, <1>2, <2>1, <2>2 DEF LeafTable
  <2>5. QED
    BY <2>3, <2>4 DEF Declares
<1>10. CASE op.name \notin {"CreateModel", "DeleteModel", "RenameModel", "AlterModelTable"} \cup OnAColumn
  BY <1>10 DEF Changed, Declares, OnAColumn
<1>11. QED
  BY <1>5, <1>6, <1>7, <1>8, <1>9, <1>10

LEMMA ChainBegins == LeafInit => LeafChain
<1> SUFFICES ASSUME LeafInit
             PROVE  LeafChain
  OBVIOUS
<1>1. PICK served \in style.served, start \in style.starts, c \in Column :
        tables = [m \in Model |->
          IF m \in served
          THEN [exists |-> TRUE, table |-> m, born |-> "before", fields |-> [NoFieldsYet EXCEPT ![c] = start]]
          ELSE Absent]
  BY DEF LeafInit
<1>2. steps = <<>> /\ Written = {} /\ Moments = {1}
  BY DEF LeafInit, Written, Moments
<1>3. Met(1) = tables
  BY <1>2 DEF Met
<1>4. ~Absent.exists /\ Absent.fields = NoFieldsYet /\ \A e \in Column : NoFieldsYet[e] = NoDeclared
  BY DEF Absent, NoFieldsYet
<1>5. ASSUME NEW m \in Model
      PROVE  /\ tables[m].exists => tables[m].born = "before" /\ tables[m].table = m
             /\ \A e \in Column : tables[m].fields[e] = NoDeclared \/ (e = c /\ tables[m].fields[e] = start)
  <2>1. CASE m \in served
    BY <1>1, <1>4, <2>1 DEF NoFieldsYet
  <2>2. CASE m \notin served
    BY <1>1, <1>4, <2>2
  <2>3. QED
    BY <2>1, <2>2
<1>6. NoCollision(tables)
  BY <1>5 DEF NoCollision, Concrete
<1>7. Declares(tables, style.fields \cup style.starts)
  BY <1>5 DEF Declares
<1>8. QED
  BY <1>2, <1>3, <1>5, <1>6, <1>7 DEF LeafChain

\* Whether an operation is in a wrapper makes no difference to the tables.
LEMMA WrappersChangeTheSame ==
    ASSUME NEW d, NEW op \in Operations, NEW separate \in BOOLEAN
    PROVE  Changed(d, [op EXCEPT !.separate = separate]) = Changed(d, op)
<1> DEFINE said == [op EXCEPT !.separate = separate]
<1>1. /\ said.name = op.name /\ said.model = op.model /\ said.column = op.column /\ said.to = op.to
      /\ said.field = op.field
  BY DEF Operations
<1> HIDE DEF said
<1>2. Changed(d, said) = Changed(d, op)
  BY <1>1 DEF Changed
<1>3. QED
  BY <1>2 DEF said

LEMMA ChainKeeps == LeafInv /\ LeafChain /\ [LeafNext]_leafVars => LeafChain'
<1> SUFFICES ASSUME LeafInv, LeafChain, [LeafNext]_leafVars
             PROVE  LeafChain'
  OBVIOUS
<1>1. CASE UNCHANGED leafVars
  BY <1>1 DEF leafVars, LeafChain, Met, Moments, Written
<1>2. CASE LeafNext
  <2>1. PICK op \in Operations : Applies(op, tables) /\ Write(op)
    BY <1>2, LeafWrites DEF Writes
  <2>2. PICK separate \in BOOLEAN : steps' = Append(steps, [op |-> [op EXCEPT !.separate = separate], met |-> tables])
    BY <2>1 DEF Write
  <2> DEFINE said == [op EXCEPT !.separate = separate]
             step == [op |-> said, met |-> tables]
  <2>3. PICK last \in Nat : last = Len(steps) + 1
    BY DEF LeafInv, LeafTypeOK
  <2>4. style' = style /\ tables' = Changed(tables, said) /\ NoCollision(tables')
    BY <2>1, WrappersChangeTheSame DEF Write
  <2>5. /\ Len(steps) \in Nat /\ Written = 1..Len(steps) /\ Len(steps') = last
        /\ \A k \in Written : steps'[k] = steps[k]
        /\ steps'[last] = step /\ Written' = 1..last /\ Moments' = 1..(last + 1)
    BY <2>2, <2>3 DEF LeafInv, LeafTypeOK, Written, Moments
  <2>6. /\ \A k \in 1..last : Met(k)' = Met(k)
        /\ Met(last) = tables /\ Met(last + 1)' = tables' /\ steps'[last].op = said
    BY <2>3, <2>5 DEF Met
  <2>7. /\ Met(last)' = Met(last) /\ last \in 1..last
         /\ Met(last + 1)' = Changed(Met(last), steps'[last].op)
    BY <2>3, <2>4, <2>5, <2>6
  <2> HIDE DEF said, step
  <2>8. ASSUME NEW k \in Written'
        PROVE  Met(k + 1)' = Changed(Met(k), steps'[k].op) /\ Met(k)' = Met(k)
    <3>1. CASE k = last
      BY <2>7, <3>1
    <3>2. CASE k # last
      <4>1. k \in Written /\ k + 1 \in 1..last /\ k \in 1..last
        BY <2>3, <2>5, <2>8, <3>2
      <4>2. QED
        BY <2>3, <2>5, <2>6, <4>1 DEF LeafChain
    <3>3. QED
      BY <3>1, <3>2
  <2>9. Declares(tables', style.fields \cup style.starts)
    <3>1. Declares(tables, style.fields \cup style.starts)
      <4>1. last \in Moments
        BY <2>3, <2>5 DEF Moments
      <4>2. Declares(Met(last), style.fields \cup style.starts)
        BY <4>1 DEF LeafChain
      <4>3. QED
        BY <2>6, <4>2
    <3>2. tables \in Database /\ tables' = Changed(tables, op)
      BY <2>1 DEF LeafInv, LeafTypeOK, Write
    <3>3. op.name \in {"AddField", "AlterField"} => op.field \in style.fields \cup style.starts
      BY <2>1 DEF Applies
    <3>4. QED
      BY <2>1, <3>1, <3>2, <3>3, FieldsComeFrom
  <2>10. ASSUME NEW k \in Moments'
        PROVE  NoCollision(Met(k)') /\ Declares(Met(k)', style.fields \cup style.starts)
    <3>1. CASE k = last + 1
      BY <2>4, <2>6, <2>9, <3>1
    <3>2. CASE k # last + 1
      <4>1. k \in 1..last /\ k \in Moments
        BY <2>3, <2>5, <2>10, <3>2 DEF Moments
      <4>2. NoCollision(Met(k)) /\ Declares(Met(k), style.fields \cup style.starts)
        BY <4>1 DEF LeafChain
      <4>3. QED
        BY <2>6, <4>1, <4>2
    <3>3. QED
      BY <3>1, <3>2
  <2>11. Met(1)' = Met(1)
    BY <2>3, <2>5, <2>6
  <2>12. QED
    BY <2>4, <2>8, <2>10, <2>11 DEF LeafChain
<1>3. QED
  BY <1>1, <1>2

\* A set of moments that holds a moment, and with each the next, holds all that follow.
LEMMA MomentsFollow ==
    ASSUME LeafInv, NEW a \in Moments, NEW S, a \in S, \A k \in Written : k >= a /\ k \in S => k + 1 \in S
    PROVE  \A k \in Moments : k >= a => k \in S
<1> DEFINE missed == {k \in Moments : k >= a /\ k \notin S}
<1>1. SUFFICES ASSUME missed # {}
               PROVE  FALSE
  OBVIOUS
<1>2. missed \in SUBSET Nat
  BY MomentsAre
<1> HIDE DEF missed
<1>3. PICK k \in missed : \A j \in missed : k <= j
  BY <1>1, <1>2, LeastExists
<1> USE DEF missed
<1>4. k \in Moments /\ k > a /\ k - 1 \in Written /\ k - 1 >= a
  BY <1>3, MomentsAre DEF Moments
<1>5. k - 1 \in Moments /\ k - 1 \notin missed
  BY <1>3, <1>4, MomentsAre
<1>6. QED
  BY <1>3, <1>4, <1>5, MomentsAre

\* The last moment of a set of them.
LEMMA LastMoment ==
    ASSUME LeafInv, NEW S \in SUBSET Moments, S # {}
    PROVE  \E m \in S : \A k \in S : k <= m
<1> DEFINE top == Len(steps) + 1
           T == {top - k : k \in S}
<1>1. top \in Nat /\ \A k \in S : k \in Nat /\ k <= top /\ top - k \in Nat
  BY MomentsAre DEF Moments
<1> HIDE DEF top
<1>2. T \in SUBSET Nat /\ T # {}
  BY <1>1
<1>3. PICK t \in T : \A k \in T : t <= k
  <2> HIDE DEF T
  <2>1. QED
    BY <1>2, LeastExists
<1>4. PICK m \in S : t = top - m
  OBVIOUS
<1>5. ASSUME NEW k \in S
      PROVE  k <= m
  <2>1. top - m <= top - k
    BY <1>3, <1>4
  <2>2. QED
    BY <1>1, <2>1
<1>6. QED
  BY <1>5

\* An operation changes the table of its model, and of the one it is renamed to.
Touches(k, m) == steps[k].op.model = m \/ (steps[k].op.name = "RenameModel" /\ steps[k].op.to = m)

LEMMA OthersStay ==
    ASSUME NEW d \in Database, NEW op \in Operations, Applies(op, d), NEW m \in Model, m # op.model,
           op.name = "RenameModel" => m # op.to
    PROVE  Changed(d, op)[m] = d[m]
<1>1. DOMAIN d = Model
  BY DEF Database
<1>2. CASE op.name \in OnAColumn
  <2> DEFINE fields == FieldsAfter(op, TableOf(d, op.model).fields)
  <2>1. Changed(d, op) = [d EXCEPT ![op.model].fields = fields]
    BY <1>2, ColumnsChanged
  <2> HIDE DEF fields
  <2>2. QED
    BY <1>1, <2>1
<1>3. CASE op.name \notin OnAColumn
  BY <1>1, <1>3 DEF Changed, OnAColumn
<1>4. QED
  BY <1>2, <1>3

\* What Changed makes of the tables each operation meets.
LEMMA NextMoment ==
    ASSUME LeafInv, LeafChain, NEW k \in Written
    PROVE  /\ steps[k].op \in Operations /\ Met(k) \in Database /\ Met(k) = steps[k].met
           /\ Applies(steps[k].op, Met(k))
           /\ Met(k + 1) = Changed(Met(k), steps[k].op)
           /\ \A m \in Model : ~Touches(k, m) => Met(k + 1)[m] = Met(k)[m]
<1>1. Met(k) = steps[k].met
  BY DEF Met
<1>2. /\ steps[k].op \in Operations /\ Met(k) \in Database /\ Applies(steps[k].op, Met(k))
      /\ Met(k + 1) = Changed(Met(k), steps[k].op)
  BY <1>1, StepIsWritten DEF LeafChain
<1>3. QED
  BY <1>1, <1>2, OthersStay DEF Touches

\* A table is as it was until an operation touches it.
LEMMA UntouchedStays ==
    ASSUME LeafInv, LeafChain, NEW m \in Model, NEW a \in Moments, NEW b \in Moments, a <= b,
           \A k \in Written : k >= a /\ k < b => ~Touches(k, m)
    PROVE  Met(b)[m] = Met(a)[m]
<1> DEFINE S == {k \in Moments : k <= b => Met(k)[m] = Met(a)[m]}
<1>1. a \in S
  OBVIOUS
<1>2. ASSUME NEW k \in Written, k >= a, k \in S
      PROVE  k + 1 \in S
  <2>1. k + 1 \in Moments /\ k \in Nat /\ b \in Nat
    BY MomentsAre
  <2>2. CASE k + 1 <= b
    BY <1>2, <2>1, <2>2, NextMoment
  <2>3. QED
    BY <2>1, <2>2
<1>3. \A k \in Moments : k >= a => k \in S
  <2> HIDE DEF S
  <2>1. QED
    BY <1>1, <1>2, MomentsFollow
<1>4. QED
  BY <1>3, MomentsAre

\* What an operation on the columns of a table makes of it.
LEMMA ColumnsAfter ==
    ASSUME LeafInv, LeafChain, NEW k \in Written, steps[k].op.name \in OnAColumn
    PROVE  LET m == steps[k].op.model IN
           /\ m \in Model /\ Met(k)[m] \in LeafTable /\ Met(k)[m].exists
           /\ Met(k + 1)[m] = [Met(k)[m] EXCEPT !.fields = FieldsAfter(steps[k].op, Met(k)[m].fields)]
           /\ Met(k + 1)[m] \in LeafTable
<1> DEFINE m == steps[k].op.model
<1>1. m \in Model /\ Met(k)[m].exists /\ TableOf(Met(k), m) = Met(k)[m]
  BY NextMoment DEF Applies, OnATable, OnAColumn, TableOf
<1>2. Met(k) \in [Model -> LeafTable]
  BY NextMoment, Zenon DEF Database
<1>3. Met(k + 1) = [Met(k) EXCEPT ![m].fields = FieldsAfter(steps[k].op, Met(k)[m].fields)]
  BY <1>1, NextMoment, ColumnsChanged
<1>4. Met(k)[m] \in LeafTable
  BY <1>1, <1>2, Zenon
<1>5. Met(k + 1)[m] = [Met(k)[m] EXCEPT !.fields = FieldsAfter(steps[k].op, Met(k)[m].fields)]
  BY <1>1, <1>2, <1>3, Zenon
<1>6. Met(k + 1) \in Database
  BY MomentsAre
<1>7. QED
  BY <1>1, <1>4, <1>5, <1>6, Zenon DEF Database

\* The columns after it, one by one.
LEMMA ColumnAfter ==
    ASSUME LeafInv, LeafChain, NEW k \in Written, steps[k].op.name \in OnAColumn, NEW c \in Column
    PROVE  LET op == steps[k].op
               before == Met(k)[op.model].fields
               after == Met(k + 1)[op.model].fields IN
           /\ op.name \in {"AddField", "AlterField"} => after[c] = IF c = op.column THEN op.field ELSE before[c]
           /\ op.name = "RemoveField" => after[c] = IF c = op.column THEN NoDeclared ELSE before[c]
           /\ op.name = "RenameField" =>
                after[c] = IF c = op.to THEN before[op.column]
                           ELSE IF c = op.column THEN NoDeclared ELSE before[c]
<1> DEFINE op == steps[k].op
           before == Met(k)[op.model].fields
           after == Met(k + 1)[op.model].fields
<1>1. after = FieldsAfter(op, before) /\ before \in [Column -> Limited \cup {NoDeclared}]
  BY ColumnsAfter, ZenonT(30) DEF LeafTable
<1>2. op.column \in Column /\ (op.name = "RenameField" => op.to \in Column /\ op.to # op.column)
  BY NextMoment DEF Applies, OnAColumn
<1>3. CASE op.name \in {"AddField", "AlterField"}
  BY <1>1, <1>2, <1>3, Zenon DEF FieldsAfter
<1>4. CASE op.name = "RemoveField"
  BY <1>1, <1>2, <1>4, Zenon DEF FieldsAfter
<1>5. CASE op.name = "RenameField"
  BY <1>1, <1>2, <1>5 DEF FieldsAfter, Moved
<1>6. QED
  BY <1>3, <1>4, <1>5, Zenon

\* The names of a table: its own, its columns', and those of the tables it joins through.
LEMMA NamesAre ==
    ASSUME NEW t, NEW n
    PROVE  n \in NamesOf(t) <=>
             /\ t.exists
             /\ \/ n = <<t.table>>
                \/ \E c \in Concrete(t) : n = <<t.table, Column_of(c, t.fields[c])>>
                \/ \E c \in Joining(t) : n = <<t.table, "joins", c>>
BY DEF NamesOf

\* What Django names the column of a field.
LEMMA ColumnsOf ==
    ASSUME NEW name, NEW field
    PROVE  /\ field.pin # NoName => Column_of(name, field) = <<field.pin>>
           /\ field.pin = NoName /\ IsRelation(field) => Column_of(name, field) = <<name, "_id">>
           /\ field.pin = NoName /\ ~IsRelation(field) => Column_of(name, field) = <<name>>
BY DEF Column_of

LEMMA NothingIsNoTable == NoDeclared.kind \notin TABLE_VALUED_FIELDS
  BY DEF NoDeclared, Plain, TABLE_VALUED_FIELDS

\* The operations that may keep an old name can be counted.
LEMMA PinsAreCounted ==
    ASSUME LeafInv, NEW i \in Written
    PROVE  IsFiniteSet(Pins(i)) /\ Cardinality(Pins(i)) \in Nat
<1>1. Pins(i) \subseteq 1..Len(steps) /\ Len(steps) \in Nat
  BY MomentsAre DEF Pins, Repinning, Retabling
<1>2. IsFiniteSet(1..Len(steps))
  BY <1>1, FS_Interval
<1>3. QED
  BY <1>1, <1>2, FS_Subset, FS_CardinalityType, Zenon

\* Unless there are two of them, there is one at most.
LEMMA OnePin ==
    ASSUME LeafInv, NEW i \in Written, Cardinality(Pins(i)) <= 1, NEW a \in Pins(i), NEW b \in Pins(i)
    PROVE  a = b
<1>1. SUFFICES ASSUME a # b
               PROVE  FALSE
  OBVIOUS
<1>2. IsFiniteSet({a}) /\ Cardinality({a}) = 1
  BY FS_Singleton
<1>3. b \notin {a} /\ {a} \cup {b} \subseteq Pins(i)
  BY <1>1
<1>4. Cardinality({a} \cup {b}) = Cardinality({a}) + 1
  BY <1>2, <1>3, FS_AddElement
<1>5. Cardinality({a} \cup {b}) <= Cardinality(Pins(i))
  BY <1>3, PinsAreCounted, FS_Subset
<1>6. QED
  BY <1>2, <1>4, <1>5, PinsAreCounted

\* A leaf of which nothing is reported, whose declarations were seen, and that neither
\* says itself that it moves a name nor is overlooked.
Unremarked == BreakReports = {} /\ \A i \in Written : Seen(i) /\ ~SaidOrOverlooked(i)

LEMMA NothingIsSaid ==
    ASSUME LeafInv, Unremarked, NEW i \in Written
    PROVE  /\ ~Separate(i) /\ steps[i].op.name \notin {"DeleteModel", "AlterModelTable"}
           /\ steps[i].op.name = "AlterField" => Rename \notin Statements(i)
           /\ ~RemoveFieldBreaksRollingDeploy(i) /\ ~RenameBreaksRollingDeploy(i)
           /\ steps[i].op.name = "RenameField" =>
                PinIsRead(Existing_field(i)) /\ \A j \in Pins(i) : PinIsRead(steps[j].op.field)
           /\ \A a, b \in Pins(i) : a = b
<1>1. /\ ~Separate(i) /\ steps[i].op.name \notin {"DeleteModel", "AlterModelTable"}
      /\ steps[i].op.name = "AlterField" => Rename \notin Statements(i)
      /\ ~RemoveFieldBreaksRollingDeploy(i) /\ ~RenameBreaksRollingDeploy(i)
      /\ steps[i].op.name = "RenameField" =>
           PinIsRead(Existing_field(i)) /\ \A j \in Pins(i) : PinIsRead(steps[j].op.field)
      /\ ~(Cardinality(Pins(i)) > 1)
  BY DEF Unremarked, BreakReports, SaidOrOverlooked
<1>2. Cardinality(Pins(i)) <= 1
  BY <1>1, PinsAreCounted
<1>3. QED
  BY <1>1, <1>2, OnePin

\* Such a leaf leaves every table of the release under its name.
LEMMA ServedIsTouched ==
    ASSUME LeafInv, LeafChain, Unremarked, NEW k \in Written, NEW m \in Model,
           Met(k)[m].exists, Met(k)[m].born = "before"
    PROVE  Met(k + 1)[m] = Met(k)[m] \/ (steps[k].op.name \in OnAColumn /\ steps[k].op.model = m)
<1> DEFINE op == steps[k].op
<1>1. /\ op \in Operations /\ Applies(op, Met(k)) /\ Met(k + 1) = Changed(Met(k), op) /\ Met(k) = steps[k].met
      /\ ~Touches(k, m) => Met(k + 1)[m] = Met(k)[m]
  BY NextMoment
<1>2. CASE ~Touches(k, m)
  BY <1>1, <1>2
<1>3. CASE op.name = "RenameModel"
  <2>1. op.model \in Model /\ op.to \in Model /\ Met(k)[op.model].exists /\ ~Met(k)[op.to].exists
    BY <1>1, <1>3, Zenon DEF Applies, OnATable
  <2>2. CASE op.model = m
    <3>1. PopulatedTable(k)
      BY <1>1, <2>2 DEF PopulatedTable, TableOf
    <3>2. Retabling({op.model, op.to}) = {}
      BY NothingIsSaid DEF Retabling
    <3>3. ModelMoves(k)
      BY <2>1, <3>2 DEF ModelMoves
    <3>4. QED
      BY <1>3, <3>1, <3>3, NothingIsSaid DEF RenameBreaksRollingDeploy
  <2>3. CASE op.model # m
    BY <1>2, <2>1, <2>3 DEF Touches
  <2>4. QED
    BY <2>2, <2>3
<1>4. CASE op.name # "RenameModel" /\ op.model = m
  <2>1. op.name # "CreateModel"
    BY <1>1, <1>4 DEF Applies
  <2>2. op.name \notin {"DeleteModel", "AlterModelTable"}
    BY NothingIsSaid, Zenon
  <2>3. CASE op.name \notin OnAColumn
    BY <1>1, <1>4, <2>1, <2>2, <2>3 DEF Changed, OnAColumn
  <2>4. QED
    BY <1>4, <2>3, Zenon
<1>5. QED
  BY <1>2, <1>3, <1>4 DEF Touches

LEMMA ServedStay ==
    ASSUME LeafInv, LeafChain, Unremarked, NEW m \in Model, Met(1)[m].exists
    PROVE  \A k \in Moments : /\ Met(k)[m] \in LeafTable /\ Met(k)[m].exists
                              /\ Met(k)[m].born = "before" /\ Met(k)[m].table = m
<1> DEFINE S == {k \in Moments : Met(k)[m].exists /\ Met(k)[m].born = "before" /\ Met(k)[m].table = m}
<1>1. 1 \in Moments /\ 1 \in S
  BY MomentsAre DEF Moments, LeafChain
<1>2. ASSUME NEW k \in Written, k \in S
      PROVE  k + 1 \in S
  <2>1. k + 1 \in Moments
    BY MomentsAre
  <2>2. Met(k + 1)[m] = Met(k)[m] \/ (steps[k].op.name \in OnAColumn /\ steps[k].op.model = m)
    BY <1>2, ServedIsTouched
  <2>3. CASE steps[k].op.name \in OnAColumn /\ steps[k].op.model = m
    <3>1. /\ Met(k)[m] \in LeafTable
          /\ Met(k + 1)[m] = [Met(k)[m] EXCEPT !.fields = FieldsAfter(steps[k].op, Met(k)[m].fields)]
      BY <2>3, ColumnsAfter
    <3>2. QED
      BY <1>2, <2>1, <3>1 DEF LeafTable
  <2>4. QED
    BY <1>2, <2>1, <2>2, <2>3
<1>3. \A k \in Moments : k >= 1 => k \in S
  <2> HIDE DEF S
  <2>1. QED
    BY <1>1, <1>2, MomentsFollow
<1>4. \A k \in Moments : k >= 1 /\ Met(k) \in Database
  BY MomentsAre DEF Moments
<1>5. QED
  BY <1>3, <1>4 DEF Database

\* The first moment and the last.
LEMMA MomentsEnd ==
    ASSUME LeafInv
    PROVE  /\ 1 \in Moments /\ Len(steps) + 1 \in Moments /\ Met(Len(steps) + 1) = tables
           /\ \A k \in Moments : 1 <= k /\ k <= Len(steps) + 1
           /\ \A k \in Written : 1 <= k /\ k + 1 <= Len(steps) + 1
BY MomentsAre DEF Moments, Met

\* The release in production runs on what the first operation meets.
LEMMA RunningIsTheFirst ==
    ASSUME LeafInv
    PROVE  Running = Names(Met(1))
<1>1. CASE steps = <<>>
  BY <1>1, MomentsAre DEF Running, Met
<1>2. CASE steps # <<>>
  <2>1. 1 \in Written
    BY <1>2, MomentsAre DEF LeafInv, LeafTypeOK
  <2>2. QED
    BY <1>2, <2>1 DEF Running, Met
<1>3. QED
  BY <1>1, <1>2

\* Where a field's data is: in a column of its table, or in a table that joins.
Place(m, c, field) ==
  IF field.kind \in TABLE_VALUED_FIELDS THEN <<m, "joins", c>> ELSE <<m, Column_of(c, field)>>

LEMMA NamesArePlaces ==
    ASSUME NEW t, NEW n
    PROVE  n \in NamesOf(t) <=>
             /\ t.exists
             /\ \/ n = <<t.table>>
                \/ \E c \in Column : t.fields[c] # NoDeclared /\ n = Place(t.table, c, t.fields[c])
<1>1. \A c \in Column : c \in Concrete(t) <=> t.fields[c] # NoDeclared /\ t.fields[c].kind \notin TABLE_VALUED_FIELDS
  BY DEF Concrete
<1>2. \A c \in Column : c \in Joining(t) <=> t.fields[c] # NoDeclared /\ t.fields[c].kind \in TABLE_VALUED_FIELDS
  BY NothingIsNoTable DEF Joining
<1>3. Concrete(t) \subseteq Column /\ Joining(t) \subseteq Column
  BY DEF Concrete, Joining
<1>4. QED
  BY <1>1, <1>2, <1>3, NamesAre DEF Place

\* A field with a table of its own is a relation, of no db_column.
LEMMA FieldsMeetTheStyle ==
    ASSUME LeafInv, LeafChain, JoinsHaveNoColumn, NEW k \in Moments, NEW m \in Model, NEW c \in Column,
           Met(k)[m].fields[c].kind \in TABLE_VALUED_FIELDS
    PROVE  Column_of(c, Met(k)[m].fields[c]) = <<c, "_id">>
<1> DEFINE f == Met(k)[m].fields[c]
<1>1. f \in style.fields \cup style.starts
  BY NothingIsNoTable DEF LeafChain, Declares
<1>2. style \in Styles
  BY DEF LeafInv, LeafTypeOK
<1>3. f.kind = "ManyToManyField" /\ f.pin = NoName
  BY <1>1, <1>2, Zenon DEF JoinsHaveNoColumn
<1>4. QED
  BY <1>3, ColumnsOf DEF IsRelation

\* The operations on the columns of a table.
Adds(k, m, c, g) ==
  k \in Written /\ steps[k].op.name = "AddField" /\ steps[k].op.model = m /\ steps[k].op.column = c /\ steps[k].op.field = g
Removes(k, m, c) ==
  k \in Written /\ steps[k].op.name = "RemoveField" /\ steps[k].op.model = m /\ steps[k].op.column = c
Alters(k, m, c, g) ==
  k \in Written /\ steps[k].op.name = "AlterField" /\ steps[k].op.model = m /\ steps[k].op.column = c /\ steps[k].op.field = g
Renames(k, m, c, new) ==
  k \in Written /\ steps[k].op.name = "RenameField" /\ steps[k].op.model = m /\ steps[k].op.column = c /\ steps[k].op.to = new

\* The table of a model, but for its columns, is there before and after.
Stands(k, m) ==
  /\ m \in Model /\ k \in Moments /\ k + 1 \in Moments
  /\ Met(k)[m].exists /\ Met(k + 1)[m].exists /\ Met(k + 1)[m].table = Met(k)[m].table

LEMMA TablesStand ==
    ASSUME LeafInv, LeafChain, NEW k \in Written, steps[k].op.name \in OnAColumn
    PROVE  Stands(k, steps[k].op.model)
<1>1. /\ steps[k].op.model \in Model /\ Met(k)[steps[k].op.model] \in LeafTable /\ Met(k)[steps[k].op.model].exists
      /\ Met(k + 1)[steps[k].op.model] =
           [Met(k)[steps[k].op.model] EXCEPT !.fields = FieldsAfter(steps[k].op, Met(k)[steps[k].op.model].fields)]
  BY ColumnsAfter
<1>2. k \in Moments /\ k + 1 \in Moments
  BY MomentsAre
<1>3. QED
  BY <1>1, <1>2, Zenon DEF LeafTable, Stands

LEMMA EachIsOne ==
    ASSUME NEW k \in Written, NEW m, steps[k].op.name \in OnAColumn, steps[k].op.model = m
    PROVE  LET op == steps[k].op IN
           Adds(k, m, op.column, op.field) \/ Removes(k, m, op.column)
             \/ Alters(k, m, op.column, op.field) \/ Renames(k, m, op.column, op.to)
BY DEF OnAColumn, Adds, Removes, Alters, Renames

LEMMA AddActs ==
    ASSUME LeafInv, LeafChain, NEW k, NEW m, NEW c, NEW g, Adds(k, m, c, g)
    PROVE  /\ Stands(k, m) /\ c \in Column /\ Met(k)[m].fields[c] = NoDeclared
           /\ \A e \in Column : e # c => Met(k + 1)[m].fields[e] = Met(k)[m].fields[e]
<1>1. k \in Written /\ steps[k].op.name \in OnAColumn /\ steps[k].op.model = m /\ steps[k].op.column = c
  BY Zenon DEF Adds, OnAColumn
<1>2. c \in Column /\ Met(k)[m].fields[c] = NoDeclared
  BY <1>1, NextMoment DEF Applies, Adds
<1>3. \A e \in Column : e # c => Met(k + 1)[m].fields[e] = Met(k)[m].fields[e]
  BY <1>1, ColumnAfter DEF Adds
<1>4. QED
  BY <1>1, <1>2, <1>3, TablesStand

LEMMA RemoveActs ==
    ASSUME LeafInv, LeafChain, NEW k, NEW m, NEW c, Removes(k, m, c)
    PROVE  /\ Stands(k, m) /\ c \in Column /\ Met(k)[m].fields[c] # NoDeclared
           /\ Met(k + 1)[m].fields[c] = NoDeclared
           /\ \A e \in Column : e # c => Met(k + 1)[m].fields[e] = Met(k)[m].fields[e]
<1>1. k \in Written /\ steps[k].op.name \in OnAColumn /\ steps[k].op.model = m /\ steps[k].op.column = c
  BY DEF Removes, OnAColumn
<1>2. c \in Column /\ Met(k)[m].fields[c] # NoDeclared
  BY <1>1, NextMoment, Zenon DEF Applies, Removes
<1>3. /\ Met(k + 1)[m].fields[c] = NoDeclared
      /\ \A e \in Column : e # c => Met(k + 1)[m].fields[e] = Met(k)[m].fields[e]
  BY <1>1, <1>2, ColumnAfter DEF Removes
<1>4. QED
  BY <1>1, <1>2, <1>3, TablesStand

\* A field altered without a RENAME has the column it had.
LEMMA AlterActs ==
    ASSUME LeafInv, LeafChain, NEW k, NEW m, NEW c, NEW g, Alters(k, m, c, g)
    PROVE  /\ Stands(k, m) /\ c \in Column /\ Met(k)[m].fields[c] # NoDeclared
           /\ g \in style.fields /\ g # NoDeclared
           /\ Met(k)[m].fields[c].kind \in TABLE_VALUED_FIELDS <=> g.kind \in TABLE_VALUED_FIELDS
           /\ Met(k + 1)[m].fields[c] = g
           /\ \A e \in Column : e # c => Met(k + 1)[m].fields[e] = Met(k)[m].fields[e]
           /\ Rename \notin Statements(k) => Column_of(c, Met(k)[m].fields[c]) = Column_of(c, g)
<1>1. /\ k \in Written /\ steps[k].op.name \in OnAColumn /\ steps[k].op.model = m /\ steps[k].op.column = c
      /\ steps[k].op.field = g /\ steps[k].op.name = "AlterField"
  BY DEF Alters, OnAColumn
<1>2. Applies(steps[k].op, Met(k)) /\ Met(k) = steps[k].met
  BY <1>1, NextMoment
<1>3. /\ m \in Model /\ c \in Column /\ Met(k)[m].fields[c] # NoDeclared /\ g \in Limited \cap style.fields
      /\ (Met(k)[m].fields[c].kind \in TABLE_VALUED_FIELDS <=> g.kind \in TABLE_VALUED_FIELDS)
  BY <1>1, <1>2, Zenon DEF Applies, OnATable
<1>4. /\ Met(k + 1)[m].fields[c] = g
      /\ \A e \in Column : e # c => Met(k + 1)[m].fields[e] = Met(k)[m].fields[e]
  BY <1>1, <1>3, ColumnAfter
<1>5. Rename \notin Statements(k) => Column_of(c, Met(k)[m].fields[c]) = Column_of(c, g)
  <2>1. FieldOf(TableOf(steps[k].met, m), c) = Met(k)[m].fields[c]
    BY <1>2, <1>3 DEF FieldOf, TableOf
  <2>2. Statements(k) = SaidBy(steps[k].op, steps[k].met)
    BY DEF Statements, SaidBy
  <2>3. QED
    BY <1>1, <2>1, <2>2, AlterFieldSays DEF Altering
<1>6. g # NoDeclared
  BY <1>3, NothingIsLimited DEF Limited
<1>7. Stands(k, m)
  BY <1>1, TablesStand
<1>8. QED
  BY <1>3, <1>4, <1>5, <1>6, <1>7

LEMMA RenameActs ==
    ASSUME LeafInv, LeafChain, NEW k, NEW m, NEW c, NEW new, Renames(k, m, c, new)
    PROVE  /\ Stands(k, m) /\ c \in Column /\ new \in Column /\ new # c
           /\ Met(k)[m].fields[c] # NoDeclared /\ Met(k)[m].fields[new] = NoDeclared
           /\ Met(k + 1)[m].fields[new] = Met(k)[m].fields[c] /\ Met(k + 1)[m].fields[c] = NoDeclared
           /\ \A e \in Column : e # c /\ e # new => Met(k + 1)[m].fields[e] = Met(k)[m].fields[e]
<1>1. /\ k \in Written /\ steps[k].op.name \in OnAColumn /\ steps[k].op.model = m /\ steps[k].op.column = c
      /\ steps[k].op.to = new /\ steps[k].op.name = "RenameField"
  BY DEF Renames, OnAColumn
<1>2. Applies(steps[k].op, Met(k))
  BY <1>1, NextMoment
<1>3. /\ c \in Column /\ new \in Column /\ Met(k)[m].fields[c] # NoDeclared /\ Met(k)[m].fields[new] = NoDeclared
      /\ new # c
  BY <1>1, <1>2, Zenon DEF Applies
<1>4. /\ Met(k + 1)[m].fields[new] = Met(k)[m].fields[c] /\ Met(k + 1)[m].fields[c] = NoDeclared
      /\ \A e \in Column : e # c /\ e # new => Met(k + 1)[m].fields[e] = Met(k)[m].fields[e]
  BY <1>1, <1>3, ColumnAfter
<1>5. Stands(k, m)
  BY <1>1, TablesStand
<1>6. QED
  BY <1>3, <1>4, <1>5

\* A pin of a field's rename alters the field, under the one name or the other.
Pinned(j, i, m, z, g) == j \in Pins(i) /\ j # i /\ ~Separate(j) /\ Alters(j, m, z, g)

LEMMA PinsAre ==
    ASSUME LeafInv, NEW i, NEW m, NEW c, NEW new, Renames(i, m, c, new), NEW j \in Pins(i)
    PROVE  steps[j].op.column \in {c, new} /\ Pinned(j, i, m, steps[j].op.column, steps[j].op.field)
<1>1. i \in Written /\ steps[i].op.name = "RenameField" /\ Pins(i) = Repinning(m, {c, new})
  BY DEF Renames, Pins
<1>2. /\ j \in Written /\ ~Separate(j) /\ steps[j].op.name = "AlterField" /\ steps[j].op.model = m
      /\ steps[j].op.column \in {c, new}
  BY <1>1 DEF Repinning
<1>3. QED
  BY <1>1, <1>2 DEF Pinned, Alters

\* The pin that is read is the only one.
LEMMA FirstPin ==
    ASSUME LeafInv, NEW i \in Written, \A a, b \in Pins(i) : a = b, NEW j \in Pins(i)
    PROVE  FirstOf(Pins(i)) = j
<1>1. Pins(i) = {j} /\ j \in Nat
  BY MomentsAre DEF Pins, Repinning, Retabling
<1>2. j <= j
  BY <1>1
<1>3. \A f \in {j} : f = j
  OBVIOUS
<1>4. FirstOf({j}) = j
  BY <1>2, <1>3 DEF FirstOf
<1>5. QED
  BY <1>1, <1>4, Zenon

\* Where a field that is renamed is looked for: under its new name, as the pin has it
\* if there is one and it can be read.
LEMMA MovesAre ==
    ASSUME LeafInv, LeafChain, NEW i, NEW m, NEW c, NEW new, Renames(i, m, c, new), Seen(i),
           \A a, b \in Pins(i) : a = b
    PROVE  LET was == Met(i)[m].fields[c] IN
           /\ was = Existing_field(i)
           /\ Pins(i) = {} => (ColumnMoves(i) <=> PinIsRead(was) /\ Column_of(c, was) # Column_of(new, was))
           /\ \A j, z, g : Pinned(j, i, m, z, g) =>
                /\ j \in Pins(i) /\ steps[j].op.field = g
                /\ ColumnMoves(i) <=> PinIsRead(was) /\ PinIsRead(g) /\ Column_of(c, was) # Column_of(new, g)
<1> DEFINE was == Met(i)[m].fields[c]
           after == IF Pins(i) # {} THEN steps[FirstOf(Pins(i))].op.field ELSE was
<1>1. /\ i \in Written /\ steps[i].op.name = "RenameField" /\ steps[i].op.model = m /\ steps[i].op.column = c
      /\ steps[i].op.to = new /\ Pins(i) = Repinning(m, {c, new})
  BY DEF Renames, Pins
<1>2. m \in Model /\ c \in Column /\ was # NoDeclared /\ Met(i) = steps[i].met
  BY <1>1, RenameActs, NextMoment DEF Stands
<1>3. was = Existing_field(i)
  BY <1>1, <1>2 DEF Seen, FieldOf, TableOf
<1>4. ColumnMoves(i) <=> PinIsRead(was) /\ PinIsRead(after) /\ Column_of(c, was) # Placed(new, after)
  BY <1>1, <1>2, <1>3 DEF ColumnMoves, Placed
<1>5. CASE Pins(i) = {}
  BY <1>2, <1>3, <1>4, <1>5 DEF Placed, Pinned
<1>6. ASSUME NEW j, NEW z, NEW g, Pinned(j, i, m, z, g)
      PROVE  /\ j \in Pins(i) /\ steps[j].op.field = g
             /\ ColumnMoves(i) <=> PinIsRead(was) /\ PinIsRead(g) /\ Column_of(c, was) # Column_of(new, g)
  <2>1. j \in Pins(i) /\ Alters(j, m, z, g)
    BY <1>6 DEF Pinned
  <2>2. FirstOf(Pins(i)) = j /\ steps[j].op.field = g /\ g # NoDeclared
    BY <1>1, <2>1, FirstPin, AlterActs DEF Alters
  <2>3. after = g
    BY <2>1, <2>2
  <2>4. QED
    BY <1>4, <2>1, <2>2, <2>3 DEF Placed
<1>7. QED
  BY <1>2, <1>3, <1>4, <1>6 DEF Placed

\* What an unremarked leaf does to the columns of a table of the release.
LEMMA NothingIsRemoved ==
    ASSUME LeafInv, LeafChain, Unremarked, NEW k \in Written, NEW m \in Model, Met(1)[m].exists,
           Met(k + 1)[m] # Met(k)[m]
    PROVE  \/ \E c, g : Adds(k, m, c, g)
           \/ \E c, g : Alters(k, m, c, g) /\ Rename \notin Statements(k)
           \/ \E c, new : Renames(k, m, c, new) /\ ~ColumnMoves(k)
<1>1. k \in Moments /\ Met(k)[m].exists /\ Met(k)[m].born = "before" /\ Met(k) = steps[k].met
  BY MomentsAre, ServedStay, NextMoment
<1>2. steps[k].op.name \in OnAColumn /\ steps[k].op.model = m
  BY <1>1, ServedIsTouched
<1>3. PopulatedTable(k)
  BY <1>1, <1>2 DEF PopulatedTable, TableOf
<1>4. ~DeletesModel(m)
  BY NothingIsSaid DEF DeletesModel
<1>5. steps[k].op.name # "RemoveField"
  BY <1>2, <1>3, <1>4, NothingIsSaid DEF RemoveFieldBreaksRollingDeploy
<1>6. steps[k].op.name = "RenameField" => ~ColumnMoves(k)
  BY <1>3, NothingIsSaid DEF RenameBreaksRollingDeploy
<1>7. steps[k].op.name = "AlterField" => Rename \notin Statements(k)
  BY NothingIsSaid
<1>8. QED
  BY <1>2, <1>5, <1>6, <1>7, EachIsOne DEF Removes, Alters, Renames

\* Some column of a table is pinned to a name.
Pinning(k, m, p) ==
  \E z \in Column : /\ Met(k)[m].fields[z] # NoDeclared /\ Met(k)[m].fields[z].kind \notin TABLE_VALUED_FIELDS
                    /\ Met(k)[m].fields[z].pin = p

LEMMA PinningStays ==
    ASSUME LeafInv, LeafChain, Unremarked, NEW m \in Model, Met(1)[m].exists, NEW p \in Column, p # NoName,
           NEW k \in Written, Pinning(k, m, p), \A g : ~Alters(k, m, p, g)
    PROVE  Pinning(k + 1, m, p)
<1>1. PICK z \in Column : /\ Met(k)[m].fields[z] # NoDeclared /\ Met(k)[m].fields[z].kind \notin TABLE_VALUED_FIELDS
                          /\ Met(k)[m].fields[z].pin = p
  BY DEF Pinning
<1>2. CASE Met(k + 1)[m] = Met(k)[m]
  BY <1>1, <1>2 DEF Pinning
<1>3. ASSUME NEW c, NEW g, Adds(k, m, c, g)
      PROVE  Pinning(k + 1, m, p)
  <2>1. Met(k + 1)[m].fields[z] = Met(k)[m].fields[z]
    BY <1>1, <1>3, AddActs
  <2>2. QED
    BY <1>1, <2>1 DEF Pinning
<1>4. ASSUME NEW c, NEW new, Renames(k, m, c, new)
      PROVE  Pinning(k + 1, m, p)
  <2>1. new \in Column /\ (Met(k + 1)[m].fields[z] = Met(k)[m].fields[z] \/ Met(k + 1)[m].fields[new] = Met(k)[m].fields[z])
    BY <1>1, <1>4, RenameActs
  <2>2. QED
    BY <1>1, <2>1 DEF Pinning
<1>5. ASSUME NEW c, NEW g, Alters(k, m, c, g), Rename \notin Statements(k)
      PROVE  Pinning(k + 1, m, p)
  <2>1. CASE z # c
    <3>1. Met(k + 1)[m].fields[z] = Met(k)[m].fields[z]
      BY <1>1, <1>5, <2>1, AlterActs
    <3>2. QED
      BY <1>1, <3>1 DEF Pinning
  <2>2. CASE z = c
    <3>1. /\ Met(k + 1)[m].fields[z] = g /\ g # NoDeclared /\ g.kind \notin TABLE_VALUED_FIELDS
          /\ Column_of(z, Met(k)[m].fields[z]) = Column_of(z, g)
      BY <1>1, <1>5, <2>2, AlterActs
    <3>2. Column_of(z, g) = <<p>>
      BY <1>1, <3>1, ColumnsOf
    <3>3. z # p
      BY <1>5, <2>2
    <3>4. g.pin = p
      BY <3>2, <3>3, ColumnsOf
    <3>5. QED
      BY <3>1, <3>4 DEF Pinning
  <2>3. QED
    BY <2>1, <2>2
<1>6. QED
  BY <1>2, <1>3, <1>4, <1>5, NothingIsRemoved

\* Two fields that are in a column of the same name: the first is pinned there, or it is
\* where its own name puts it and the other is pinned there.
LEMMA SameColumn ==
    ASSUME NEW c, NEW e, c # e, NEW f, NEW g, Column_of(c, f) = Column_of(e, g)
    PROVE  f.pin # NoName \/ (~IsRelation(f) /\ g.pin = c /\ g.pin # NoName)
<1>1. CASE g.pin # NoName
  BY <1>1, ColumnsOf
<1>2. CASE g.pin = NoName /\ IsRelation(g)
  BY <1>2, ColumnsOf
<1>3. CASE g.pin = NoName /\ ~IsRelation(g)
  BY <1>3, ColumnsOf
<1>4. QED
  BY <1>1, <1>2, <1>3

\* A name of a table that an operation takes away was a field's, and is none's now.
LEMMA LostPlace ==
    ASSUME LeafInv, LeafChain, NEW m \in Model, NEW k \in Moments, NEW j \in Moments, Met(k)[m].exists, Met(j)[m].exists,
           Met(k)[m].table = m, Met(j)[m].table = m, NEW n, n \in NamesOf(Met(k)[m]), n \notin NamesOf(Met(j)[m])
    PROVE  /\ \E e \in Column : Met(k)[m].fields[e] # NoDeclared /\ n = Place(m, e, Met(k)[m].fields[e])
           /\ \A e \in Column : Met(j)[m].fields[e] # NoDeclared => n # Place(m, e, Met(j)[m].fields[e])
<1>1. n # <<m>> /\ \A e \in Column : Met(j)[m].fields[e] # NoDeclared => n # Place(m, e, Met(j)[m].fields[e])
  BY NamesArePlaces
<1>2. QED
  BY <1>1, NamesArePlaces

\* A pin before the rename: the field would share its column with another.
LEMMA NoPinIsBefore ==
    ASSUME LeafInv, LeafChain, Unremarked, NEW m \in Model, Met(1)[m].exists, NEW i, NEW c, NEW new,
           Renames(i, m, c, new), Met(i)[m].fields[c].pin = NoName, ~IsRelation(Met(i)[m].fields[c]),
           Met(i)[m].fields[c].kind \notin TABLE_VALUED_FIELDS,
           NEW j, NEW z, NEW g, Pinned(j, i, m, z, g), g.pin = c, c # NoName, g.kind \notin TABLE_VALUED_FIELDS
    PROVE  j > i
<1> DEFINE S == {k \in Moments : Pinning(k, m, c)}
<1>1. /\ i \in Written /\ i \in Nat /\ i \in Moments /\ c \in Column /\ Met(i)[m].fields[c] # NoDeclared
      /\ j \in Pins(i) /\ Alters(j, m, z, g) /\ j \in Written /\ j \in Nat /\ j # i
  BY RenameActs, MomentsAre DEF Renames, Pinned, Alters
<1>2. SUFFICES ASSUME j < i
               PROVE  FALSE
  BY <1>1
<1>3. j + 1 \in S
  BY <1>1, AlterActs DEF Pinning, Stands
<1>4. ASSUME NEW k \in Written, k >= j + 1, k \in S
      PROVE  k + 1 \in S
  <2>1. k \in Nat /\ k # j /\ k + 1 \in Moments
    BY <1>1, <1>4, MomentsAre
  <2>2. k \notin Pins(i)
    BY <1>1, <2>1, NothingIsSaid, Zenon
  <2>3. \A h : ~Alters(k, m, c, h)
    BY <2>2, NothingIsSaid DEF Alters, Renames, Pins, Repinning
  <2>4. QED
    BY <1>1, <1>4, <2>1, <2>3, PinningStays
<1>5. i \in S
  <2> HIDE DEF S
  <2>1. j + 1 \in Moments /\ i >= j + 1
    BY <1>1, <1>2, MomentsAre
  <2>2. QED
    BY <1>1, <1>3, <1>4, <2>1, MomentsFollow
<1>6. PICK y \in Column : /\ Met(i)[m].fields[y] # NoDeclared /\ Met(i)[m].fields[y].kind \notin TABLE_VALUED_FIELDS
                          /\ Met(i)[m].fields[y].pin = c
  BY <1>5 DEF Pinning
<1>7. y # c /\ Column_of(y, Met(i)[m].fields[y]) = Column_of(c, Met(i)[m].fields[c])
  BY <1>6, ColumnsOf
<1>8. y \in Concrete(Met(i)[m]) /\ c \in Concrete(Met(i)[m])
  BY <1>1, <1>6 DEF Concrete
<1>9. NoCollision(Met(i))
  BY <1>1 DEF LeafChain
<1>10. QED
  BY <1>7, <1>8, <1>9 DEF NoCollision

\* Where a leaf is unremarked, a name that is lost is not lost to a rename.
LEMMA RenamesKeepNames ==
    ASSUME LeafInv, LeafChain, JoinsHaveNoColumn, Unremarked, NEW m \in Model, Met(1)[m].exists,
           NEW i, NEW c, NEW new, Renames(i, m, c, new), ~ColumnMoves(i),
           NEW n, n \in NamesOf(Met(i)[m]), \A k \in Moments : k > i => n \notin NamesOf(Met(k)[m])
    PROVE  FALSE
<1> DEFINE f == Met(i)[m].fields[c]
<1>1. /\ i \in Written /\ i \in Nat /\ i \in Moments /\ i + 1 \in Moments /\ Seen(i) /\ \A a, b \in Pins(i) : a = b
  BY MomentsAre, NothingIsSaid DEF Unremarked, Renames
<1>2. \A k \in Moments : Met(k)[m].exists /\ Met(k)[m].table = m
  BY ServedStay
<1>3. ASSUME NEW k \in Moments, k > i
      PROVE  \A e \in Column : Met(k)[m].fields[e] # NoDeclared => n # Place(m, e, Met(k)[m].fields[e])
  BY <1>1, <1>2, <1>3, LostPlace
<1>4. PICK e \in Column : Met(i)[m].fields[e] # NoDeclared /\ n = Place(m, e, Met(i)[m].fields[e])
  <2>1. n \notin NamesOf(Met(i + 1)[m])
    BY <1>1
  <2>2. QED
    BY <1>1, <1>2, <2>1, LostPlace
<1>5. e = c /\ n # Place(m, new, f) /\ c # new /\ f # NoDeclared
  <2>1. \A y \in Column : Met(i + 1)[m].fields[y] # NoDeclared => n # Place(m, y, Met(i + 1)[m].fields[y])
    BY <1>1, <1>3
  <2>2. QED
    BY <1>4, <2>1, RenameActs
<1>6. n = Place(m, c, f)
  BY <1>4, <1>5
<1>7. f.kind \in TABLE_VALUED_FIELDS => Column_of(c, f) = <<c, "_id">> /\ f.pin = NoName
  BY <1>1, <1>4, <1>5, FieldsMeetTheStyle, ColumnsOf
<1>8. Column_of(c, f) # Column_of(new, f)
  <2>1. CASE f.kind \in TABLE_VALUED_FIELDS
    BY <1>5, <1>7, <2>1, SameColumn
  <2>2. CASE f.kind \notin TABLE_VALUED_FIELDS
    BY <1>5, <1>6, <2>2 DEF Place
  <2>3. QED
    BY <2>1, <2>2
<1>9. PinIsRead(f) /\ Pins(i) # {}
  <2>1. f = Existing_field(i) /\ steps[i].op.name = "RenameField"
    BY <1>1, MovesAre DEF Renames
  <2>2. PinIsRead(f)
    BY <1>1, <2>1, NothingIsSaid
  <2>3. QED
    BY <1>1, <1>8, <2>2, MovesAre
<1>10. PICK j, z, g : Pinned(j, i, m, z, g)
  BY <1>9, PinsAre
<1>11. Column_of(c, f) = Column_of(new, g)
  <2>1. j \in Pins(i) /\ steps[j].op.field = g
    BY <1>1, <1>10, MovesAre
  <2>2. steps[i].op.name = "RenameField"
    BY DEF Renames
  <2>3. PinIsRead(g)
    BY <1>1, <2>1, <2>2, NothingIsSaid
  <2>4. QED
    BY <1>1, <1>9, <1>10, <2>3, MovesAre
<1>12. f.pin = NoName /\ ~IsRelation(f) /\ g.pin = c /\ c # NoName
  BY <1>5, <1>8, <1>11, SameColumn, ColumnsOf
<1>13. Column_of(c, f) = <<c>> /\ f.kind \notin TABLE_VALUED_FIELDS
  BY <1>7, <1>12, ColumnsOf
<1>14. /\ j \in Written /\ j \in Nat /\ j \in Moments /\ Rename \notin Statements(j) /\ z \in Column
       /\ Met(j)[m].fields[z] # NoDeclared /\ g \in style.fields
       /\ (Met(j)[m].fields[z].kind \in TABLE_VALUED_FIELDS <=> g.kind \in TABLE_VALUED_FIELDS)
       /\ Column_of(z, Met(j)[m].fields[z]) = Column_of(z, g)
  BY <1>10, AlterActs, NothingIsSaid, MomentsAre DEF Pinned, Alters
<1>15. g.kind \notin TABLE_VALUED_FIELDS
  BY <1>12, <1>14 DEF JoinsHaveNoColumn, LeafInv, LeafTypeOK
<1>16. j > i
  BY <1>10, <1>12, <1>13, <1>15, NoPinIsBefore
<1>17. Column_of(z, g) = <<c>>
  BY <1>12, ColumnsOf
<1>18. n = Place(m, z, Met(j)[m].fields[z])
  BY <1>6, <1>13, <1>14, <1>15, <1>17 DEF Place
<1>19. QED
  BY <1>3, <1>14, <1>16, <1>18

\* A leaf of which nothing is reported leaves the release every name it uses.
LEMMA UnremarkedKeepsNames ==
    ASSUME LeafInv, LeafChain, JoinsHaveNoColumn, Unremarked
    PROVE  Gone(tables) = {}
<1>1. SUFFICES ASSUME NEW n \in Running, n \notin Names(tables)
               PROVE  FALSE
  BY DEF Gone
<1>2. PICK m \in Model : n \in NamesOf(Met(1)[m])
  BY RunningIsTheFirst DEF Names
<1>3. Met(1)[m].exists
  BY <1>2 DEF NamesOf
<1> DEFINE G == {k \in Moments : n \in NamesOf(Met(k)[m])}
<1>4. G \in SUBSET Moments /\ G # {}
  BY <1>2, MomentsEnd
<1>5. PICK i \in G : \A k \in G : k <= i
  <2> HIDE DEF G
  <2>1. QED
    BY <1>4, LastMoment
<1>6. i \in Moments /\ i \in Nat /\ n \in NamesOf(Met(i)[m]) /\ \A k \in Moments : k > i => n \notin NamesOf(Met(k)[m])
  BY <1>5, MomentsAre
<1> HIDE DEF G
<1>7. i \in Written
  <2>1. n \notin NamesOf(tables[m])
    BY <1>1 DEF Names
  <2>2. QED
    BY <1>6, <2>1, MomentsAre, MomentsEnd
<1>8. i + 1 \in Moments /\ n \notin NamesOf(Met(i + 1)[m])
  BY <1>6, <1>7, MomentsAre
<1>9. \A k \in Moments : Met(k)[m].exists /\ Met(k)[m].table = m
  BY <1>3, ServedStay
<1>10. PICK e \in Column : Met(i)[m].fields[e] # NoDeclared /\ n = Place(m, e, Met(i)[m].fields[e])
  BY <1>6, <1>8, <1>9, LostPlace
<1>11. \A y \in Column : Met(i + 1)[m].fields[y] # NoDeclared => n # Place(m, y, Met(i + 1)[m].fields[y])
  BY <1>6, <1>8, <1>9, LostPlace
<1>12. ASSUME NEW c, NEW g, Adds(i, m, c, g)
       PROVE  FALSE
  BY <1>10, <1>11, <1>12, AddActs
<1>13. ASSUME NEW c, NEW g, Alters(i, m, c, g), Rename \notin Statements(i)
       PROVE  FALSE
  <2>1. e = c
    BY <1>10, <1>11, <1>13, AlterActs
  <2>2. /\ Met(i + 1)[m].fields[e] = g /\ g # NoDeclared
        /\ (Met(i)[m].fields[e].kind \in TABLE_VALUED_FIELDS <=> g.kind \in TABLE_VALUED_FIELDS)
        /\ Column_of(e, Met(i)[m].fields[e]) = Column_of(e, g)
    BY <1>13, <2>1, AlterActs
  <2>3. Place(m, e, Met(i)[m].fields[e]) = Place(m, e, g)
    BY <2>2 DEF Place
  <2>4. QED
    BY <1>10, <1>11, <2>2, <2>3
<1>14. ASSUME NEW c, NEW new, Renames(i, m, c, new), ~ColumnMoves(i)
       PROVE  FALSE
  BY <1>3, <1>6, <1>14, RenamesKeepNames
<1>15. QED
  BY <1>3, <1>7, <1>6, <1>8, <1>12, <1>13, <1>14, NothingIsRemoved

\* Two fields of one table have two places.
LEMMA PlacesDiffer ==
    ASSUME LeafInv, LeafChain, NEW k \in Moments, NEW m \in Model, NEW c \in Column, NEW e \in Column, c # e,
           Met(k)[m].fields[c] # NoDeclared, Met(k)[m].fields[e] # NoDeclared
    PROVE  Place(m, c, Met(k)[m].fields[c]) # Place(m, e, Met(k)[m].fields[e])
<1> DEFINE f == Met(k)[m].fields[c]
           g == Met(k)[m].fields[e]
<1>1. CASE f.kind \notin TABLE_VALUED_FIELDS /\ g.kind \notin TABLE_VALUED_FIELDS
  <2>1. c \in Concrete(Met(k)[m]) /\ e \in Concrete(Met(k)[m])
    BY <1>1 DEF Concrete
  <2>2. Column_of(c, f) # Column_of(e, g)
    BY <2>1 DEF LeafChain, NoCollision
  <2>3. QED
    BY <1>1, <2>2 DEF Place
<1>2. QED
  BY <1>1 DEF Place

\* A place that a release uses, and that no field of the table has in the end, is gone.
LEMMA PlaceIsGone ==
    ASSUME LeafInv, LeafChain, NEW m \in Model, NEW k \in Moments, NEW c \in Column,
           Met(k)[m].fields[c] # NoDeclared, NEW n, n = Place(m, c, Met(k)[m].fields[c]), n \in NamesOf(Met(1)[m]),
           tables[m].exists, tables[m].table = m,
           \A e \in Column : \/ tables[m].fields[e] = NoDeclared
                             \/ e # c /\ tables[m].fields[e] = Met(k)[m].fields[e]
                             \/ n # Place(m, e, tables[m].fields[e])
    PROVE  n \in Gone(tables)
<1>1. n \in Running
  BY RunningIsTheFirst DEF Names
<1>2. SUFFICES ASSUME NEW x \in Model, n \in NamesOf(tables[x])
               PROVE  FALSE
  BY <1>1 DEF Gone, Names
<1>3. n # <<tables[x].table>> /\ tables[x].exists
  BY <1>2, NamesArePlaces DEF Place
<1>4. PICK e \in Column : tables[x].fields[e] # NoDeclared /\ n = Place(tables[x].table, e, tables[x].fields[e])
  BY <1>2, <1>3, NamesArePlaces
<1>5. tables[x].table = m
  BY <1>4 DEF Place
<1>6. x = m
  <2>1. NoCollision(tables)
    BY MomentsEnd DEF LeafChain
  <2>2. QED
    BY <1>3, <1>5, <2>1 DEF NoCollision
<1>7. e # c /\ tables[m].fields[e] = Met(k)[m].fields[e]
  BY <1>4, <1>5, <1>6
<1>8. n = Place(m, e, Met(k)[m].fields[e]) /\ Met(k)[m].fields[e] # NoDeclared
  BY <1>4, <1>5, <1>6, <1>7
<1>9. Place(m, c, Met(k)[m].fields[c]) # Place(m, e, Met(k)[m].fields[e])
  BY <1>7, <1>8, PlacesDiffer
<1>10. QED
  BY <1>8, <1>9

\* Nothing else of the leaf touches what is removed or renamed for itself.
LEMMA SoleStays ==
    ASSUME LeafInv, LeafChain, NEW i \in Written, Sole(i), NEW m \in Model, m \in {steps[i].op.model, steps[i].op.to},
           NEW a \in Moments, NEW b \in Moments, a <= b, \A k \in Pins(i) \cup {i} : ~(k >= a /\ k < b)
    PROVE  Met(b)[m] = Met(a)[m]
<1>1. ASSUME NEW k \in Written, k >= a, k < b
      PROVE  ~Touches(k, m)
  <2>1. k \in Written \ (Pins(i) \cup {i})
    BY <1>1
  <2>2. {steps[k].op.model, steps[k].op.to} \cap {steps[i].op.model, steps[i].op.to} \subseteq {NoName}
    BY <2>1 DEF Sole
  <2>3. QED
    BY <2>2, ModelsHaveNames DEF Touches
<1>2. QED
  BY <1>1, UntouchedStays

\* Around the one operation on a model are the tables of the release, and those of the next.
LEMMA AroundASole ==
    ASSUME LeafInv, LeafChain, NEW i \in Written, Sole(i), Pins(i) = {}, NEW m \in Model,
           m \in {steps[i].op.model, steps[i].op.to}
    PROVE  Met(i)[m] = Met(1)[m] /\ tables[m] = Met(i + 1)[m]
<1> DEFINE last == Len(steps) + 1
<1>1. /\ i \in Nat /\ i \in Moments /\ i + 1 \in Moments /\ 1 <= i /\ i + 1 <= last
      /\ 1 \in Moments /\ last \in Moments /\ last \in Nat /\ Met(last) = tables
  BY MomentsAre, MomentsEnd
<1> HIDE DEF last
<1>2. \A k \in Pins(i) \cup {i} : ~(k >= 1 /\ k < i)
  BY <1>1
<1>3. \A k \in Pins(i) \cup {i} : ~(k >= i + 1 /\ k < last)
  BY <1>1
<1>4. Met(i)[m] = Met(1)[m]
  BY <1>1, <1>2, SoleStays
<1>5. Met(last)[m] = Met(i + 1)[m]
  BY <1>1, <1>3, SoleStays
<1>6. QED
  BY <1>1, <1>4, <1>5

\* A column that is removed by the one operation on its table is gone (DJM-004).
LEMMA RemovedIsGone ==
    ASSUME LeafInv, LeafChain, NEW i, Sole(i), NEW m, NEW c, Removes(i, m, c)
    PROVE  Gone(tables) \cap NamesOf(Met(i)[m]) # {}
<1>1. /\ m \in Model /\ c \in Column /\ i \in Moments /\ i + 1 \in Moments /\ i \in Written
      /\ Met(i)[m].exists /\ Met(i + 1)[m].exists /\ Met(i + 1)[m].table = Met(i)[m].table
      /\ Met(i)[m].fields[c] # NoDeclared /\ Met(i + 1)[m].fields[c] = NoDeclared
      /\ \A e \in Column : e # c => Met(i + 1)[m].fields[e] = Met(i)[m].fields[e]
  BY RemoveActs DEF Stands, Removes
<1>2. Pins(i) = {} /\ m \in {steps[i].op.model, steps[i].op.to}
  BY DEF Pins, Removes
<1>3. Met(i)[m] = Met(1)[m] /\ tables[m] = Met(i + 1)[m]
  BY <1>1, <1>2, AroundASole
<1>4. Met(i)[m].table = m
  BY <1>1, <1>3 DEF LeafChain
<1>5. Place(m, c, Met(i)[m].fields[c]) \in NamesOf(Met(i)[m])
  BY <1>1, <1>4, NamesArePlaces
<1>6. Place(m, c, Met(i)[m].fields[c]) \in Gone(tables)
  BY <1>1, <1>3, <1>4, <1>5, PlaceIsGone
<1>7. QED
  BY <1>5, <1>6

LEMMA SolePins ==
    ASSUME LeafInv, NEW i \in Written, Sole(i)
    PROVE  /\ \A a, b \in Pins(i) : a = b
           /\ \A j \in Pins(i) : j > i \/ Rename \notin Statements(j)
BY OnePin DEF Sole

\* A sole rename without a pin meets the tables of the release, and leaves those of the
\* next; a pin comes before it, or after.
LEMMA AroundARename ==
    ASSUME LeafInv, LeafChain, NEW i, Sole(i), NEW m, NEW c, NEW new, Renames(i, m, c, new),
           NEW j, NEW z, NEW g, Pinned(j, i, m, z, g)
    PROVE  /\ j < i => Met(j)[m] = Met(1)[m] /\ Met(i)[m] = Met(j + 1)[m] /\ tables[m] = Met(i + 1)[m]
           /\ j > i => Met(i)[m] = Met(1)[m] /\ Met(j)[m] = Met(i + 1)[m] /\ tables[m] = Met(j + 1)[m]
<1> DEFINE last == Len(steps) + 1
<1>1. /\ i \in Written /\ i \in Nat /\ i \in Moments /\ i + 1 \in Moments /\ 1 <= i /\ i + 1 <= last
      /\ j \in Nat /\ j \in Moments /\ j + 1 \in Moments /\ 1 <= j /\ j + 1 <= last
      /\ 1 \in Moments /\ last \in Moments /\ last \in Nat /\ Met(last) = tables
  BY MomentsAre, MomentsEnd DEF Renames, Pinned, Alters
<1>2. \A k \in Pins(i) \cup {i} : k = i \/ k = j
  BY <1>1, SolePins DEF Pinned
<1>3. m \in Model /\ m \in {steps[i].op.model, steps[i].op.to}
  BY RenameActs DEF Renames, Stands
<1> HIDE DEF last
<1>4. CASE j < i
  <2>1. \A k \in Pins(i) \cup {i} : ~(k >= 1 /\ k < j)
    BY <1>1, <1>2, <1>4
  <2>2. \A k \in Pins(i) \cup {i} : ~(k >= j + 1 /\ k < i)
    BY <1>1, <1>2, <1>4
  <2>3. \A k \in Pins(i) \cup {i} : ~(k >= i + 1 /\ k < last)
    BY <1>1, <1>2, <1>4
  <2>4. Met(j)[m] = Met(1)[m]
    BY <1>1, <1>3, <1>4, <2>1, SoleStays
  <2>5. Met(i)[m] = Met(j + 1)[m]
    BY <1>1, <1>3, <1>4, <2>2, SoleStays
  <2>6. Met(last)[m] = Met(i + 1)[m]
    BY <1>1, <1>3, <1>4, <2>3, SoleStays
  <2>7. QED
    BY <1>1, <1>4, <2>4, <2>5, <2>6
<1>5. CASE j > i
  <2>1. \A k \in Pins(i) \cup {i} : ~(k >= 1 /\ k < i)
    BY <1>1, <1>2, <1>5
  <2>2. \A k \in Pins(i) \cup {i} : ~(k >= i + 1 /\ k < j)
    BY <1>1, <1>2, <1>5
  <2>3. \A k \in Pins(i) \cup {i} : ~(k >= j + 1 /\ k < last)
    BY <1>1, <1>2, <1>5
  <2>4. Met(i)[m] = Met(1)[m]
    BY <1>1, <1>3, <1>5, <2>1, SoleStays
  <2>5. Met(j)[m] = Met(i + 1)[m]
    BY <1>1, <1>3, <1>5, <2>2, SoleStays
  <2>6. Met(last)[m] = Met(j + 1)[m]
    BY <1>1, <1>3, <1>5, <2>3, SoleStays
  <2>7. QED
    BY <1>1, <1>5, <2>4, <2>5, <2>6
<1>6. QED
  BY <1>1, <1>4, <1>5

\* What a sole rename that moves a column leaves of a release's table: the field is
\* elsewhere, where the pin has put it or its name does.
Moves(i, m, c, new) ==
  /\ Met(1)[m].exists /\ Met(i)[m].table = m /\ tables[m].exists /\ tables[m].table = m
  /\ Place(m, c, Met(i)[m].fields[c]) \in NamesOf(Met(1)[m])
  /\ tables[m].fields[c] = NoDeclared
  /\ Place(m, c, Met(i)[m].fields[c]) # Place(m, new, tables[m].fields[new])
  /\ \A e \in Column : e # c /\ e # new => tables[m].fields[e] = Met(i)[m].fields[e]

LEMMA SoleRenamesMove ==
    ASSUME LeafInv, LeafChain, NEW i, Sole(i), Seen(i), NEW m, NEW c, NEW new, Renames(i, m, c, new), ColumnMoves(i)
    PROVE  Moves(i, m, c, new)
<1> DEFINE before == Met(i)[m].fields
           f == before[c]
<1>1. /\ m \in Model /\ i \in Written /\ i \in Nat /\ i \in Moments /\ i + 1 \in Moments
      /\ m \in {steps[i].op.model, steps[i].op.to}
      /\ Met(i)[m].exists /\ Met(i + 1)[m].exists /\ Met(i + 1)[m].table = Met(i)[m].table
      /\ c \in Column /\ new \in Column /\ new # c /\ f # NoDeclared /\ before[new] = NoDeclared
      /\ Met(i + 1)[m].fields[new] = f /\ Met(i + 1)[m].fields[c] = NoDeclared
      /\ \A e \in Column : e # c /\ e # new => Met(i + 1)[m].fields[e] = before[e]
  BY RenameActs, MomentsAre DEF Renames, Stands
<1>2. \A a, b \in Pins(i) : a = b
  BY <1>1, SolePins
<1>3. CASE Pins(i) = {}
  <2>1. Met(i)[m] = Met(1)[m] /\ tables[m] = Met(i + 1)[m]
    BY <1>1, <1>3, AroundASole
  <2>2. Met(i)[m].table = m
    BY <1>1, <2>1 DEF LeafChain
  <2>3. Place(m, c, f) \in NamesOf(Met(1)[m])
    BY <1>1, <2>1, <2>2, NamesArePlaces
  <2>4. Column_of(c, f) # Column_of(new, f)
    BY <1>2, <1>3, MovesAre
  <2>5. Place(m, c, f) # Place(m, new, f)
    BY <1>1, <2>4 DEF Place
  <2>6. QED
    BY <1>1, <2>1, <2>2, <2>3, <2>5 DEF Moves
<1>4. ASSUME NEW j, NEW z, NEW g, Pinned(j, i, m, z, g), z \in {c, new}
      PROVE  Moves(i, m, c, new)
  <2>1. /\ j \in Pins(i) /\ j # i /\ j \in Nat /\ z \in Column /\ g # NoDeclared
        /\ Met(j)[m].exists /\ Met(j + 1)[m].exists /\ Met(j + 1)[m].table = Met(j)[m].table
        /\ Met(j)[m].fields[z] # NoDeclared /\ Met(j + 1)[m].fields[z] = g
        /\ (Met(j)[m].fields[z].kind \in TABLE_VALUED_FIELDS <=> g.kind \in TABLE_VALUED_FIELDS)
        /\ \A e \in Column : e # z => Met(j + 1)[m].fields[e] = Met(j)[m].fields[e]
    BY <1>4, AlterActs, MomentsAre DEF Pinned, Stands, Alters
  <2>2. Column_of(c, f) # Column_of(new, g)
    BY <1>2, <1>4, MovesAre
  <2>3. CASE j < i
    <3>1. Met(j)[m] = Met(1)[m] /\ Met(i)[m] = Met(j + 1)[m] /\ tables[m] = Met(i + 1)[m]
      BY <1>4, <2>3, AroundARename
    <3>2. z = c /\ g = f /\ Met(j)[m].table = m
      BY <1>1, <1>4, <2>1, <3>1 DEF LeafChain
    <3>3. Column_of(c, Met(j)[m].fields[c]) = Column_of(c, f)
      <4>1. Rename \notin Statements(j)
        BY <1>1, <2>1, <2>3, SolePins
      <4>2. QED
        BY <1>4, <3>2, <4>1, AlterActs DEF Pinned
    <3>4. Place(m, c, Met(j)[m].fields[c]) = Place(m, c, f)
      BY <2>1, <3>2, <3>3 DEF Place
    <3>5. Place(m, c, f) \in NamesOf(Met(1)[m])
      BY <1>1, <2>1, <3>1, <3>2, <3>4, NamesArePlaces
    <3>6. Place(m, c, f) # Place(m, new, f)
      BY <1>1, <2>2, <3>2 DEF Place
    <3>7. QED
      BY <1>1, <2>1, <3>1, <3>2, <3>5, <3>6 DEF Moves
  <2>4. CASE j > i
    <3>1. Met(i)[m] = Met(1)[m] /\ Met(j)[m] = Met(i + 1)[m] /\ tables[m] = Met(j + 1)[m]
      BY <1>4, <2>4, AroundARename
    <3>2. z = new /\ Met(j)[m].fields[z] = f /\ Met(i)[m].table = m
      BY <1>1, <1>4, <2>1, <3>1 DEF LeafChain
    <3>3. Place(m, c, f) \in NamesOf(Met(1)[m])
      BY <1>1, <3>1, <3>2, NamesArePlaces
    <3>4. Place(m, c, f) # Place(m, new, g)
      BY <1>1, <2>1, <2>2, <3>2 DEF Place
    <3>5. QED
      BY <1>1, <2>1, <3>1, <3>2, <3>3, <3>4 DEF Moves
  <2>5. QED
    BY <1>1, <2>1, <2>3, <2>4
<1>5. QED
  BY <1>3, <1>4, PinsAre

\* A column that is renamed to where the release does not look for it is gone (DJM-005).
LEMMA RenamedIsGone ==
    ASSUME LeafInv, LeafChain, NEW i, Sole(i), Seen(i), NEW m, NEW c, NEW new, Renames(i, m, c, new), ColumnMoves(i)
    PROVE  Gone(tables) \cap NamesOf(Met(i)[m]) # {}
<1>1. /\ m \in Model /\ i \in Moments /\ c \in Column /\ new \in Column
      /\ Met(i)[m].exists /\ Met(i)[m].fields[c] # NoDeclared
  BY RenameActs DEF Stands
<1>2. Moves(i, m, c, new)
  BY SoleRenamesMove
<1>3. Place(m, c, Met(i)[m].fields[c]) \in NamesOf(Met(i)[m])
  BY <1>1, <1>2, NamesArePlaces DEF Moves
<1>4. \A e \in Column : \/ tables[m].fields[e] = NoDeclared
                        \/ e # c /\ tables[m].fields[e] = Met(i)[m].fields[e]
                        \/ Place(m, c, Met(i)[m].fields[c]) # Place(m, e, tables[m].fields[e])
  BY <1>2 DEF Moves
<1>5. Place(m, c, Met(i)[m].fields[c]) \in Gone(tables)
  BY <1>1, <1>2, <1>4, PlaceIsGone, Zenon DEF Moves
<1>6. QED
  BY <1>3, <1>5

\* Where a table's name comes from.
LEMMA TableNameAfter ==
    ASSUME LeafInv, LeafChain, NEW k \in Written, NEW x \in Model, Met(k + 1)[x].exists
    PROVE  LET op == steps[k].op IN
           \/ Met(k)[x].exists /\ Met(k + 1)[x].table = Met(k)[x].table
           \/ op.name = "CreateModel" /\ op.model = x /\ Met(k + 1)[x].table = x
           \/ /\ op.name = "RenameModel" /\ op.to = x /\ Met(k)[op.model].exists /\ op.model \in Model
              /\ Met(k + 1)[x].table \in {x, Met(k)[op.model].table}
           \/ op.name = "AlterModelTable" /\ op.model = x /\ Met(k + 1)[x].table = op.to
<1> DEFINE op == steps[k].op
           d == Met(k)
<1>1. /\ op \in Operations /\ d \in Database /\ Applies(op, d) /\ Met(k + 1) = Changed(d, op)
      /\ ~Touches(k, x) => Met(k + 1)[x] = d[x]
  BY NextMoment
<1>2. d \in [Model -> LeafTable] /\ DOMAIN d = Model /\ ~Absent.exists
  BY <1>1, Zenon DEF Database, Absent
<1>3. CASE op.name = "CreateModel"
  <2>1. op.model \in Model
    BY <1>1, <1>3 DEF Applies
  <2>2. CASE op.model = x
    <3> DEFINE u == [exists |-> TRUE, table |-> op.model, born |-> "leaf", fields |-> NoFieldsYet]
    <3>1. Met(k + 1) = [d EXCEPT ![op.model] = u] /\ u.table = op.model
      BY <1>1, <1>3 DEF Changed
    <3> HIDE DEF u
    <3>2. Met(k + 1)[x].table = x
      BY <1>2, <2>2, <3>1
    <3>3. QED
      BY <1>3, <2>2, <3>2
  <2>3. CASE op.model # x
    BY <1>1, <1>3, <2>3 DEF Touches
  <2>4. QED
    BY <2>2, <2>3, Zenon
<1>4. CASE op.name = "RenameModel"
  <2>1. op.model \in Model /\ op.to \in Model /\ op.to # op.model /\ d[op.model].exists /\ d[op.model] \in LeafTable
        /\ TableOf(d, op.model) = d[op.model]
    BY <1>1, <1>2, <1>4 DEF Applies, OnATable, TableOf
  <2> DEFINE u == [d[op.model] EXCEPT !.table = IF d[op.model].table = op.model THEN op.to ELSE @]
  <2>2. u.table \in {op.to, d[op.model].table}
    BY <2>1, Zenon DEF LeafTable
  <2>3. Met(k + 1) = [d EXCEPT ![op.to] = u, ![op.model] = Absent]
    BY <1>1, <1>4, <2>1 DEF Changed
  <2> HIDE DEF u
  <2>4. Met(k + 1)[op.to] = u /\ Met(k + 1)[op.model] = Absent
    BY <1>2, <2>1, <2>3, Zenon
  <2>5. CASE x = op.to
    BY <1>4, <2>1, <2>2, <2>4, <2>5
  <2>6. CASE x # op.to
    BY <1>1, <1>2, <2>4, <2>6 DEF Touches
  <2>7. QED
    BY <2>5, <2>6, Zenon
<1>5. CASE op.name = "AlterModelTable"
  <2>1. op.model \in Model /\ d[op.model] \in LeafTable
    BY <1>1, <1>2, <1>5 DEF Applies, OnATable
  <2>2. CASE op.model = x
    <3>1. Met(k + 1) = [d EXCEPT ![op.model].table = op.to]
      BY <1>1, <1>5 DEF Changed
    <3>2. Met(k + 1)[x].table = op.to
      BY <1>2, <2>1, <2>2, <3>1 DEF LeafTable
    <3>3. QED
      BY <1>5, <2>2, <3>2
  <2>3. CASE op.model # x
    BY <1>1, <1>5, <2>3 DEF Touches
  <2>4. QED
    BY <2>2, <2>3
<1>6. CASE op.name \in OnAColumn
  <2>1. CASE op.model = x
    BY <1>6, <2>1, TablesStand DEF Stands
  <2>2. CASE op.model # x
    BY <1>1, <1>6, <2>2, Zenon DEF Touches, OnAColumn
  <2>3. QED
    BY <2>1, <2>2
<1>7. CASE op.name \notin {"CreateModel", "RenameModel", "AlterModelTable"} \cup OnAColumn
  <2>1. CASE op.name = "DeleteModel"
    <3>1. op.model \in Model
      BY <1>1, <2>1 DEF Applies, OnATable
    <3>2. QED
      BY <1>1, <1>2, <2>1, <3>1 DEF Changed
  <2>2. CASE op.name # "DeleteModel"
    BY <1>1, <1>7, <2>2, Zenon DEF Changed, OnAColumn
  <2>3. QED
    BY <2>1, <2>2
<1>8. QED
  BY <1>3, <1>4, <1>5, <1>6, <1>7

\* The operations on the name of a table.
RenamesModel(k, m, new) ==
  k \in Written /\ steps[k].op.name = "RenameModel" /\ steps[k].op.model = m /\ steps[k].op.to = new
Retables(k, m, t) ==
  k \in Written /\ steps[k].op.name = "AlterModelTable" /\ steps[k].op.model = m /\ steps[k].op.to = t

LEMMA RenameModelActs ==
    ASSUME LeafInv, LeafChain, NEW k, NEW m, NEW new, RenamesModel(k, m, new)
    PROVE  /\ k \in Moments /\ k + 1 \in Moments /\ k \in Nat /\ 1 <= k
           /\ m \in Model /\ new \in Model /\ new # m
           /\ Met(k)[m].exists /\ ~Met(k)[new].exists
           /\ ~Met(k + 1)[m].exists
           /\ Met(k)[m].table = m => Met(k + 1)[new].table = new
           /\ \A x \in Model : x # m /\ x # new => Met(k + 1)[x] = Met(k)[x]
<1> DEFINE d == Met(k)
<1>1. /\ k \in Written /\ steps[k].op.name = "RenameModel" /\ steps[k].op.model = m /\ steps[k].op.to = new
      /\ Applies(steps[k].op, d) /\ Met(k + 1) = Changed(d, steps[k].op) /\ d \in [Model -> LeafTable]
      /\ \A x \in Model : ~Touches(k, x) => Met(k + 1)[x] = d[x]
  BY NextMoment DEF RenamesModel, Database
<1>2. m \in Model /\ new \in Model /\ new # m /\ d[m].exists /\ ~d[new].exists
  BY <1>1 DEF Applies, OnATable
<1>3. TableOf(d, m) = d[m] /\ d[m] \in LeafTable
  BY <1>1, <1>2 DEF TableOf
<1> DEFINE u == [d[m] EXCEPT !.table = IF d[m].table = m THEN new ELSE @]
<1>4. Met(k + 1) = [d EXCEPT ![new] = u, ![m] = Absent]
  BY <1>1, <1>3 DEF Changed
<1>5. d[m].table = m => u.table = new
  BY <1>3 DEF LeafTable
<1> HIDE DEF u
<1>6. Met(k + 1)[m] = Absent /\ Met(k + 1)[new] = u
  BY <1>1, <1>2, <1>4
<1>7. \A x \in Model : x # m /\ x # new => Met(k + 1)[x] = d[x]
  BY <1>1 DEF Touches
<1>8. QED
  BY <1>1, <1>2, <1>5, <1>6, <1>7, MomentsAre DEF Absent

\* A table given a name without a RENAME had it.
LEMMA RetableActs ==
    ASSUME LeafInv, LeafChain, NEW k, NEW m, NEW t, Retables(k, m, t)
    PROVE  /\ k \in Moments /\ k + 1 \in Moments /\ k \in Nat /\ 1 <= k
           /\ m \in Model /\ t \in Model /\ Met(k)[m].exists
           /\ Met(k + 1)[m].exists
           /\ Rename \notin Statements(k) => Met(k)[m].table = t
<1> DEFINE d == Met(k)
<1>1. /\ k \in Written /\ steps[k].op.name = "AlterModelTable" /\ steps[k].op.model = m /\ steps[k].op.to = t
      /\ Applies(steps[k].op, d) /\ Met(k + 1) = Changed(d, steps[k].op) /\ d \in [Model -> LeafTable]
      /\ d = steps[k].met
  BY NextMoment DEF Retables, Database
<1>2. m \in Model /\ t \in Model /\ d[m].exists /\ d[m] \in LeafTable
  BY <1>1 DEF Applies, OnATable
<1>3. Met(k + 1) = [d EXCEPT ![m].table = t]
  BY <1>1 DEF Changed
<1>4. Met(k + 1)[m].exists
  BY <1>1, <1>2, <1>3 DEF LeafTable
<1>5. ASSUME Rename \notin Statements(k)
      PROVE  d[m].table = t
  <2>1. TableOf(steps[k].met, m) = d[m]
    BY <1>1, <1>2 DEF TableOf
  <2>2. Rename \notin SaidBy(steps[k].op, steps[k].met)
    BY <1>5 DEF Statements, SaidBy
  <2>3. QED
    BY <1>1, <2>1, <2>2, TablesSay
<1>6. QED
  BY <1>1, <1>2, <1>4, <1>5, MomentsAre

\* A pin of a model's rename names the table, of the one model or the other.
Repinned(j, i, m, new, x, t) == j \in Pins(i) /\ j # i /\ x \in {m, new} /\ Retables(j, x, t)

LEMMA ModelPinsAre ==
    ASSUME LeafInv, NEW i, NEW m, NEW new, RenamesModel(i, m, new), NEW j \in Pins(i)
    PROVE  Repinned(j, i, m, new, steps[j].op.model, steps[j].op.to)
BY DEF RenamesModel, Pins, Retabling, Repinned, Retables

\* What a sole rename that moves a table looks for is not the old name.
LEMMA NotPinnedToItself ==
    ASSUME LeafInv, NEW i, Sole(i), NEW m, NEW new, RenamesModel(i, m, new), ModelMoves(i),
           NEW j, NEW x, NEW t, Repinned(j, i, m, new, x, t)
    PROVE  t # m
<1>1. /\ i \in Written /\ j \in Pins(i) /\ steps[j].op.to = t
      /\ steps[i].op.model = m /\ steps[i].op.to = new /\ Pins(i) = Retabling({m, new})
  BY DEF RenamesModel, Repinned, Retables, Pins
<1>2. FirstOf(Pins(i)) = j
  BY <1>1, SolePins, FirstPin
<1>3. QED
  BY <1>1, <1>2 DEF ModelMoves

\* A table that is pinned before it is renamed does not move.
LEMMA NoPinBefore ==
    ASSUME LeafInv, LeafChain, NEW i, Sole(i), NEW m, NEW new, RenamesModel(i, m, new), ModelMoves(i),
           NEW j, NEW x, NEW t, Repinned(j, i, m, new, x, t)
    PROVE  j > i
<1>1. SUFFICES ASSUME ~(j > i)
               PROVE  FALSE
  OBVIOUS
<1>2. /\ i \in Written /\ steps[i].op.model = m /\ steps[i].op.to = new
      /\ i \in Moments /\ i \in Nat /\ m \in Model /\ new \in Model /\ Met(i)[m].exists /\ ~Met(i)[new].exists
  BY RenameModelActs DEF RenamesModel
<1>3. /\ j \in Pins(i) /\ x \in {m, new} /\ j \in Moments /\ j + 1 \in Moments /\ j \in Nat /\ 1 <= j /\ j < i
      /\ Met(j)[x].exists /\ Met(j + 1)[x].exists /\ 1 \in Moments /\ j + 1 <= i
      /\ (Rename \notin Statements(j) => Met(j)[x].table = t)
  BY <1>1, <1>2, RetableActs, MomentsEnd DEF Repinned
<1>4. Rename \notin Statements(j) /\ \A k \in Pins(i) \cup {i} : k = i \/ k = j
  BY <1>1, <1>2, <1>3, SolePins
<1>5. Met(j)[m] = Met(1)[m]
  <2>1. \A k \in Pins(i) \cup {i} : ~(k >= 1 /\ k < j)
    BY <1>2, <1>3, <1>4
  <2>2. QED
    BY <1>2, <1>3, <2>1, SoleStays
<1>6. Met(i)[new] = Met(j + 1)[new]
  <2>1. \A k \in Pins(i) \cup {i} : ~(k >= j + 1 /\ k < i)
    BY <1>2, <1>3, <1>4
  <2>2. QED
    BY <1>2, <1>3, <2>1, SoleStays
<1>7. x = m
  BY <1>2, <1>3, <1>6
<1>8. Met(j)[m].table = m
  BY <1>2, <1>3, <1>5, <1>7 DEF LeafChain
<1>9. QED
  BY <1>3, <1>4, <1>7, <1>8, NotPinnedToItself

\* No table has a name.
Unused(k, n) == \A x \in Model : Met(k)[x].exists => Met(k)[x].table # n

\* The name that a sole rename leaves is not taken again.
LEMMA NameStaysFree ==
    ASSUME LeafInv, LeafChain, NEW i, Sole(i), NEW m, NEW new, RenamesModel(i, m, new), ModelMoves(i),
           NEW k \in Written, k # i, Unused(k, m)
    PROVE  Unused(k + 1, m)
<1>1. SUFFICES ASSUME NEW x \in Model, Met(k + 1)[x].exists, Met(k + 1)[x].table = m
               PROVE  FALSE
  BY DEF Unused
<1>2. i \in Written /\ steps[i].op.model = m /\ steps[i].op.to = new /\ m \in Model /\ new \in Model
  BY RenameModelActs DEF RenamesModel
<1>3. CASE k \notin Pins(i)
  <2>1. {steps[k].op.model, steps[k].op.to} \cap {m, new} \subseteq {NoName}
    BY <1>2, <1>3 DEF Sole
  <2>2. steps[k].op.model # m /\ steps[k].op.to # m
    BY <1>2, <2>1, ModelsHaveNames
  <2>3. QED
    BY <1>1, <1>2, <2>2, TableNameAfter DEF Unused
<1>4. CASE k \in Pins(i)
  <2>1. Repinned(k, i, m, new, steps[k].op.model, steps[k].op.to)
    BY <1>4, ModelPinsAre
  <2>2. steps[k].op.to # m /\ steps[k].op.name = "AlterModelTable"
    BY <2>1, NotPinnedToItself DEF Repinned, Retables
  <2>3. QED
    BY <1>1, <2>2, TableNameAfter DEF Unused
<1>5. QED
  BY <1>3, <1>4

\* A table that is renamed by the one operation on its model is gone (DJM-005).
LEMMA RenamedModelIsGone ==
    ASSUME LeafInv, LeafChain, NEW i, Sole(i), NEW m, NEW new, RenamesModel(i, m, new), ModelMoves(i)
    PROVE  Gone(tables) \cap NamesOf(Met(i)[m]) # {}
<1> DEFINE last == Len(steps) + 1
<1>1. /\ i \in Written /\ i \in Moments /\ i + 1 \in Moments /\ i \in Nat /\ 1 <= i
      /\ m \in Model /\ new \in Model /\ new # m /\ Met(i)[m].exists /\ ~Met(i + 1)[m].exists
      /\ (Met(i)[m].table = m => Met(i + 1)[new].table = new)
      /\ \A x \in Model : x # m /\ x # new => Met(i + 1)[x] = Met(i)[x]
      /\ m \in {steps[i].op.model, steps[i].op.to}
  BY RenameModelActs DEF RenamesModel
<1>2. /\ 1 \in Moments /\ i + 1 <= last /\ last \in Moments /\ last \in Nat /\ Met(last) = tables
  BY <1>1, MomentsAre, MomentsEnd
<1> HIDE DEF last
<1>3. \A k \in Pins(i) \cup {i} : ~(k >= 1 /\ k < i)
  <2>1. \A j \in Pins(i) : j > i /\ j \in Nat
    BY ModelPinsAre, NoPinBefore, RetableActs DEF Repinned
  <2>2. QED
    BY <1>1, <2>1
<1>4. Met(i)[m] = Met(1)[m]
  BY <1>1, <1>2, <1>3, SoleStays
<1>5. Met(i)[m].table = m
  BY <1>1, <1>4 DEF LeafChain
<1>6. <<m>> \in NamesOf(Met(i)[m]) /\ <<m>> \in Running
  BY <1>1, <1>4, <1>5, NamesArePlaces, RunningIsTheFirst DEF Names
<1>7. Unused(i + 1, m)
  <2>1. NoCollision(Met(i))
    BY <1>1 DEF LeafChain
  <2>2. \A x \in Model : x # m /\ x # new /\ Met(i)[x].exists => Met(i)[x].table # m
    BY <1>1, <1>5, <2>1 DEF NoCollision
  <2>3. QED
    BY <1>1, <1>5, <2>2 DEF Unused
<1>8. Unused(last, m)
  <2> DEFINE S == {k \in Moments : Unused(k, m)}
  <2>1. i + 1 \in S
    BY <1>1, <1>7
  <2>2. \A k \in Written : k >= i + 1 /\ k \in S => k + 1 \in S
    BY <1>1, NameStaysFree, MomentsAre
  <2> HIDE DEF S
  <2>3. last \in S
    BY <1>1, <1>2, <2>1, <2>2, MomentsFollow
  <2>4. QED
    BY <2>3 DEF S
<1>9. <<m>> \notin Names(tables)
  <2>1. SUFFICES ASSUME NEW x \in Model, <<m>> \in NamesOf(tables[x])
                 PROVE  FALSE
    BY DEF Names
  <2>2. tables[x].exists /\ <<m>> = <<tables[x].table>>
    BY <2>1, NamesArePlaces DEF Place
  <2>3. QED
    BY <1>2, <1>8, <2>2 DEF Unused
<1>10. QED
  BY <1>6, <1>9 DEF Gone

LEMMA InvMeansReleasesBreakAsReported ==
    ASSUME JoinsHaveNoColumn, LeafInv, LeafChain
    PROVE  ReleasesBreakAsReported
<1>1. SUFFICES ASSUME \A i \in Written : Seen(i)
               PROVE  /\ \A i \in BreakReports : Sole(i) => Gone(tables) \cap NamesOf(steps[i].met[steps[i].op.model]) # {}
                      /\ Gone(tables) # {} => BreakReports # {} \/ \E i \in Written : SaidOrOverlooked(i)
  BY DEF ReleasesBreakAsReported
<1>2. ASSUME NEW i \in BreakReports, Sole(i)
      PROVE  Gone(tables) \cap NamesOf(steps[i].met[steps[i].op.model]) # {}
  <2>1. i \in Written /\ (RemoveFieldBreaksRollingDeploy(i) \/ RenameBreaksRollingDeploy(i)) /\ Met(i) = steps[i].met
    BY <1>2 DEF BreakReports, Met
  <2>2. CASE RemoveFieldBreaksRollingDeploy(i)
    <3>1. Removes(i, steps[i].op.model, steps[i].op.column)
      BY <2>1, <2>2 DEF RemoveFieldBreaksRollingDeploy, Removes
    <3>2. QED
      BY <1>2, <2>1, <3>1, RemovedIsGone
  <2>3. CASE steps[i].op.name = "RenameField" /\ ColumnMoves(i)
    <3>1. Renames(i, steps[i].op.model, steps[i].op.column, steps[i].op.to)
      BY <2>1, <2>3 DEF Renames
    <3>2. QED
      BY <1>1, <1>2, <2>1, <2>3, <3>1, RenamedIsGone
  <2>4. CASE steps[i].op.name = "RenameModel" /\ ModelMoves(i)
    <3>1. RenamesModel(i, steps[i].op.model, steps[i].op.to)
      BY <2>1, <2>4 DEF RenamesModel
    <3>2. QED
      BY <1>2, <2>1, <2>4, <3>1, RenamedModelIsGone
  <2>5. QED
    BY <2>1, <2>2, <2>3, <2>4 DEF RenameBreaksRollingDeploy
<1>3. ASSUME BreakReports = {}, \A i \in Written : ~SaidOrOverlooked(i)
      PROVE  Gone(tables) = {}
  BY <1>1, <1>3, UnremarkedKeepsNames DEF Unremarked
<1>4. QED
  BY <1>2, <1>3

\* Every leaf is a chain of tables.
LEMMA LeafIsAChain == LeafSpec => []LeafChain
<1>1. LeafInit => LeafInv /\ LeafChain
  BY LeafBegins, ChainBegins
<1>2. LeafInv /\ LeafChain /\ [LeafNext]_leafVars => (LeafInv /\ LeafChain)'
  BY LeafKeeps, ChainKeeps
<1>3. QED
  BY <1>1, <1>2, PTL DEF LeafSpec

-----------------------------------------------------------------------------
(* A leaf is written of operations that apply to the tables they meet, of fields that *)
(* are declared as Django has them (Migration.operations).                            *)
THEOREM LeafIsWritten == LeafSpec => []LeafInv
  BY LeafBegins, LeafKeeps, PTL DEF LeafSpec

(* DJM-001 reports what Postgres refuses, DJM-002, DJM-003 and DJM-009 what stops a table *)
(* in service for its length, and nothing else (NonNullableAddFieldWithoutDefault,        *)
(* TableRewritingAlterField, BlockingAddIndex, ValidatedAddConstraint).                   *)
THEOREM TablesAreJudged == LeafSpec => []TablesInServiceAreJudged
  BY LeafIsWritten, InvMeansTablesAreJudged, PTL

(* DJM-010 misses no statement that stops a table in service, and cites one that is *)
(* dangerous (BlockingPendingMigration, live/locks.py).                             *)
THEOREM PendingStallsAreSeen == LeafSpec => []PendingStallsAreReported
  BY LeafIsWritten, InvMeansPendingStallsAreReported, PTL

(* DJM-006, DJM-007 and DJM-008 report what a data pass does to the transaction it runs *)
(* in, to the way back and to memory (IrreversibleDataOperationBlocksRollback,          *)
(* UnboundedQuerysetInDataMigration, SchemaAndDataInOneTransaction).                    *)
THEOREM DataPassesAreSeen == LeafSpec => []DataPassesAreJudged
  BY LeafIsWritten, InvMeansDataPassesAreJudged, PTL

(* DJM-004 and DJM-005 report what leaves the release in production without a name it *)
(* uses, and when it is left without one they or the leaf itself have said so         *)
(* (RemoveFieldBreaksRollingDeploy, RenameBreaksRollingDeploy).                       *)
THEOREM ReleasesAreWarned ==
  ASSUME JoinsHaveNoColumn
  PROVE  LeafSpec => []ReleasesBreakAsReported
<1>1. LeafInv /\ LeafChain => ReleasesBreakAsReported
  BY InvMeansReleasesBreakAsReported
<1>2. QED
  BY <1>1, LeafIsWritten, LeafIsAChain, PTL

-----------------------------------------------------------------------------
(* The files, and the order of the plan (MigrationPlan).                     *)

\* Keys are in a strict order.
LEMMA KeysDiffer ==
  /\ \A k \in Key : ~KeyBefore(k, k)
  /\ \A k, l \in Key : k = l \/ KeyBefore(k, l) \/ KeyBefore(l, k)
  /\ \A k, l, m \in Key : KeyBefore(k, l) /\ KeyBefore(l, m) => KeyBefore(k, m)
<1>1. \A k \in Key : k.app \in Nat /\ k.number \in Nat /\ k = [app |-> k.app, number |-> k.number]
  BY KeysAreOrdered
<1>2. \A k \in Key : ~KeyBefore(k, k)
  BY <1>1 DEF KeyBefore
<1>3. \A k, l \in Key : k = l \/ KeyBefore(k, l) \/ KeyBefore(l, k)
  BY <1>1 DEF KeyBefore
<1>4. \A k, l, m \in Key : KeyBefore(k, l) /\ KeyBefore(l, m) => KeyBefore(k, m)
  BY <1>1 DEF KeyBefore
<1>. QED
  BY <1>2, <1>3, <1>4

\* There are finitely many.
LEMMA KeysAreFinite ==
  ASSUME NEW S \in SUBSET Key
  PROVE  IsFiniteSet(S) /\ Cardinality(S) \in Nat
BY KeysAreOrdered, FS_Subset, FS_CardinalityType

\* Of any keys one is the last: the one that most of them come before.
LEMMA LastExists ==
  ASSUME NEW S \in SUBSET Key, S # {}
  PROVE  \E k \in S : \A l \in S : l = k \/ KeyBefore(l, k)
<1> DEFINE Above(k) == {l \in S : KeyBefore(k, l)}
           Left == {n \in Nat : \E k \in S : n = Cardinality(Above(k))}
<1>1. \A k \in S : Above(k) \in SUBSET S /\ Above(k) \in SUBSET Key
  OBVIOUS
<1>2. \A k \in S : IsFiniteSet(Above(k)) /\ Cardinality(Above(k)) \in Nat
  BY <1>1, KeysAreFinite
<1>3. \A k, l \in S : KeyBefore(k, l) => Above(l) \in SUBSET Above(k) /\ l \in Above(k) /\ l \notin Above(l)
  BY KeysDiffer
<1> HIDE DEF Above
<1>4. Left \in SUBSET Nat /\ Left # {}
  BY <1>2
<1>5. PICK m \in Left : \A n \in Left : m <= n
  BY <1>4, LeastExists
<1>6. PICK k \in S : m = Cardinality(Above(k))
  BY <1>5
<1>7. ASSUME NEW l \in S, KeyBefore(k, l) PROVE FALSE
  <2>1. Above(l) \in SUBSET Above(k) /\ Above(l) # Above(k) /\ IsFiniteSet(Above(k))
    BY <1>2, <1>3, <1>7
  <2>2. Cardinality(Above(l)) <= Cardinality(Above(k)) /\ Cardinality(Above(l)) # Cardinality(Above(k))
    BY <2>1, FS_Subset
  <2>3. Cardinality(Above(l)) \in Left
    BY <1>2
  <2>4. m <= Cardinality(Above(l)) /\ m \in Nat /\ Cardinality(Above(l)) \in Nat
    BY <1>2, <1>5, <2>3
  <2>5. QED
    BY <1>6, <2>2, <2>4
<1>. QED
  BY <1>7, KeysDiffer

InOrder(s) == \A i, j \in DOMAIN s : i < j => KeyBefore(s[i], s[j])

\* Any keys can be put in order,
LEMMA OrderExists ==
  ASSUME NEW S \in SUBSET Key
  PROVE  \E s \in [1 .. Cardinality(S) -> S] : InOrder(s) /\ S = {s[i] : i \in DOMAIN s}
<1> DEFINE Ordered(T, s) == s \in [1 .. Cardinality(T) -> T] /\ InOrder(s) /\ T = {s[i] : i \in DOMAIN s}
           Unordered(R) == ~\E s : Ordered(R, s)
           T == {n \in Nat : \E R \in SUBSET Key : Cardinality(R) = n /\ Unordered(R)}
<1>1. Cardinality(S) \in Nat
  BY KeysAreFinite
<1>2. T \in SUBSET Nat
  OBVIOUS
<1> SUFFICES ASSUME T # {} PROVE FALSE
  <2>1. CASE T = {}
    <3> HIDE DEF Unordered
    <3>1. ~Unordered(S)
      BY <1>1, <2>1
    <3>2. QED
      BY <3>1 DEF Unordered
  <2>2. QED
    BY <2>1
<1> HIDE DEF T
<1>20. PICK n \in T : \A m \in T : n <= m
  BY <1>2, LeastExists
<1> USE DEF T
<1> HIDE DEF Unordered
<1>3. PICK R \in SUBSET Key : Cardinality(R) = n /\ Unordered(R)
  BY <1>20
<1> USE DEF Unordered
<1>4. R # {}
  <2> SUFFICES ASSUME R = {} PROVE FALSE
    OBVIOUS
  <2>1. n = 0
    BY <1>3, FS_EmptySet
  <2>2. Ordered(R, [i \in 1 .. 0 |-> 0])
    BY <1>3, <2>1 DEF InOrder
  <2>3. QED
    BY <1>3, <2>2
<1>5. PICK k \in R : \A l \in R : l = k \/ KeyBefore(l, k)
  BY <1>4, LastExists
<1> DEFINE Q == R \ {k}
<1>6. Q \in SUBSET Key /\ n \in Nat /\ n > 0 /\ Cardinality(Q) = n - 1
  BY <1>3, <1>4, KeysAreFinite, FS_RemoveElement, FS_EmptySet
<1>7. PICK s : Ordered(Q, s)
  <2>1. n - 1 \in Nat /\ ~(n <= n - 1)
    BY <1>6
  <2>2. n - 1 \notin T
    BY <1>20, <2>1
  <2>3. QED
    BY <1>6, <2>1, <2>2
<1> HIDE DEF Q
<1> DEFINE t == [i \in 1 .. n |-> IF i = n THEN k ELSE s[i]]
<1>8. 1 .. n = (1 .. (n - 1)) \cup {n} /\ n \notin 1 .. (n - 1)
  BY <1>6
<1>9. DOMAIN s = 1 .. (n - 1) /\ Q = {s[i] : i \in 1 .. (n - 1)}
  BY <1>6, <1>7
<1>10. /\ DOMAIN t = 1 .. n /\ t[n] = k
       /\ \A i \in 1 .. (n - 1) : t[i] = s[i] /\ s[i] \in Q
  BY <1>6, <1>8, <1>9
<1> HIDE DEF t
<1>11. {t[i] : i \in DOMAIN t} = Q \cup {k}
  BY <1>8, <1>9, <1>10
<1>12. Q \cup {k} = R
  BY DEF Q
<1>13. InOrder(t)
  <2> SUFFICES ASSUME NEW i \in 1 .. n, NEW j \in 1 .. n, i < j
               PROVE  KeyBefore(t[i], t[j])
    BY <1>10 DEF InOrder
  <2>1. i \in 1 .. (n - 1)
    BY <1>6
  <2>2. CASE j = n
    BY <1>5, <1>10, <2>1, <2>2 DEF Q
  <2>3. CASE j \in 1 .. (n - 1)
    BY <1>7, <1>9, <1>10, <2>1, <2>3 DEF InOrder
  <2>4. QED
    BY <1>8, <2>2, <2>3
<1>14. t \in [1 .. n -> R]
  BY <1>10, <1>11, <1>12 DEF t
<1>15. QED
  BY <1>3, <1>11, <1>12, <1>13, <1>14

\* and in one way only; that is how they are sorted.
LEMMA SortedIs ==
  ASSUME NEW S \in SUBSET Key
  PROVE  /\ Sorted(S) \in Seq(S) /\ Len(Sorted(S)) \in Nat
         /\ S = {Sorted(S)[i] : i \in 1 .. Len(Sorted(S))}
         /\ \A i, j \in 1 .. Len(Sorted(S)) : Sorted(S)[i] = Sorted(S)[j] => i = j
         /\ S = {} => Sorted(S) = <<>>
<1> DEFINE n == Cardinality(S)
           s == Sorted(S)
<1>1. n \in Nat /\ IsFiniteSet(S)
  BY KeysAreFinite
<1>2. s \in [1 .. n -> S] /\ InOrder(s)
  BY OrderExists DEF Sorted, InOrder
<1>3. s \in Seq(S) /\ Len(s) = n /\ DOMAIN s = 1 .. n
  BY <1>1, <1>2
<1> HIDE DEF s
<1>4. \A i, j \in 1 .. n : s[i] = s[j] => i = j
  BY <1>2, <1>3, KeysDiffer DEF InOrder
<1>5. s \in Injection(1 .. n, S)
  BY <1>2, <1>4 DEF Injection, IsInjective
<1>6. Cardinality(1 .. n) = n /\ IsFiniteSet(1 .. n)
  BY <1>1, FS_Interval
<1>7. s \in Surjection(1 .. n, S)
  BY <1>1, <1>5, <1>6, FS_Injection
<1>8. S = {s[i] : i \in 1 .. n}
  BY <1>2, <1>7 DEF Surjection
<1>9. S = {} => s = <<>>
  BY <1>1, <1>3, FS_EmptySet
<1>10. QED
  BY <1>1, <1>3, <1>4, <1>8, <1>9 DEF s

(* Files are of keys; what a migration replaces came before it, and what that needed, it needs. *)
PlanInv ==
  /\ Files \subseteq Key
  /\ history \in [Files -> [needs : SUBSET Key, read : SUBSET Key, replaces : SUBSET Key]]
  /\ \A k \in Files : history[k].read \subseteq history[k].needs
  /\ \A k \in Files : \A l \in history[k].replaces : l.app = k.app /\ KeyBefore(l, k)
  /\ \A k \in Files : \A l \in history[k].replaces \cap Files : history[l].needs \ history[k].replaces \subseteq history[k].needs

\* What replaces a migration last is a later file of the same app.
LEMMA ReplacementIs ==
  ASSUME PlanInv, NEW k \in Key, Replacing(k) # {}
  PROVE  /\ Replacement(k) \in Replacing(k) /\ Replacement(k) \in Files /\ Replacement(k) \in Key
         /\ KeyBefore(k, Replacement(k)) /\ Replacement(k).app = k.app
         /\ \A t \in Replacing(k) : t = Replacement(k) \/ KeyBefore(t, Replacement(k))
<1>1. Replacing(k) \in SUBSET Key
  BY DEF Replacing, PlanInv
<1>2. \E s \in Replacing(k) : \A t \in Replacing(k) : t = s \/ KeyBefore(t, s)
  BY <1>1, LastExists
<1>3. /\ Replacement(k) \in Replacing(k)
      /\ \A t \in Replacing(k) : t = Replacement(k) \/ KeyBefore(t, Replacement(k))
  BY <1>2 DEF Replacement
<1> HIDE DEF Replacement
<1>4. Replacement(k) \in Files /\ k \in history[Replacement(k)].replaces
  BY <1>3 DEF Replacing
<1>5. QED
  BY <1>1, <1>3, <1>4 DEF PlanInv

(* One step along the names, and the names a walk of n steps at most begins at. *)
FollowStep(f, p) == IF Replacing(p[1]) = {} \/ p[1] \in p[2] THEN p[1] ELSE f[<<Replacement(p[1]), p[2] \cup {p[1]}>>]
WithUnseen(n) == {p \in Key \X SUBSET Key : Cardinality(Key \ p[2]) <= n}
FollowsUpTo(n, f) == f = [p \in WithUnseen(n) |-> FollowStep(f, p)]

\* Each step sees one migration more.
LEMMA SeeingMore ==
  ASSUME PlanInv, NEW k \in Key, NEW seen \in SUBSET Key, Replacing(k) # {}, k \notin seen
  PROVE  /\ <<Replacement(k), seen \cup {k}>> \in Key \X SUBSET Key
         /\ Cardinality(Key \ seen) \in Nat /\ Cardinality(Key \ (seen \cup {k})) \in Nat
         /\ Cardinality(Key \ (seen \cup {k})) = Cardinality(Key \ seen) - 1
<1>1. Replacement(k) \in Key
  BY ReplacementIs
<1>2. Key \ seen \in SUBSET Key /\ Key \ (seen \cup {k}) = (Key \ seen) \ {k} /\ k \in Key \ seen
  OBVIOUS
<1>3. IsFiniteSet(Key \ seen) /\ Cardinality(Key \ seen) \in Nat
  BY <1>2, KeysAreFinite
<1>4. Cardinality((Key \ seen) \ {k}) = Cardinality(Key \ seen) - 1 /\ Cardinality((Key \ seen) \ {k}) \in Nat
  BY <1>2, <1>3, FS_RemoveElement, KeysAreFinite
<1>5. QED
  BY <1>1, <1>2, <1>3, <1>4

\* So the names can be followed, however many there are;
LEMMA FollowsAreThere ==
  ASSUME PlanInv, NEW n \in Nat
  PROVE  \E f : FollowsUpTo(n, f)
<1> DEFINE Lost(m) == ~\E f : FollowsUpTo(m, f)
           T == {m \in Nat : Lost(m)}
<1> HIDE DEF Lost
<1>1. T \in SUBSET Nat
  OBVIOUS
<1> SUFFICES ASSUME T # {} PROVE FALSE
  BY DEF Lost
<1>2. PICK m \in T : \A l \in T : m <= l
  BY <1>1, LeastExists
<1>3. m \in Nat /\ Lost(m)
  BY <1>2
<1>4. \A p \in WithUnseen(m) : /\ p[1] \in Key /\ p[2] \in SUBSET Key /\ p = <<p[1], p[2]>>
                           /\ Cardinality(Key \ p[2]) \in Nat /\ Cardinality(Key \ p[2]) <= m
  <2>1. \A p \in WithUnseen(m) : Key \ p[2] \in SUBSET Key
    OBVIOUS
  <2>2. QED
    BY <2>1, KeysAreFinite DEF WithUnseen
<1>5. CASE m = 0
  <2> DEFINE f == [p \in WithUnseen(0) |-> p[1]]
  <2>1. ASSUME NEW p \in WithUnseen(0) PROVE p[1] \in p[2]
    <3>1. p[1] \in Key /\ Key \ p[2] \in SUBSET Key /\ Cardinality(Key \ p[2]) = 0
      BY <1>4, <1>5
    <3>2. Key \ p[2] = {}
      BY <3>1, KeysAreFinite, FS_EmptySet
    <3>3. QED
      BY <3>1, <3>2
  <2>2. \A p \in WithUnseen(0) : FollowStep(f, p) = p[1]
    BY <2>1 DEF FollowStep
  <2>3. FollowsUpTo(0, f)
    BY <2>2 DEF FollowsUpTo
  <2>4. QED
    BY <1>3, <1>5, <2>3 DEF Lost
<1>6. CASE m # 0
  <2>1. m - 1 \in Nat /\ ~(m <= m - 1)
    BY <1>3, <1>6
  <2>2. ~Lost(m - 1)
    BY <1>2, <2>1
  <2>3. PICK f : FollowsUpTo(m - 1, f)
    BY <2>2 DEF Lost
  <2> DEFINE g == [p \in WithUnseen(m) |-> FollowStep(f, p)]
  <2>4. \A p \in WithUnseen(m - 1) : p \in WithUnseen(m)
    <3>1. \A p \in Key \X SUBSET Key : Key \ p[2] \in SUBSET Key
      OBVIOUS
    <3>2. QED
      BY <1>3, <3>1, KeysAreFinite DEF WithUnseen
  <2>5. \A p \in WithUnseen(m - 1) : f[p] = FollowStep(f, p)
    BY <2>3 DEF FollowsUpTo
  <2>6. \A p \in WithUnseen(m - 1) : g[p] = f[p]
    BY <2>4, <2>5
  <2>7. ASSUME NEW p \in WithUnseen(m), Replacing(p[1]) # {}, p[1] \notin p[2]
        PROVE  g[<<Replacement(p[1]), p[2] \cup {p[1]}>>] = f[<<Replacement(p[1]), p[2] \cup {p[1]}>>]
    <3>1. <<Replacement(p[1]), p[2] \cup {p[1]}>> \in Key \X SUBSET Key
      BY <1>4, <2>7, SeeingMore
    <3> DEFINE here == Cardinality(Key \ p[2])
               there == Cardinality(Key \ (p[2] \cup {p[1]}))
    <3>5. here \in Nat /\ here <= m
      BY <1>4
    <3>6. there \in Nat /\ there = here - 1
      BY <1>4, <2>7, SeeingMore
    <3> HIDE DEF here, there
    <3>7. there <= m - 1
      BY <1>3, <3>5, <3>6
    <3>2. Cardinality(Key \ (p[2] \cup {p[1]})) <= m - 1
      BY <3>7 DEF there
    <3>3. <<Replacement(p[1]), p[2] \cup {p[1]}>> \in WithUnseen(m - 1)
      BY <3>1, <3>2 DEF WithUnseen
    <3>4. QED
      BY <2>6, <3>3
  <2> HIDE DEF g
  <2>8. \A p \in WithUnseen(m) : FollowStep(g, p) = FollowStep(f, p)
    BY <2>7 DEF FollowStep
  <2>9. FollowsUpTo(m, g)
    BY <2>8 DEF FollowsUpTo, g
  <2>10. QED
    BY <1>3, <2>9 DEF Lost
<1>7. QED
  BY <1>5, <1>6

\* and a name is followed a step at a time.
LEMMA FollowIs ==
  ASSUME PlanInv, NEW k \in Key, NEW seen \in SUBSET Key
  PROVE  Follow[<<k, seen>>] = IF Replacing(k) = {} \/ k \in seen THEN k ELSE Follow[<<Replacement(k), seen \cup {k}>>]
<1> DEFINE n == Cardinality(Key)
<1>1. n \in Nat
  BY KeysAreFinite
<1>2. PICK f : FollowsUpTo(n, f)
  BY <1>1, FollowsAreThere
<1>3. WithUnseen(n) = Key \X SUBSET Key
  <2>1. \A p \in Key \X SUBSET Key : Key \ p[2] \in SUBSET Key
    OBVIOUS
  <2>2. \A p \in Key \X SUBSET Key : Cardinality(Key \ p[2]) <= n
    BY <2>1, KeysAreOrdered, FS_Subset
  <2>3. QED
    BY <2>2 DEF WithUnseen
<1>4. f = [p \in Key \X SUBSET Key |-> FollowStep(f, p)]
  BY <1>2, <1>3 DEF FollowsUpTo
<1>5. Follow = [p \in Key \X SUBSET Key |-> FollowStep(Follow, p)]
  BY <1>4 DEF Follow, FollowStep
<1> HIDE DEF Follow
<1>6. <<k, seen>> \in Key \X SUBSET Key
  OBVIOUS
<1>7. Follow[<<k, seen>>] = FollowStep(Follow, <<k, seen>>)
  BY <1>5, <1>6
<1>8. QED
  BY <1>7 DEF FollowStep

(* Where following k may end. *)
EndsUpAt(k, c) == /\ c \in Key /\ c.app = k.app /\ Replacing(c) = {}
                  /\ c = k \/ (KeyBefore(k, c) /\ c \in Files)

\* Names lead forward: what was seen on the way does not matter, and the end is a name of the app that nothing replaces.
LEMMA FollowLeadsForward ==
  ASSUME PlanInv, NEW k \in Key, NEW seen \in SUBSET Key, \A l \in seen : KeyBefore(l, k)
  PROVE  Follow[<<k, seen>>] = canonical(k) /\ EndsUpAt(k, canonical(k))
<1> DEFINE Good(l) == \A past \in SUBSET Key : (\A m \in past : KeyBefore(m, l)) =>
                        Follow[<<l, past>>] = canonical(l) /\ EndsUpAt(l, canonical(l))
           S == {l \in Key : ~Good(l)}
<1> HIDE DEF Good
<1> SUFFICES ASSUME S # {} PROVE FALSE
  BY DEF Good
<1>1. S \in SUBSET Key
  OBVIOUS
<1>2. PICK l \in S : \A m \in S : m = l \/ KeyBefore(m, l)
  BY <1>1, LastExists
<1>3. l \in Key /\ ~Good(l)
  BY <1>2
<1>4. ASSUME NEW past \in SUBSET Key, \A m \in past : KeyBefore(m, l)
      PROVE  Follow[<<l, past>>] = canonical(l) /\ EndsUpAt(l, canonical(l))
  <2>1. l \notin past
    BY <1>3, <1>4, KeysDiffer
  <2>2. {} \in SUBSET Key /\ l \notin {}
    OBVIOUS
  <2>3. CASE Replacing(l) = {}
    <3>1. Follow[<<l, past>>] = l /\ Follow[<<l, {}>>] = l
      BY <1>3, <2>2, <2>3, FollowIs
    <3>2. QED
      BY <1>3, <2>3, <3>1 DEF EndsUpAt, canonical
  <2>4. CASE Replacing(l) # {}
    <3> DEFINE r == Replacement(l)
    <3>1. r \in Key /\ r \in Files /\ KeyBefore(l, r) /\ r.app = l.app
      BY <1>3, <2>4, ReplacementIs
    <3>2. /\ Follow[<<l, past>>] = Follow[<<r, past \cup {l}>>]
          /\ Follow[<<l, {}>>] = Follow[<<r, {} \cup {l}>>]
      BY <1>3, <2>1, <2>2, <2>4, FollowIs
    <3> HIDE DEF r
    <3>3. Good(r)
      <4>1. r # l /\ ~KeyBefore(r, l)
        BY <1>3, <3>1, KeysDiffer
      <4>2. QED
        BY <1>2, <3>1, <4>1
    <3>4. past \cup {l} \in SUBSET Key /\ \A m \in past \cup {l} : KeyBefore(m, r)
      BY <1>3, <1>4, <3>1, KeysDiffer
    <3>5. {} \cup {l} \in SUBSET Key /\ \A m \in {} \cup {l} : KeyBefore(m, r)
      BY <1>3, <3>1
    <3>6. /\ Follow[<<r, past \cup {l}>>] = canonical(r) /\ EndsUpAt(r, canonical(r))
          /\ Follow[<<r, {} \cup {l}>>] = canonical(r)
      BY <3>3, <3>4, <3>5 DEF Good
    <3>7. Follow[<<l, past>>] = canonical(l) /\ canonical(l) = canonical(r)
      BY <3>2, <3>6 DEF canonical
    <3>8. EndsUpAt(l, canonical(r))
      BY <1>3, <3>1, <3>6, KeysDiffer DEF EndsUpAt
    <3>9. QED
      BY <3>7, <3>8
  <2>5. QED
    BY <2>3, <2>4
<1>5. QED
  BY <1>3, <1>4 DEF Good

\* So a name stands for itself, or for what its replacement stands for.
LEMMA CanonicalIs ==
  ASSUME PlanInv, NEW k \in Key
  PROVE  /\ Replacing(k) = {} => canonical(k) = k
         /\ Replacing(k) # {} => canonical(k) = canonical(Replacement(k))
         /\ EndsUpAt(k, canonical(k))
<1>1. {} \in SUBSET Key /\ \A l \in {} : KeyBefore(l, k)
  OBVIOUS
<1>2. EndsUpAt(k, canonical(k))
  BY <1>1, FollowLeadsForward
<1>3. ASSUME Replacing(k) = {} PROVE canonical(k) = k
  BY <1>1, <1>3, FollowIs DEF canonical
<1>4. ASSUME Replacing(k) # {} PROVE canonical(k) = canonical(Replacement(k))
  <2>1. Replacement(k) \in Key /\ KeyBefore(k, Replacement(k))
    BY <1>4, ReplacementIs
  <2>2. canonical(k) = Follow[<<Replacement(k), {} \cup {k}>>]
    BY <1>1, <1>4, FollowIs DEF canonical
  <2>3. {} \cup {k} \in SUBSET Key /\ \A l \in {} \cup {k} : KeyBefore(l, Replacement(k))
    BY <2>1
  <2>4. QED
    BY <2>1, <2>2, <2>3, FollowLeadsForward
<1>5. QED
  BY <1>2, <1>3, <1>4

\* A file's name leads to a file that is loaded, itself when it is loaded.
LEMMA FilesAreLoadedAs ==
  ASSUME PlanInv, NEW k \in Files
  PROVE  /\ canonical(k) \in Loaded /\ (k \in Loaded => canonical(k) = k)
         /\ canonical(k).app = k.app
<1>1. k \in Key /\ EndsUpAt(k, canonical(k)) /\ canonical(k) \in Files
  BY CanonicalIs DEF PlanInv, EndsUpAt
<1>2. QED
  BY <1>1, CanonicalIs DEF Loaded, superseded, EndsUpAt

\* Uncontested, what a squash replaces leads where it does;
LEMMA ReplacedLeadsOn ==
  ASSUME PlanInv, ~Contested, NEW s \in Files, NEW l \in history[s].replaces
  PROVE  canonical(l) = canonical(s)
<1> DEFINE Good(k) == \A m \in history[k].replaces : canonical(m) = canonical(k)
           S == {k \in Files : ~Good(k)}
<1> HIDE DEF Good
<1> SUFFICES ASSUME S # {} PROVE FALSE
  BY DEF Good
<1>1. S \in SUBSET Key
  BY DEF PlanInv
<1>2. PICK k \in S : \A m \in S : m = k \/ KeyBefore(m, k)
  BY <1>1, LastExists
<1>3. k \in Files /\ k \in Key /\ ~Good(k)
  BY <1>1, <1>2
<1>4. ASSUME NEW m \in history[k].replaces
      PROVE  canonical(m) = canonical(k)
  <2> DEFINE r == Replacement(m)
  <2>1. m \in Key /\ k \in Replacing(m)
    BY <1>3 DEF PlanInv, Replacing
  <2>2. /\ r \in Key /\ r \in Files /\ m \in history[r].replaces
        /\ k = r \/ KeyBefore(k, r)
        /\ canonical(m) = canonical(r)
    BY <2>1, ReplacementIs, CanonicalIs DEF Replacing
  <2> HIDE DEF r
  <2>3. CASE KeyBefore(k, r)
    <3>1. k \in history[r].replaces
      BY <1>3, <1>4, <2>2, <2>3 DEF Contested
    <3>2. r # k /\ ~KeyBefore(r, k)
      BY <1>3, <2>2, <2>3, KeysDiffer
    <3>3. Good(r)
      BY <1>2, <2>2, <3>2
    <3>4. QED
      BY <2>2, <3>1, <3>3 DEF Good
  <2>4. QED
    BY <2>2, <2>3
<1>5. QED
  BY <1>3, <1>4 DEF Good

\* and what a file needs, what it leads to needs, by some name, or is.
LEMMA NeedsAreKept ==
  ASSUME PlanInv, ~Contested, NEW f \in Files, NEW e \in history[f].needs
  PROVE  \/ canonical(e) = canonical(f)
         \/ \E d \in history[canonical(f)].needs : canonical(d) = canonical(e)
<1> DEFINE Good(k) == \A m \in history[k].needs :
                        \/ canonical(m) = canonical(k)
                        \/ \E d \in history[canonical(k)].needs : canonical(d) = canonical(m)
           S == {k \in Files : ~Good(k)}
<1> HIDE DEF Good
<1> SUFFICES ASSUME S # {} PROVE FALSE
  BY DEF Good
<1>1. S \in SUBSET Key
  BY DEF PlanInv
<1>2. PICK k \in S : \A m \in S : m = k \/ KeyBefore(m, k)
  BY <1>1, LastExists
<1>3. k \in Files /\ k \in Key /\ ~Good(k)
  BY <1>1, <1>2
<1>4. CASE Replacing(k) = {}
  BY <1>3, <1>4, CanonicalIs DEF Good
<1>5. CASE Replacing(k) # {}
  <2> DEFINE r == Replacement(k)
  <2>1. /\ r \in Key /\ r \in Files /\ k \in history[r].replaces /\ KeyBefore(k, r)
        /\ canonical(k) = canonical(r)
    BY <1>3, <1>5, ReplacementIs, CanonicalIs DEF Replacing
  <2> HIDE DEF r
  <2>2. r # k /\ ~KeyBefore(r, k)
    BY <1>3, <2>1, KeysDiffer
  <2>3. Good(r)
    BY <1>2, <2>1, <2>2
  <2>4. history[k].needs \ history[r].replaces \subseteq history[r].needs
    BY <1>3, <2>1 DEF PlanInv
  <2>5. ASSUME NEW m \in history[k].needs
        PROVE  \/ canonical(m) = canonical(k)
               \/ \E d \in history[canonical(k)].needs : canonical(d) = canonical(m)
    <3>1. CASE m \in history[r].replaces
      BY <2>1, <3>1, ReplacedLeadsOn
    <3>2. CASE m \in history[r].needs
      BY <2>1, <2>3, <3>2 DEF Good
    <3>3. QED
      BY <2>4, <3>1, <3>2
  <2>6. QED
    BY <1>3, <2>5 DEF Good
<1>6. QED
  BY <1>4, <1>5

\* The names of what is needed are followed as the others are.
LEMMA NeedsAre ==
  Needs = {p \in UNION {{<<canonical(f), canonical(e)>> : e \in history[f].needs} : f \in Files} :
             p[2] \in Loaded /\ p[1] # p[2]}
BY DEF Needs, canonical

\* What a migration waits for is needed;
LEMMA PendingIsNeeded ==
  ASSUME PlanInv
  PROVE  /\ DOMAIN Pending = Loaded
         /\ \A k \in Loaded : Pending[k] \in SUBSET Loaded /\ \A d \in Pending[k] : d # k /\ <<k, d>> \in Needs
         /\ \A k \in Loaded : Pending[k] = dependencies_of(k) \cap Loaded
<1>1. DOMAIN Pending = Loaded /\ \A k \in Loaded : Pending[k] = dependencies_of(k) \cap Loaded
  BY DEF Pending, Loaded
<1>2. ASSUME NEW k \in Loaded, NEW d \in Pending[k]
      PROVE  d # k /\ <<k, d>> \in Needs
  <2>1. k \in Files
    BY DEF Loaded
  <2>2. PICK e \in history[k].read : d = canonical(e) /\ d \in Loaded /\ d # k
    BY <1>1 DEF dependencies_of
  <2>3. e \in history[k].needs /\ canonical(k) = k
    BY <2>1, FilesAreLoadedAs DEF PlanInv
  <2>4. <<k, d>> \in {<<canonical(k), canonical(x)>> : x \in history[k].needs}
    BY <2>2, <2>3
  <2>5. QED
    BY <2>1, <2>2, <2>4, NeedsAre
<1>3. QED
  BY <1>1, <1>2

\* and when all is known, it is all that is.
LEMMA NeededIsPending ==
  ASSUME PlanInv, ~Contested, unresolved = {}, NEW k, NEW d, <<k, d>> \in Needs
  PROVE  k \in Loaded /\ d \in Pending[k]
<1>1. PICK f \in Files : \E e \in history[f].needs : <<k, d>> = <<canonical(f), canonical(e)>>
  BY NeedsAre
<1>2. PICK e \in history[f].needs : k = canonical(f) /\ d = canonical(e)
  BY <1>1
<1>3. d \in Loaded /\ k # d
  BY DEF Needs
<1>4. k \in Loaded /\ k \in Files /\ canonical(k) = k
  BY <1>2, FilesAreLoadedAs DEF Loaded
<1>5. PICK x \in history[k].needs : canonical(x) = d
  BY <1>2, <1>3, NeedsAreKept
<1>6. x \in history[k].read
  BY <1>4, <1>5 DEF unresolved
<1>7. d \in dependencies_of(k)
  BY <1>3, <1>5, <1>6 DEF dependencies_of, Loaded
<1>8. QED
  BY <1>3, <1>4, <1>7, PendingIsNeeded

(* The rounds of _discharge. *)
First == [ordered |-> <<>>, pending |-> Pending]
AreRounds(n, at) ==
  at = [i \in 0 .. n |-> IF i = 0 THEN First ELSE Discharge(at[i - 1].ordered, at[i - 1].pending)]

\* There are rounds, however many are asked for;
LEMMA RoundsAreThere ==
  ASSUME NEW n \in Nat
  PROVE  \E at : AreRounds(n, at)
<1> DEFINE Then(s) == Discharge(s.ordered, s.pending)
           T == {k \in Nat : ~\E at : AreRounds(k, at)}
<1>1. 0 \notin T
  <2> DEFINE at == [i \in 0 .. 0 |-> First]
  <2>1. AreRounds(0, at)
    BY DEF AreRounds
  <2>2. QED
    BY <2>1
<1>2. \A k \in Nat \ {0} : k - 1 \notin T => k \notin T
  <2> SUFFICES ASSUME NEW k \in Nat \ {0}, NEW before, AreRounds(k - 1, before)
               PROVE  \E at : AreRounds(k, at)
    OBVIOUS
  <2> DEFINE at == [i \in 0 .. k |-> IF i = k THEN Then(before[k - 1]) ELSE before[i]]
  <2>1. before = [i \in 0 .. (k - 1) |-> IF i = 0 THEN First ELSE Then(before[i - 1])]
    BY DEF AreRounds
  <2> HIDE DEF Then
  <2>2. \A i \in 0 .. (k - 1) : before[i] = IF i = 0 THEN First ELSE Then(before[i - 1])
    BY <2>1
  <2>3. \A i \in 0 .. k : at[i] = IF i = 0 THEN First ELSE Then(at[i - 1])
    <3>1. at[k] = Then(before[k - 1]) /\ \A i \in 0 .. (k - 1) : at[i] = before[i]
      OBVIOUS
    <3>2. \A i \in 0 .. k : i = k \/ (i \in 0 .. (k - 1) /\ (i # 0 => i - 1 \in 0 .. (k - 1)))
      OBVIOUS
    <3>3. k - 1 \in 0 .. (k - 1) /\ k # 0
      OBVIOUS
    <3> HIDE DEF at
    <3>4. QED
      BY <2>2, <3>1, <3>2, <3>3
  <2>4. AreRounds(k, at)
    BY <2>3 DEF AreRounds, Then
  <2>5. QED
    BY <2>4
<1>3. T = {}
  <2> SUFFICES ASSUME T # {} PROVE FALSE
    OBVIOUS
  <2> HIDE DEF T
  <2>1. T \in SUBSET Nat
    BY DEF T
  <2>2. PICK k \in T : \A m \in T : k <= m
    BY <2>1, LeastExists
  <2>3. k \in Nat \ {0}
    BY <1>1, <2>1, <2>2
  <2>4. QED
    BY <1>2, <2>2, <2>3
<1>4. QED
  BY <1>3

\* each following on the last.
LEMMA RoundsAre ==
  ASSUME PlanInv
  PROVE  LET n == Cardinality(Files) IN
         /\ n \in Nat /\ Round[0] = First
         /\ \A i \in 1 .. n : Round[i] = Discharge(Round[i - 1].ordered, Round[i - 1].pending)
<1> DEFINE n == Cardinality(Files)
<1>1. n \in Nat
  BY KeysAreFinite DEF PlanInv
<1>2. \E at : AreRounds(n, at)
  BY <1>1, RoundsAreThere
<1>3. AreRounds(n, Round)
  BY <1>2 DEF Round, AreRounds, First
<1> HIDE DEF n
<1>4. \A i \in 0 .. n : Round[i] = IF i = 0 THEN First ELSE Discharge(Round[i - 1].ordered, Round[i - 1].pending)
  BY <1>3 DEF AreRounds
<1>5. 0 \in 0 .. n /\ \A i \in 1 .. n : i \in 0 .. n /\ i # 0
  BY <1>1
<1>6. QED
  BY <1>1, <1>4, <1>5 DEF n

-----------------------------------------------------------------------------
(* The list of a set: each of its members once. *)
Lists(s, S) ==
  /\ s \in Seq(S) /\ Len(s) \in Nat /\ DOMAIN s = 1 .. Len(s)
  /\ S = {s[i] : i \in 1 .. Len(s)}
  /\ \A i, j \in 1 .. Len(s) : s[i] = s[j] => i = j

Joined(s, T, all) ==
  /\ \A i \in 1 .. Len(s) : i \in 1 .. Len(all) /\ all[i] = s[i]
  /\ \A i \in 1 .. Len(all) : i \in 1 .. Len(s) \/ (i > Len(s) /\ all[i] \in T)

\* A list of some and a list of others, joined, list them all.
LEMMA JoinedLists ==
  ASSUME NEW S, NEW T, S \cap T = {}, NEW s, NEW t, Lists(s, S), Lists(t, T)
  PROVE  Lists(s \o t, S \cup T) /\ Joined(s, T, s \o t)
<1>1. s \in Seq(S \cup T) /\ t \in Seq(S \cup T) /\ Len(s) \in Nat /\ Len(t) \in Nat
  BY DEF Lists
<1>2. /\ s \o t \in Seq(S \cup T) /\ Len(s \o t) = Len(s) + Len(t)
      /\ \A i \in 1 .. Len(s \o t) : (s \o t)[i] = IF i <= Len(s) THEN s[i] ELSE t[i - Len(s)]
  BY <1>1
<1>3. \A i \in 1 .. Len(s) : i \in 1 .. Len(s \o t) /\ (s \o t)[i] = s[i] /\ s[i] \in S
  BY <1>1, <1>2 DEF Lists
<1>4. \A i \in 1 .. Len(s \o t) : i \in 1 .. Len(s) \/
          (i > Len(s) /\ i - Len(s) \in 1 .. Len(t) /\ (s \o t)[i] = t[i - Len(s)] /\ t[i - Len(s)] \in T)
  BY <1>1, <1>2 DEF Lists
<1>5. ASSUME NEW x \in S \cup T PROVE \E i \in 1 .. Len(s \o t) : (s \o t)[i] = x
  <2>1. CASE x \in S
    BY <1>3, <2>1 DEF Lists
  <2>2. CASE x \in T
    <3>1. PICK i \in 1 .. Len(t) : t[i] = x
      BY <2>2 DEF Lists
    <3>2. i + Len(s) \in 1 .. Len(s \o t) /\ ~(i + Len(s) <= Len(s)) /\ (i + Len(s)) - Len(s) = i
      BY <1>1, <1>2
    <3>3. (s \o t)[i + Len(s)] = x
      BY <1>2, <3>1, <3>2
    <3>4. QED
      BY <3>2, <3>3
  <2>3. QED
    BY <2>1, <2>2
<1>6. S \cup T = {(s \o t)[i] : i \in 1 .. Len(s \o t)}
  BY <1>3, <1>4, <1>5
<1>7. ASSUME NEW i \in 1 .. Len(s \o t), NEW j \in 1 .. Len(s \o t), (s \o t)[i] = (s \o t)[j] PROVE i = j
  <2>1. CASE i \in 1 .. Len(s) /\ j \in 1 .. Len(s)
    BY <1>3, <1>7, <2>1 DEF Lists
  <2>2. CASE i \in 1 .. Len(s) /\ j \notin 1 .. Len(s)
    BY <1>3, <1>4, <1>7, <2>2
  <2>3. CASE i \notin 1 .. Len(s) /\ j \in 1 .. Len(s)
    BY <1>3, <1>4, <1>7, <2>3
  <2>4. CASE i \notin 1 .. Len(s) /\ j \notin 1 .. Len(s)
    <3>1. i - Len(s) = j - Len(s)
      BY <1>4, <1>7, <2>4 DEF Lists
    <3>2. QED
      BY <1>1, <3>1
  <2>5. QED
    BY <2>1, <2>2, <2>3, <2>4
<1>8. Len(s \o t) \in Nat /\ DOMAIN (s \o t) = 1 .. Len(s \o t)
  BY <1>1, <1>2
<1>9. QED
  BY <1>2, <1>3, <1>4, <1>6, <1>7, <1>8 DEF Lists, Joined

\* What is put in order is listed.
LEMMA SortedLists ==
  ASSUME NEW S \in SUBSET Key
  PROVE  Lists(Sorted(S), S)
<1> DEFINE s == Sorted(S)
<1>1. /\ s \in Seq(S) /\ Len(s) \in Nat
      /\ S = {s[i] : i \in 1 .. Len(s)}
      /\ \A i, j \in 1 .. Len(s) : s[i] = s[j] => i = j
  BY SortedIs
<1> HIDE DEF s
<1>2. DOMAIN s = 1 .. Len(s)
  BY <1>1
<1>3. QED
  BY <1>1, <1>2 DEF Lists, s

-----------------------------------------------------------------------------
(* What every round keeps: who is listed waited for none but those listed before,  *)
(* who is left waits for those left, and as many rounds have listed one or nobody  *)
(* is ready any more.                                                              *)
InOrderOfNeed(s) == \A i \in 1 .. Len(s) : \A d \in Pending[s[i]] : \E j \in 1 .. Len(s) : j < i /\ s[j] = d
Waiting(pending) == DOMAIN pending \in SUBSET Loaded /\ \A k \in DOMAIN pending : pending[k] = Pending[k] \cap DOMAIN pending
Stuck(pending) == \A k \in DOMAIN pending : pending[k] # {}

RoundInv(n, ordered, pending) ==
  /\ Waiting(pending)
  /\ Lists(ordered, Loaded \ DOMAIN pending) /\ InOrderOfNeed(ordered)
  /\ Stuck(pending) \/ Cardinality(DOMAIN pending) + n <= Cardinality(Files)

\* A round lists what waits for none after all it waited for, and leaves fewer or is the last to change a thing.
LEMMA DischargeKeeps ==
  ASSUME PlanInv, NEW n \in Nat, NEW ordered, NEW pending, RoundInv(n, ordered, pending)
  PROVE  LET to == Discharge(ordered, pending) IN RoundInv(n + 1, to.ordered, to.pending)
<1> DEFINE D == DOMAIN pending
           ready == {k \in D : pending[k] = {}}
           left == [k \in D \ ready |-> pending[k] \ ready]
           longer == ordered \o Sorted(ready)
<1>1. Discharge(ordered, pending) = [ordered |-> longer, pending |-> left]
  BY DEF Discharge
<1>2. D \in SUBSET Loaded /\ Loaded \in SUBSET Key /\ ready \in SUBSET Key /\ ready \in SUBSET D /\ D \in SUBSET Key
  BY DEF RoundInv, Waiting, Loaded, PlanInv
<1>3. \A k \in D : pending[k] = Pending[k] \cap D
  BY DEF RoundInv, Waiting
<1>4. DOMAIN left = D \ ready /\ \A k \in D \ ready : left[k] = pending[k] \ ready
  OBVIOUS
<1>5. \A k \in ready : k \in D /\ pending[k] = {}
  OBVIOUS
<1> HIDE DEF left, D
<1>6. Waiting(left)
  BY <1>2, <1>3, <1>4 DEF Waiting
<1>7. Lists(ordered, Loaded \ D) /\ Lists(Sorted(ready), ready) /\ InOrderOfNeed(ordered)
  BY <1>2, SortedLists DEF RoundInv, D
<1>8. (Loaded \ D) \cap ready = {} /\ (Loaded \ D) \cup ready = Loaded \ (D \ ready)
  BY <1>2
<1> HIDE DEF longer, ready
<1>9. /\ Lists(longer, Loaded \ (D \ ready))
      /\ \A i \in 1 .. Len(ordered) : i \in 1 .. Len(longer) /\ longer[i] = ordered[i]
      /\ \A i \in 1 .. Len(longer) : i \in 1 .. Len(ordered) \/ (i > Len(ordered) /\ longer[i] \in ready)
  <2> DEFINE rest == Sorted(ready)
             done == Loaded \ D
  <2> HIDE DEF rest, done
  <2>1. Lists(ordered, done) /\ Lists(rest, ready) /\ done \cap ready = {}
    BY <1>7, <1>8 DEF rest, done
  <2>2. Lists(ordered \o rest, done \cup ready) /\ Joined(ordered, ready, ordered \o rest)
    BY <2>1, JoinedLists
  <2>3. longer = ordered \o rest
    BY DEF longer, rest
  <2>4. QED
    BY <1>8, <2>2, <2>3 DEF done, Joined
<1>10. InOrderOfNeed(longer)
  <2> SUFFICES ASSUME NEW i \in 1 .. Len(longer), NEW d \in Pending[longer[i]]
               PROVE  \E j \in 1 .. Len(longer) : j < i /\ longer[j] = d
    BY DEF InOrderOfNeed
  <2>1. CASE i \in 1 .. Len(ordered)
    <3>1. longer[i] = ordered[i]
      BY <1>9, <2>1
    <3>2. PICK j \in 1 .. Len(ordered) : j < i /\ ordered[j] = d
      BY <1>7, <2>1, <3>1 DEF InOrderOfNeed
    <3>3. QED
      BY <1>9, <3>2
  <2>2. CASE i > Len(ordered) /\ longer[i] \in ready
    <3>1. d \in Loaded /\ d \notin D
      BY <1>2, <1>3, <1>5, <2>2, PendingIsNeeded
    <3>2. PICK j \in 1 .. Len(ordered) : ordered[j] = d
      BY <1>7, <3>1 DEF Lists
    <3>3. j < i /\ j \in 1 .. Len(longer) /\ longer[j] = d
      BY <1>7, <1>9, <2>2, <3>2 DEF Lists
    <3>4. QED
      BY <3>3
  <2>3. QED
    BY <1>9, <2>1, <2>2
<1>11. Stuck(left) \/ Cardinality(DOMAIN left) + (n + 1) <= Cardinality(Files)
  <2>1. CASE ready = {}
    <3>1. \A k \in D : pending[k] # {}
      BY <2>1 DEF ready
    <3>2. QED
      BY <1>4, <2>1, <3>1 DEF Stuck
  <2>2. CASE ready # {}
    <3>1. PICK k \in ready : TRUE
      BY <2>2
    <3>2. Cardinality(D) + n <= Cardinality(Files)
      BY <1>5, <3>1 DEF RoundInv, Stuck, D
    <3>3. IsFiniteSet(D) /\ Cardinality(D) \in Nat /\ Cardinality(D \ ready) \in Nat /\ Cardinality(Files) \in Nat
      BY <1>2, KeysAreFinite DEF PlanInv
    <3>4. D \ ready \in SUBSET D /\ D \ ready # D
      BY <1>2, <3>1
    <3>5. Cardinality(D \ ready) <= Cardinality(D) /\ Cardinality(D \ ready) # Cardinality(D)
      BY <3>3, <3>4, FS_Subset
    <3>6. Cardinality(D \ ready) + (n + 1) <= Cardinality(Files)
      BY <3>2, <3>3, <3>5
    <3>7. QED
      BY <1>4, <3>6
  <2>3. QED
    BY <2>1, <2>2
<1>12. RoundInv(n + 1, longer, left)
  BY <1>4, <1>6, <1>9, <1>10, <1>11 DEF RoundInv
<1>13. QED
  BY <1>1, <1>12

\* So it is in every round,
LEMMA RoundsKeep ==
  ASSUME PlanInv, NEW n \in 0 .. Cardinality(Files)
  PROVE  RoundInv(n, Round[n].ordered, Round[n].pending)
<1> DEFINE Good(m) == RoundInv(m, Round[m].ordered, Round[m].pending)
           T == {m \in 0 .. Cardinality(Files) : ~Good(m)}
<1> HIDE DEF Good
<1> SUFFICES ASSUME T # {} PROVE FALSE
  BY DEF Good
<1>1. T \in SUBSET Nat
  BY RoundsAre
<1>2. PICK m \in T : \A l \in T : m <= l
  BY <1>1, LeastExists
<1>3. m \in 0 .. Cardinality(Files) /\ ~Good(m) /\ Cardinality(Files) \in Nat
  BY <1>2, RoundsAre
<1>4. CASE m = 0
  <2>1. Round[0].ordered = <<>> /\ Round[0].pending = Pending
    BY RoundsAre DEF First
  <2>2. DOMAIN Pending = Loaded /\ \A k \in Loaded : Pending[k] = Pending[k] \cap Loaded
    BY PendingIsNeeded
  <2>3. Lists(<<>>, Loaded \ DOMAIN Pending) /\ InOrderOfNeed(<<>>)
    BY <2>2 DEF Lists, InOrderOfNeed
  <2>4. Loaded \in SUBSET Files /\ IsFiniteSet(Files) /\ Cardinality(Loaded) \in Nat
    BY KeysAreFinite DEF Loaded, PlanInv
  <2>5. Cardinality(Loaded) + 0 <= Cardinality(Files)
    BY <1>3, <2>4, FS_Subset
  <2>6. RoundInv(0, <<>>, Pending)
    BY <2>2, <2>3, <2>5 DEF RoundInv, Waiting
  <2>7. QED
    BY <1>3, <1>4, <2>1, <2>6 DEF Good
<1>5. CASE m # 0
  <2>1. m - 1 \in Nat /\ m - 1 \in 0 .. Cardinality(Files) /\ ~(m <= m - 1) /\ m \in 1 .. Cardinality(Files) /\ (m - 1) + 1 = m
    BY <1>3, <1>5
  <2>2. RoundInv(m - 1, Round[m - 1].ordered, Round[m - 1].pending)
    BY <1>2, <2>1 DEF Good
  <2>3. Round[m] = Discharge(Round[m - 1].ordered, Round[m - 1].pending)
    BY <2>1, RoundsAre
  <2> DEFINE to == Discharge(Round[m - 1].ordered, Round[m - 1].pending)
  <2>4. RoundInv((m - 1) + 1, to.ordered, to.pending)
    BY <2>1, <2>2, DischargeKeeps
  <2> HIDE DEF to
  <2>5. QED
    BY <1>3, <2>1, <2>3, <2>4 DEF Good, to
<1>6. QED
  BY <1>4, <1>5

\* and when they are over, whoever is left waits for another who is.
LEMMA RoundsEnd ==
  ASSUME PlanInv
  PROVE  /\ cycle_keys \in SUBSET Loaded
         /\ \A k \in cycle_keys : Pending[k] \cap cycle_keys # {}
         /\ Lists(Rounds.ordered, Loaded \ cycle_keys) /\ InOrderOfNeed(Rounds.ordered)
         /\ Lists(plan, Loaded)
         /\ cycle_keys = {} => plan = Rounds.ordered
<1> DEFINE n == Cardinality(Files)
<1>1. n \in Nat /\ n \in 0 .. n
  BY RoundsAre
<1>2. RoundInv(n, Rounds.ordered, Rounds.pending)
  BY <1>1, RoundsKeep DEF Rounds
<1>3. Waiting(Rounds.pending) /\ cycle_keys = DOMAIN Rounds.pending
  BY <1>2 DEF RoundInv, cycle_keys
<1>4. cycle_keys \in SUBSET Loaded /\ cycle_keys \in SUBSET Key /\ Cardinality(cycle_keys) \in Nat /\ IsFiniteSet(cycle_keys)
  BY <1>3, KeysAreFinite DEF Waiting, Loaded, PlanInv
<1>5. ASSUME NEW k \in cycle_keys PROVE Pending[k] \cap cycle_keys # {}
  <2>1. CASE Stuck(Rounds.pending)
    BY <1>3, <2>1 DEF Stuck, Waiting
  <2>2. CASE Cardinality(cycle_keys) + n <= n
    <3>1. Cardinality(cycle_keys) = 0
      BY <1>1, <1>4, <2>2
    <3>2. QED
      BY <1>4, <3>1, FS_EmptySet
  <2>3. QED
    BY <1>2, <1>3, <2>1, <2>2 DEF RoundInv
<1>6. Lists(Rounds.ordered, Loaded \ cycle_keys) /\ InOrderOfNeed(Rounds.ordered)
  BY <1>2, <1>3 DEF RoundInv
<1>7. Lists(Sorted(cycle_keys), cycle_keys)
  BY <1>4, SortedLists
<1>8. (Loaded \ cycle_keys) \cap cycle_keys = {} /\ (Loaded \ cycle_keys) \cup cycle_keys = Loaded
  BY <1>4
<1> HIDE DEF n
<1>9. Lists(plan, Loaded)
  <2> HIDE DEF cycle_keys
  <2>1. Lists(Rounds.ordered \o Sorted(cycle_keys), (Loaded \ cycle_keys) \cup cycle_keys)
    BY <1>6, <1>7, <1>8, JoinedLists
  <2>2. QED
    BY <1>8, <2>1 DEF plan
<1>10. ASSUME cycle_keys = {} PROVE plan = Rounds.ordered
  <2>1. Sorted(cycle_keys) = <<>>
    BY <1>4, <1>10, SortedIs
  <2>2. Rounds.ordered \in Seq(Loaded \ cycle_keys)
    BY <1>6 DEF Lists
  <2>3. QED
    BY <2>1, <2>2 DEF plan
<1>11. QED
  BY <1>4, <1>5, <1>6, <1>9, <1>10

Closed(S, k) == S \in SUBSET Loaded /\ \A p \in Needs : p[1] \in S \cup {k} => p[2] \in S

\* What comes after a need of a migration comes after the migration, and nothing else does.
LEMMA AfterIs ==
  ASSUME NEW k
  PROVE  /\ After(k) \in SUBSET Loaded
         /\ \A d : <<k, d>> \in Needs => d \in After(k)
         /\ \A e \in After(k) : After(e) \in SUBSET After(k)
         /\ \A S : Closed(S, k) => After(k) \in SUBSET S
<1>1. \A e : After(e) = {d \in Loaded : \A S : Closed(S, e) => d \in S}
  BY DEF After, Closed
<1>2. \A p \in Needs : p[2] \in Loaded
  BY DEF Needs
<1>3. ASSUME NEW d, <<k, d>> \in Needs PROVE d \in After(k)
  <2>1. d \in Loaded
    BY <1>2, <1>3
  <2>2. ASSUME NEW S, Closed(S, k) PROVE d \in S
    BY <1>3, <2>2 DEF Closed
  <2>3. QED
    BY <1>1, <2>1, <2>2
<1>4. ASSUME NEW e \in After(k) PROVE After(e) \in SUBSET After(k)
  <2>1. ASSUME NEW S, Closed(S, k) PROVE Closed(S, e)
    <3>1. e \in S
      BY <1>1, <2>1
    <3>2. QED
      BY <2>1, <3>1 DEF Closed
  <2>2. ASSUME NEW d \in After(e) PROVE d \in After(k)
    BY <1>1, <2>1
  <2>3. QED
    BY <2>2
<1>5. ASSUME NEW S, Closed(S, k) PROVE After(k) \in SUBSET S
  BY <1>1, <1>5
<1>6. QED
  BY <1>1, <1>3, <1>4, <1>5

\* Who is left waiting, the one with least after it too, waits for one with less: there is a cycle.
LEMMA NoneIsLeft ==
  ASSUME PlanInv, Migratable
  PROVE  cycle_keys = {}
<1> DEFINE count(k) == Cardinality(After(k))
           T == {n \in Nat : \E k \in cycle_keys : n = count(k)}
<1>1. cycle_keys \in SUBSET Loaded /\ \A k \in cycle_keys : Pending[k] \cap cycle_keys # {}
  BY RoundsEnd
<1>2. \A k : After(k) \in SUBSET Key /\ IsFiniteSet(After(k)) /\ count(k) \in Nat
  <2>1. Loaded \in SUBSET Key
    BY DEF Loaded, PlanInv
  <2>2. \A k : After(k) \in SUBSET Key
    BY <2>1, AfterIs
  <2>3. QED
    BY <2>2, KeysAreFinite
<1> SUFFICES ASSUME cycle_keys # {} PROVE FALSE
  OBVIOUS
<1>3. T \in SUBSET Nat /\ T # {}
  BY <1>2
<1>4. PICK n \in T : \A m \in T : n <= m
  BY <1>3, LeastExists
<1>5. PICK k \in cycle_keys : n = count(k)
  BY <1>4
<1>6. PICK d \in cycle_keys : d \in Pending[k]
  BY <1>1
<1>7. <<k, d>> \in Needs /\ d \in Loaded
  BY <1>1, <1>6, PendingIsNeeded
<1>8. d \in After(k) /\ After(d) \in SUBSET After(k) /\ d \notin After(d)
  BY <1>7, AfterIs DEF Migratable
<1>9. count(d) <= count(k) /\ count(d) # count(k)
  BY <1>2, <1>8, FS_Subset
<1>10. count(d) \in T
  BY <1>2
<1>11. n <= count(d) /\ count(d) \in Nat /\ n \in Nat
  BY <1>2, <1>3, <1>4, <1>10
<1> HIDE DEF count
<1>12. QED
  BY <1>5, <1>9, <1>11

\* When all is known, a plan with no cycle in it has each migration after all it needs.
LEMMA PlanFollowsNeeds ==
  ASSUME PlanInv, ~Contested, unresolved = {}, cycle_keys = {}
  PROVE  /\ Migratable
         /\ \A i, j \in 1 .. Len(plan) : plan[j] \in After(plan[i]) => j < i
<1>1. Lists(plan, Loaded) /\ InOrderOfNeed(plan) /\ Len(plan) \in Nat
  BY RoundsEnd DEF Lists
<1> HIDE DEF plan
<1>2. \A i, j \in 1 .. Len(plan) : plan[i] = plan[j] => i = j
  BY <1>1 DEF Lists
<1>3. ASSUME NEW i \in 1 .. Len(plan)
      PROVE  \A d \in After(plan[i]) : \E j \in 1 .. Len(plan) : j < i /\ d = plan[j]
  <2> DEFINE S == {d \in Loaded : \E j \in 1 .. Len(plan) : j < i /\ d = plan[j]}
  <2>1. ASSUME NEW p \in Needs, p[1] \in S \cup {plan[i]} PROVE p[2] \in S
    <3>1. PICK m \in 1 .. Len(plan) : m <= i /\ p[1] = plan[m]
      BY <1>1, <2>1
    <3>2. p = <<p[1], p[2]>> /\ p[2] \in Loaded
      BY NeedsAre
    <3>3. p[2] \in Pending[plan[m]]
      BY <3>1, <3>2, NeededIsPending
    <3>4. PICK j \in 1 .. Len(plan) : j < m /\ plan[j] = p[2]
      BY <1>1, <3>3 DEF InOrderOfNeed
    <3>5. j < i
      BY <1>1, <3>1, <3>4
    <3>6. QED
      BY <3>2, <3>4, <3>5
  <2>2. Closed(S, plan[i])
    BY <2>1 DEF Closed
  <2> HIDE DEF S
  <2>3. After(plan[i]) \in SUBSET S
    BY <2>2, AfterIs
  <2>4. QED
    BY <2>3 DEF S
<1>4. ASSUME NEW i \in 1 .. Len(plan), NEW j \in 1 .. Len(plan), plan[j] \in After(plan[i]) PROVE j < i
  <2>1. PICK m \in 1 .. Len(plan) : m < i /\ plan[j] = plan[m]
    BY <1>3, <1>4
  <2>2. QED
    BY <1>2, <2>1
<1>5. ASSUME NEW k \in Loaded PROVE k \notin After(k)
  <2>1. PICK i \in 1 .. Len(plan) : plan[i] = k
    BY <1>1 DEF Lists
  <2>2. ~(i < i)
    BY <1>1
  <2>3. QED
    BY <1>4, <2>1, <2>2
<1>6. QED
  BY <1>4, <1>5 DEF Migratable

\* A set of numbers that is bounded and not empty has a greatest one.
LEMMA GreatestExists ==
  ASSUME NEW n \in Nat, NEW S \in SUBSET (1 .. n), S # {}
  PROVE  \E m \in S : \A k \in S : k <= m
<1> DEFINE T == {n - k : k \in S}
<1>1. \A k \in S : k \in 1 .. n /\ n - k \in Nat
  OBVIOUS
<1>2. T \in SUBSET Nat /\ T # {}
  BY <1>1
<1>3. PICK l \in T : \A x \in T : l <= x
  BY <1>2, LeastExists
<1>4. PICK m \in S : l = n - m
  BY <1>3
<1>5. ASSUME NEW k \in S PROVE k <= m
  <2>1. n - m <= n - k
    BY <1>3, <1>4
  <2>2. QED
    BY <1>1, <2>1
<1>6. QED
  BY <1>5

\* The last migration of an app in the plan is a leaf, and when there is no conflict there is no other.
LEMMA LeafIsLast ==
  ASSUME PlanInv, cycle_keys = {}, NEW app \in {k.app : k \in Loaded} \ conflicts
  PROVE  /\ leaves(app) # {}
         /\ \A l \in leaves(app) : \A i, j \in 1 .. Len(plan) : plan[i].app = app /\ plan[j] = l => i <= j
<1>1. Lists(plan, Loaded) /\ InOrderOfNeed(plan) /\ Len(plan) \in Nat
  BY RoundsEnd DEF Lists
<1> HIDE DEF plan
<1>2. /\ \A i, j \in 1 .. Len(plan) : plan[i] = plan[j] => i = j
      /\ \A k \in Loaded : \E i \in 1 .. Len(plan) : plan[i] = k
      /\ \A i \in 1 .. Len(plan) : plan[i] \in Loaded
  BY <1>1 DEF Lists
<1> DEFINE S == {i \in 1 .. Len(plan) : plan[i].app = app}
<1>3. S \in SUBSET (1 .. Len(plan)) /\ S # {}
  BY <1>2
<1>4. PICK m \in S : \A i \in S : i <= m
  BY <1>1, <1>3, GreatestExists
<1> DEFINE l == plan[m]
<1>5. l \in Loaded /\ l \in Files /\ l.app = app /\ m \in 1 .. Len(plan)
  BY <1>2 DEF Loaded
<1>6. l \notin required(app)
  <2> SUFFICES ASSUME NEW k \in Loaded, <<l, k>> \in edges, k.app = app PROVE FALSE
    BY DEF required, Loaded
  <2>1. PICK f \in Files : \E e \in history[f].read : <<l, k>> = <<canonical(e), f>>
    BY DEF edges
  <2>2. PICK e \in history[k].read : l = canonical(e)
    BY <2>1
  <2>3. l # k
    BY DEF edges
  <2>4. l \in dependencies_of(k)
    BY <1>5, <2>2, <2>3 DEF dependencies_of
  <2>5. l \in Pending[k]
    BY <1>5, <2>4, PendingIsNeeded
  <2>6. PICK i \in 1 .. Len(plan) : plan[i] = k
    BY <1>2
  <2>7. i <= m
    BY <1>4, <2>6
  <2>8. PICK j \in 1 .. Len(plan) : j < i /\ plan[j] = l
    BY <1>1, <2>5, <2>6 DEF InOrderOfNeed
  <2>9. j = m
    BY <1>2, <1>5, <2>8
  <2>10. QED
    BY <1>1, <1>5, <2>7, <2>8, <2>9
<1>7. l \in leaves(app)
  BY <1>5, <1>6 DEF leaves, Loaded
<1>8. \A x \in leaves(app) : x = l
  <2> SUFFICES ASSUME NEW x \in leaves(app), x # l PROVE FALSE
    OBVIOUS
  <2>1. app \in {k.app : k \in Files}
    BY <1>5
  <2>2. ~(Cardinality(leaves(app)) > 1)
    BY <2>1 DEF conflicts
  <2>3. leaves(app) \in SUBSET Key
    BY DEF leaves, PlanInv
  <2>4. IsFiniteSet(leaves(app)) /\ Cardinality(leaves(app)) \in Nat
    BY <2>3, KeysAreFinite
  <2>5. {l} \in SUBSET leaves(app) /\ {l} # leaves(app)
    BY <1>7
  <2>6. Cardinality({l}) <= Cardinality(leaves(app)) /\ Cardinality({l}) # Cardinality(leaves(app))
    BY <2>4, <2>5, FS_Subset
  <2>7. Cardinality({l}) = 1
    BY FS_Singleton
  <2>8. QED
    BY <2>2, <2>4, <2>6, <2>7
<1>9. ASSUME NEW i \in 1 .. Len(plan), NEW j \in 1 .. Len(plan), plan[i].app = app, plan[j] = l PROVE i <= j
  <2>1. j = m
    BY <1>2, <1>5, <1>9
  <2>2. QED
    BY <1>4, <1>9, <2>1
<1>10. QED
  BY <1>7, <1>8, <1>9

-----------------------------------------------------------------------------
\* No file is written before one there is, and a squash needs what it replaces needed.
LEMMA PlanStep == PlanInv /\ [PlanNext]_history => PlanInv'
<1> SUFFICES ASSUME PlanInv, [PlanNext]_history PROVE PlanInv'
  OBVIOUS
<1>1. ASSUME NEW k \in Key, NEW needs \in SUBSET Key, NEW read \in SUBSET needs, NEW replaces \in SUBSET Key,
             \A l \in Files : KeyBefore(l, k), \A l \in replaces : l.app = k.app /\ KeyBefore(l, k),
             \A l \in replaces \cap Files : history[l].needs \ replaces \subseteq needs,
             Filed(k, needs, read, replaces)
      PROVE  PlanInv'
  <2>1. k \notin Files /\ k \notin replaces
    BY <1>1, KeysDiffer
  <2> DEFINE new == [needs |-> needs, read |-> read, replaces |-> replaces]
  <2>2. /\ Files' = Files \cup {k} /\ history'[k] = new
        /\ \A l \in Files : history'[l] = history[l]
        /\ history' = [l \in Files \cup {k} |-> IF l = k THEN new ELSE history[l]]
    BY <1>1, <2>1 DEF Filed, Files
  <2>3. history' \in [Files' -> [needs : SUBSET Key, read : SUBSET Key, replaces : SUBSET Key]]
    <3>1. new \in [needs : SUBSET Key, read : SUBSET Key, replaces : SUBSET Key]
      OBVIOUS
    <3> HIDE DEF new
    <3>2. \A l \in Files : history[l] \in [needs : SUBSET Key, read : SUBSET Key, replaces : SUBSET Key]
      BY DEF PlanInv
    <3>3. QED
      BY <2>2, <3>1, <3>2
  <2>4. \A f \in Files' : history'[f].read \subseteq history'[f].needs
    BY <2>2 DEF PlanInv
  <2>5. \A f \in Files' : \A l \in history'[f].replaces : l.app = f.app /\ KeyBefore(l, f)
    BY <1>1, <2>2 DEF PlanInv
  <2>6. ASSUME NEW f \in Files', NEW l \in history'[f].replaces \cap Files'
        PROVE  history'[l].needs \ history'[f].replaces \subseteq history'[f].needs
    <3>1. CASE f = k
      <4>1. l \in replaces /\ l \in Files
        BY <2>1, <2>2, <3>1
      <4>2. QED
        BY <1>1, <2>2, <3>1, <4>1
    <3>2. CASE f \in Files
      <4>1. l \in history[f].replaces
        BY <2>2, <3>2
      <4>2. l \in Key /\ f \in Key /\ KeyBefore(l, f) /\ KeyBefore(f, k)
        BY <1>1, <3>2, <4>1 DEF PlanInv
      <4>3. l \in Files
        BY <2>2, <4>2, KeysDiffer
      <4>4. QED
        BY <2>2, <3>2, <4>1, <4>3 DEF PlanInv
    <3>3. QED
      BY <2>2, <3>1, <3>2
  <2>7. Files' \subseteq Key
    BY <2>2 DEF PlanInv
  <2>8. QED
    BY <2>3, <2>4, <2>5, <2>6, <2>7 DEF PlanInv
<1>2. CASE WriteMigration
  <2>1. PICK k \in Key : \E needs \in SUBSET (Key \ {k}) :
          /\ \A l \in Files : KeyBefore(l, k)
          /\ \E unread \in needs \cup {k} : Filed(k, needs, needs \ {unread}, {})
    BY <1>2 DEF WriteMigration
  <2>5. PICK needs \in SUBSET (Key \ {k}) :
          /\ \A l \in Files : KeyBefore(l, k)
          /\ \E unread \in needs \cup {k} : Filed(k, needs, needs \ {unread}, {})
    BY <2>1
  <2>2. PICK unread : Filed(k, needs, needs \ {unread}, {})
    BY <2>5
  <2>3. needs \in SUBSET Key /\ needs \ {unread} \in SUBSET needs /\ {} \in SUBSET Key
    OBVIOUS
  <2>4. QED
    BY <1>1, <2>2, <2>3, <2>5
<1>3. CASE WriteSquash
  <2>1. PICK k \in Key, replaces \in Squash : \E needs \in SUBSET (Key \ (replaces \cup {k})) :
          /\ \A l \in Files : KeyBefore(l, k)
          /\ \A l \in replaces : l.app = k.app /\ KeyBefore(l, k)
          /\ \A l \in replaces \cap Files : history[l].needs \ replaces \subseteq needs
          /\ Filed(k, needs, needs, replaces)
    BY <1>3 DEF WriteSquash
  <2>2. PICK needs \in SUBSET (Key \ (replaces \cup {k})) :
          /\ \A l \in Files : KeyBefore(l, k)
          /\ \A l \in replaces : l.app = k.app /\ KeyBefore(l, k)
          /\ \A l \in replaces \cap Files : history[l].needs \ replaces \subseteq needs
          /\ Filed(k, needs, needs, replaces)
    BY <2>1
  <2>3. needs \in SUBSET Key /\ needs \in SUBSET needs /\ replaces \in SUBSET Key
    BY SquashesAreOfKeys
  <2>4. QED
    BY <1>1, <2>2, <2>3
<1>4. CASE UNCHANGED history
  BY <1>4 DEF PlanInv, Files
<1>5. QED
  BY <1>2, <1>3, <1>4 DEF PlanNext

\* The plan of any project holds each of its migrations once, after all it needs, whenever
\* what it needs is known; it says there is a cycle just when there is one, and the one leaf
\* of an app is the last of it (MigrationGraph.plan, _discharge, canonical, leaves).
THEOREM PlanHolds == PlanSpec => []PlanIsARunOrder
<1>1. PlanInit => PlanInv
  BY DEF PlanInit, NoFiles, PlanInv, Files
<1>2. PlanInv => PlanIsARunOrder
  <2> SUFFICES ASSUME PlanInv PROVE PlanIsARunOrder
    OBVIOUS
  <2>1. Lists(plan, Loaded)
    BY RoundsEnd
  <2>2. /\ DOMAIN plan = 1 .. Len(plan) /\ Loaded = {plan[i] : i \in DOMAIN plan}
        /\ \A i, j \in DOMAIN plan : plan[i] = plan[j] => i = j
        /\ \A i \in DOMAIN plan : plan[i] \in Loaded
    BY <2>1 DEF Lists
  <2>3. Migratable => cycle_keys = {}
    BY NoneIsLeft
  <2>4. unresolved = {} /\ ~Contested /\ cycle_keys = {} =>
          Migratable /\ \A i, j \in DOMAIN plan : plan[j] \in After(plan[i]) => j < i
    BY <2>2, PlanFollowsNeeds
  <2>5. cycle_keys = {} => \A app \in {k.app : k \in Loaded} \ conflicts :
          /\ leaves(app) # {}
          /\ \A l \in leaves(app) : \A i, j \in DOMAIN plan : plan[i].app = app /\ plan[j] = l => i <= j
    BY <2>2, LeafIsLast
  <2> HIDE DEF plan, Migratable, cycle_keys, conflicts, leaves
  <2>6. \A i \in DOMAIN plan : [k \in Loaded |-> After(k)][plan[i]] = After(plan[i])
    BY <2>2
  <2>7. QED
    BY <2>2, <2>3, <2>4, <2>5, <2>6 DEF PlanIsARunOrder
<1>3. QED
  BY <1>1, <1>2, PlanStep, PTL DEF PlanSpec
=============================================================================
