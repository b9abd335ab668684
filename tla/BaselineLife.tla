---------------------------- MODULE BaselineLife ----------------------------
(***************************************************************************)
(* A committed baseline over the life of a project: somebody edits a file, *)
(* somebody runs `djaudit run --write-baseline`, and CI runs `djaudit run  *)
(* --baseline`, each at its own pace over one source tree and one baseline *)
(* file.  A problem is something a rule or a tool reports; its snippet is  *)
(* all a fingerprint keeps of it besides rule and file, which are one here.*)
(* Line numbers are not modelled: only the order of the problems matters.  *)
(***************************************************************************)
EXTENDS Integers, FiniteSets, Sequences

CONSTANTS
  Problem,    \* what can be wrong in the file
  SnippetOf,  \* the normalised snippet the finding of a problem carries
  MaxEdits    \* bound: edits made to the project

ASSUME MaxEditsIsANumber == MaxEdits \in Nat

VARIABLES
  document,   \* the problems in the file, in document order
  ignored,    \* problems whose line carries a suppression comment
  edits,      \* edits made so far
  file,       \* the baseline file: absent, torn, or the fingerprints it lists
  writer,     \* the process writing a baseline: idle, or what it is about to save
  ledger,     \* ghost: for each snippet, how many problems the file's baseline accepted
  auditor,    \* the process auditing: idle, or loaded with a baseline
  result      \* the last audit: its exit code and what it reported and hid

vars == <<document, ignored, edits, file, writer, ledger, auditor, result>>

Snippets == {SnippetOf[p] : p \in Problem}
None == [p \in Snippets |-> 0]
Absent == [state |-> "absent", fingerprints |-> {}]
Torn == [state |-> "torn", fingerprints |-> {}]
Whole(fps) == [state |-> "whole", fingerprints |-> fps]

OK == 0
FINDINGS == 1
ERROR == 2

Present(d) == {d[i] : i \in 1..Len(d)}

-----------------------------------------------------------------------------
(* fp.assign over the findings that survive the inline suppressions.         *)

Place(p) == CHOOSE i \in 1..Len(document) : document[i] = p

Kept == Present(document) \ ignored

(* Mutated: the index counts suppressed findings too. *)
OccurrenceOfAll(p) ==
  Cardinality({q \in Present(document) : SnippetOf[q] = SnippetOf[p] /\ Place(q) < Place(p)})

Occurrence(p) == Cardinality({q \in Kept : SnippetOf[q] = SnippetOf[p] /\ Place(q) < Place(p)})

Fingerprint(p) == <<SnippetOf[p], Occurrence(p)>>

(* How many of a set of problems carry each snippet. *)
Tally(S) == [s \in Snippets |-> Cardinality({p \in S : SnippetOf[p] = s})]

-----------------------------------------------------------------------------
Init ==
  /\ document = <<>> /\ ignored = {} /\ edits = 0
  /\ file = Absent
  /\ writer = [at |-> "idle", fingerprints |-> {}, tally |-> None]
  /\ ledger = None
  /\ auditor = [at |-> "idle", fingerprints |-> {}, tally |-> None]
  /\ result = [exit |-> OK, reported |-> {}, hidden |-> {}, ledger |-> None]

(* A problem comes in after the i-th, or the i-th goes. *)
Insert(d, i, p) ==
  [k \in 1..(Len(d) + 1) |-> IF k <= i THEN d[k] ELSE IF k = i + 1 THEN p ELSE d[k - 1]]
Remove(d, i) == [k \in 1..(Len(d) - 1) |-> IF k < i THEN d[k] ELSE d[k + 1]]

Edit ==
  /\ edits < MaxEdits /\ edits' = edits + 1
  /\ \/ \E p \in Problem \ Present(document), i \in 0..Len(document) :
          document' = Insert(document, i, p) /\ UNCHANGED ignored
     \/ \E i \in 1..Len(document) :
          document' = Remove(document, i) /\ ignored' = ignored \ {document[i]}
     \/ \E p \in Present(document) :
          ignored' = (IF p \in ignored THEN ignored \ {p} ELSE ignored \cup {p})
          /\ UNCHANGED document
  /\ UNCHANGED <<file, writer, ledger, auditor, result>>

-----------------------------------------------------------------------------
(* cli.run --write-baseline: audit without thresholds and without a baseline, *)
(* then Baseline.save, which truncates the file and writes it.                *)

WriterRuns ==
  /\ writer.at = "idle"
  /\ writer' = [at |-> "audited", fingerprints |-> {Fingerprint(p) : p \in Kept},
                tally |-> Tally(Kept)]
  /\ UNCHANGED <<document, ignored, edits, file, ledger, auditor, result>>

(* A rule that crashes is not in the baseline: its silence is not an acceptance. *)
WriterRunsCrashedRule ==
  /\ writer.at = "idle"
  /\ writer' = [at |-> "audited", fingerprints |-> {}, tally |-> None]
  /\ UNCHANGED <<document, ignored, edits, file, ledger, auditor, result>>

SaveTruncates ==
  /\ writer.at = "audited"
  /\ writer' = [writer EXCEPT !.at = "saving"]
  /\ file' = Torn
  /\ UNCHANGED <<document, ignored, edits, ledger, auditor, result>>

SaveWrites ==
  /\ writer.at = "saving"
  /\ writer' = [writer EXCEPT !.at = "idle"]
  /\ file' = Whole(writer.fingerprints)
  /\ ledger' = writer.tally
  /\ UNCHANGED <<document, ignored, edits, auditor, result>>

WriterDies ==
  /\ writer.at # "idle"
  /\ writer' = [writer EXCEPT !.at = "idle"]
  /\ UNCHANGED <<document, ignored, edits, file, ledger, auditor, result>>

-----------------------------------------------------------------------------
(* cli.run --baseline: load the file first, audit the tree after. *)

(* Mutated: a baseline that cannot be read is taken for an empty one. *)
ForgivingUsable(f) == f.state \in {"whole", "torn"}

(* Baseline.load refuses a missing file and a truncated one. *)
Usable(f) == f.state = "whole"

AuditLoads ==
  /\ auditor.at = "idle" /\ Usable(file)
  /\ auditor' = [at |-> "loaded", fingerprints |-> file.fingerprints,
                 tally |-> ledger]
  /\ UNCHANGED <<document, ignored, edits, file, writer, ledger, result>>

AuditRefuses ==
  /\ auditor.at = "idle" /\ ~Usable(file)
  /\ result' = [exit |-> ERROR, reported |-> {}, hidden |-> {}, ledger |-> None]
  /\ UNCHANGED <<document, ignored, edits, file, writer, ledger, auditor>>

Accepted(p) == Fingerprint(p) \in auditor.fingerprints

(* Every severity here reaches --fail-on. *)
ExitFor(new) == IF new = {} THEN OK ELSE FINDINGS

AuditReports ==
  /\ auditor.at = "loaded"
  /\ auditor' = [auditor EXCEPT !.at = "idle"]
  /\ LET new == {p \in Kept : ~Accepted(p)}
     IN result' = [exit |-> ExitFor(new), reported |-> new,
                   hidden |-> Kept \ new, ledger |-> auditor.tally]
  /\ UNCHANGED <<document, ignored, edits, file, writer, ledger>>

(* A rule that crashes reports nothing, and the run exits by what was reported. *)
AuditReportsCrashedRule ==
  /\ auditor.at = "loaded"
  /\ auditor' = [auditor EXCEPT !.at = "idle"]
  /\ result' = [exit |-> ExitFor({}), reported |-> {}, hidden |-> {}, ledger |-> auditor.tally]
  /\ UNCHANGED <<document, ignored, edits, file, writer, ledger>>

(* A blocking diagnostic: whole rule families never ran. *)
AuditIncomplete ==
  /\ auditor.at = "loaded"
  /\ auditor' = [auditor EXCEPT !.at = "idle"]
  /\ result' = [exit |-> ERROR, reported |-> {}, hidden |-> {}, ledger |-> None]
  /\ UNCHANGED <<document, ignored, edits, file, writer, ledger>>

Next ==
  \/ Edit
  \/ WriterRuns \/ WriterRunsCrashedRule \/ SaveTruncates \/ SaveWrites \/ WriterDies
  \/ AuditLoads \/ AuditRefuses
  \/ AuditReports \/ AuditReportsCrashedRule \/ AuditIncomplete

Spec == Init /\ [][Next]_vars

-----------------------------------------------------------------------------
(* Every variable keeps its type, and only a problem that is there is ignored. *)
Accounts(places) ==
  [at : places, fingerprints : SUBSET (Snippets \X Nat), tally : [Snippets -> Nat]]
TypeOK ==
  /\ document \in Seq(Problem)
  /\ ignored \subseteq Present(document)
  /\ edits \in 0..MaxEdits
  /\ file \in [state : {"absent", "torn", "whole"}, fingerprints : SUBSET (Snippets \X Nat)]
  /\ writer \in Accounts({"idle", "audited", "saving"})
  /\ ledger \in [Snippets -> Nat]
  /\ auditor \in Accounts({"idle", "loaded"})
  /\ result \in [exit : {OK, FINDINGS, ERROR}, reported : SUBSET Problem,
                 hidden : SUBSET Problem, ledger : [Snippets -> Nat]]

Excess(found, accepted) == IF found > accepted THEN found - accepted ELSE 0

(* Of each snippet the audit reports exactly the problems beyond those accepted, *)
(* whatever was inserted, removed, reordered or suppressed since: a baseline     *)
(* neither resurrects what was accepted nor hides more of it (baseline.filter).  *)
ReportsTheExcess ==
  result.exit # ERROR =>
    \A s \in Snippets :
       Tally(result.reported)[s]
         = Excess(Tally(result.reported \cup result.hidden)[s], result.ledger[s])

(* An audit proceeds only with a baseline read in full: neither a missing file nor *)
(* one a writer has truncated lets it start, let alone pass (Baseline.load).       *)
NoAuditOnATornFile ==
  [][ auditor'.at = "loaded" /\ auditor.at = "idle" =>
        file.state = "whole" /\ auditor'.fingerprints = file.fingerprints ]_vars
=============================================================================
