----------------------------- MODULE AuditProofs -----------------------------
(* Theorems about AuditRun for every catalogue, project, set of tools and   *)
(* option records: the types, the books, the identities, the live tier.     *)
(* And about ReachingDefs, which its rules stand on, for every function.    *)
EXTENDS AuditRun, ReachingDefs, WellFoundedInduction, FiniteSetTheorems, TLAPS

(* Sizes of sets of findings are numbers, and a part is not larger than the whole. *)
LEMMA Sizes ==
  ASSUME NEW S \in SUBSET Finding, NEW T \in SUBSET S
  PROVE  /\ IsFiniteSet(S) /\ IsFiniteSet(T)
         /\ Cardinality(S) \in Nat /\ Cardinality(T) \in Nat
         /\ Cardinality(T) <= Cardinality(S)
         /\ Cardinality(S) - Cardinality(T) \in Nat
<1>1. IsFiniteSet(S)
  BY FS_Subset, FindingAssumption
<1>2. IsFiniteSet(T) /\ Cardinality(T) <= Cardinality(S)
  BY <1>1, FS_Subset
<1>3. Cardinality(S) \in Nat /\ Cardinality(T) \in Nat
  BY <1>1, <1>2, FS_CardinalityType
<1>4. QED
  BY <1>1, <1>2, <1>3

(* Scope leaves a severity a severity: the lowest is not demoted below itself. *)
LEMMA ScopedSeverityType ==
  ASSUME NEW f \in Finding
  PROVE  ScopedSeverity(f) \in Severities
BY FindingAssumption DEF ScopedSeverity, Demoted, Severities, INFO, CRITICAL

(* A fingerprint is one of FP, whatever set it is numbered in. *)
LEMMA FingerprintType ==
  ASSUME NEW S \in SUBSET Finding, NEW f \in Finding
  PROVE  Fingerprint(f, S) \in FP
<1> DEFINE Earlier == {g \in S : Key(g) = Key(f) /\ Meta[g].at < Meta[f].at}
<1>1. Cardinality(Earlier) \in Nat
  BY Sizes
<1>2. QED
  BY <1>1 DEF Fingerprint, Occurrence, FP

(* fp.assign keeps apart the findings of one tool: of two with one key, the one *)
(* that comes later in the document has the larger occurrence index.            *)
LEMMA FingerprintsDiffer ==
  ASSUME NEW S \in SUBSET Finding, NEW f \in S, NEW g \in S,
         f # g, Meta[f].tool = Meta[g].tool
  PROVE  Fingerprint(f, S) # Fingerprint(g, S)
<1> DEFINE Earlier(h) == {x \in S : Key(x) = Key(h) /\ Meta[x].at < Meta[h].at}
<1>1. SUFFICES ASSUME Key(f) = Key(g) PROVE Cardinality(Earlier(f)) # Cardinality(Earlier(g))
  BY DEF Fingerprint, Occurrence
<1>2. ASSUME NEW a \in S, NEW b \in S, Key(a) = Key(b), Meta[a].at < Meta[b].at
      PROVE  Cardinality(Earlier(a)) # Cardinality(Earlier(b))
  <2>1. a \in Earlier(b) /\ a \notin Earlier(a)
    BY <1>2, FindingAssumption
  <2>2. Earlier(a) \subseteq Earlier(b)
    BY <1>2, FindingAssumption
  <2>3. IsFiniteSet(Earlier(b))
    BY Sizes
  <2>4. Cardinality(Earlier(a)) \in Nat /\ Cardinality(Earlier(b)) \in Nat
    BY Sizes
  <2> HIDE DEF Earlier
  <2>5. Earlier(a) # Earlier(b)
    BY <2>1
  <2>6. QED
    BY <2>2, <2>3, <2>5, FS_Subset
<1>3. Meta[f].at < Meta[g].at \/ Meta[g].at < Meta[f].at
  BY <1>1, FindingAssumption
<1>4. QED
  BY <1>1, <1>2, <1>3

-----------------------------------------------------------------------------
(* The names of the counters and phases are told apart once, here. *)
LEMMA CounterUpdate ==
  ASSUME counts \in [Counters -> Nat], NEW m \in Nat, NEW n \in Nat, NEW k \in Nat
  PROVE  /\ [counts EXCEPT !["raw"] = m, !["inline"] = n, !["path"] = k] \in [Counters -> Nat]
         /\ [counts EXCEPT !["raw"] = m, !["duplicates"] = n, !["inline"] = k]
              \in [Counters -> Nat]
         /\ [counts EXCEPT !["baseline"] = m] \in [Counters -> Nat]
         /\ [counts EXCEPT !["threshold"] = m] \in [Counters -> Nat]
BY DEF Counters

(* The type invariant is inductive. *)
LEMMA TypeStep == TypeOK /\ [Next]_vars => TypeOK'
<1> SUFFICES ASSUME TypeOK, [Next]_vars PROVE TypeOK'
  OBVIOUS
<1>0. /\ collected \in SUBSET Finding /\ arrived \in SUBSET Finding /\ kept \in SUBSET Finding
      /\ opt.external \subseteq Adapters
  BY AuditAssumption DEF TypeOK, OwnFindings
<1>1. CASE Select
  BY <1>1 DEF Select, Selected, TypeOK, Phases
<1>2. ASSUME NEW r \in Rules, RunRule(r) PROVE TypeOK'
  <2>1. collected' \subseteq OwnFindings
    BY <1>2 DEF RunRule, TypeOK, FindingsOf
  <2>2. kept' \subseteq collected' \cup arrived'
    BY <1>2 DEF RunRule, TypeOK
  <2>3. QED
    BY <1>2, <2>1, <2>2 DEF RunRule, TypeOK
<1>3. CASE FirstPassEnds
  BY <1>3 DEF FirstPassEnds, TypeOK, Phases
<1>4. CASE NoReport
  BY <1>4 DEF NoReport, TypeOK, Phases
<1>5. ASSUME NEW report \in SUBSET Checks, Corroborate(report) PROVE TypeOK'
  <2>1. confidence' \in [Finding -> Confidences]
    BY <1>5 DEF Corroborate, Corroborated, TypeOK, Confidences, TENTATIVE, CERTAIN
  <2>2. confirmed' \subseteq Checks /\ gaps' \subseteq Checks /\ heard' \subseteq Checks
    BY <1>5 DEF Corroborate, ConfirmedBy
  <2>3. QED
    BY <1>5, <2>1, <2>2 DEF Corroborate, TypeOK, Phases
<1>6. CASE SecondPassEnds
  BY <1>6 DEF SecondPassEnds, TypeOK, Phases
<1>7. CASE Filter
  <2>1. kept' \subseteq collected
    BY <1>7 DEF Filter, Visible
  <2>2. severity' \in [Finding -> Severities]
    BY <1>7, ScopedSeverityType DEF Filter, TypeOK
  <2>3. /\ Cardinality(collected) \in Nat
        /\ Cardinality(collected) - Cardinality(Visible) \in Nat
        /\ Cardinality(ExcludedOnes) \in Nat
    BY <1>0, Sizes DEF Visible, ExcludedOnes
  <2>4. counts' \in [Counters -> Nat]
    BY <1>7, <2>3, CounterUpdate DEF Filter, TypeOK
  <2>5. QED
    BY <1>7, <2>1, <2>2, <2>4 DEF Filter, TypeOK, Phases
<1>8. CASE Assign
  <2>1. fingerprint' \in [Finding -> FP]
    BY <1>0, <1>8, FingerprintType DEF Assign, TypeOK
  <2>2. QED
    BY <1>0, <1>8, <2>1 DEF Assign, TypeOK, Phases
<1>9. ASSUME NEW a \in Adapters, CollectExternal(a) PROVE TypeOK'
  <2>1. Adoptable(a) \subseteq Finding \ OwnFindings
    BY AuditAssumption DEF Adoptable, OwnFindings
  <2>2. QED
    BY <1>9, <2>1 DEF CollectExternal, TypeOK
<1>10. CASE ToolsEnd
  <2>1. \A f \in Finding : ReportOf(Meta[f].tool) \in SUBSET Finding
    BY <1>0 DEF ReportOf
  <2>2. fingerprint' \in [Finding -> FP]
    BY <1>10, <2>1, FingerprintType DEF ToolsEnd, TypeOK
  <2>3. QED
    BY <1>10, <2>2 DEF ToolsEnd, TypeOK, Phases
<1>11. CASE Fold
  <2>1. Duplicates \in SUBSET Finding /\ Merged \in SUBSET Finding /\ kept' \in SUBSET Merged
    BY <1>0, <1>11 DEF Duplicates, Merged, Fold
  <2>2. /\ Cardinality(arrived) \in Nat
        /\ Cardinality(Duplicates) \in Nat
        /\ Cardinality(Merged) - Cardinality(kept') \in Nat
    BY <1>0, <2>1, Sizes
  <2>3. counts["raw"] + Cardinality(arrived) \in Nat
    BY <2>2 DEF TypeOK, Counters
  <2>4. counts["inline"] + (Cardinality(Merged) - Cardinality(kept')) \in Nat
    BY <2>2 DEF TypeOK, Counters
  <2>5. counts' \in [Counters -> Nat]
    BY <1>11, <2>2, <2>3, <2>4, CounterUpdate DEF Fold, TypeOK
  <2>6. kept' \subseteq collected \cup arrived
    BY <2>1 DEF Merged, TypeOK
  <2>7. QED
    BY <1>11, <2>5, <2>6 DEF Fold, TypeOK, Phases
<1>12. CASE FilterBaseline
  <2>1. kept' \in SUBSET kept
    BY <1>12 DEF FilterBaseline
  <2>2. counts' \in [Counters -> Nat]
    BY <1>0, <1>12, <2>1, Sizes, CounterUpdate DEF FilterBaseline, TypeOK
  <2>3. QED
    BY <1>12, <2>1, <2>2 DEF FilterBaseline, TypeOK, Phases
<1>13. CASE Override
  <2>1. \A f \in Finding : Overridden(f) => opt.overrides[Meta[f].rule] \in Severities
    BY AuditAssumption DEF Overridden, TypeOK
  <2>2. severity' \in [Finding -> Severities]
    BY <1>13, <2>1 DEF Override, TypeOK
  <2>3. QED
    BY <1>13, <2>2 DEF Override, TypeOK, Phases
<1>14. CASE Threshold
  <2>1. kept' \in SUBSET kept
    BY <1>14 DEF Threshold
  <2>2. counts' \in [Counters -> Nat]
    BY <1>0, <1>14, <2>1, Sizes, CounterUpdate DEF Threshold, TypeOK
  <2>3. QED
    BY <1>14, <2>1, <2>2 DEF Threshold, TypeOK, Phases
<1>15. CASE UNCHANGED vars
  BY <1>15 DEF vars, TypeOK
<1>16. QED
  BY <1>1, <1>2, <1>3, <1>4, <1>5, <1>6, <1>7, <1>8, <1>9, <1>10, <1>11, <1>12,
     <1>13, <1>14, <1>15 DEF Next, Done

LEMMA TypeInit == Init => TypeOK
<1> SUFFICES ASSUME Init PROVE TypeOK
  OBVIOUS
<1>1. severity \in [Finding -> Severities] /\ confidence \in [Finding -> Confidences]
  BY FindingAssumption DEF Init
<1>2. fingerprint \in [Finding -> FP] /\ counts \in [Counters -> Nat]
  BY DEF Init, FP
<1>3. QED
  BY <1>1, <1>2 DEF Init, TypeOK, Phases

(* Every reachable state of an audit is well typed, whatever the project: in *)
(* particular no counter of RunResult ever goes below zero.                  *)
THEOREM TypeCorrect == Spec => []TypeOK
<1>1. QED
  BY TypeInit, TypeStep, PTL DEF Spec

-----------------------------------------------------------------------------
(* The inductive invariants behind Accounting, IdentityUnique and LiveNeedsConsent. *)

BeforeFilter == {"start", "rules", "corroborate", "deferred", "filter"}
BeforeFold == {"assign", "tools", "fold"}

(* Until the filter loop nothing is kept or counted; from it to the fold only our *)
(* findings are kept; from then on the counters balance after every pass.         *)
Books ==
  /\ phase \in BeforeFilter => counts = [c \in Counters |-> 0]
  /\ phase \in BeforeFilter \cup {"assign"} => arrived = {}
  /\ phase \in BeforeFilter => kept = {}
  /\ phase \in BeforeFold => kept \subseteq collected /\ counts["duplicates"] = 0
  /\ phase \in BeforeFold \cup {"baseline"} => counts["baseline"] = 0
  /\ phase # "done" => counts["threshold"] = 0
  /\ phase \notin BeforeFilter =>
        counts["raw"] = Cardinality(kept) + counts["inline"] + counts["path"]
                          + counts["duplicates"] + counts["baseline"] + counts["threshold"]

(* From fp.assign on ours are told apart; from identified on each tool's are too. *)
Identities ==
  /\ phase \notin BeforeFilter \cup {"assign"} =>
        \A f, g \in kept : f # g => fingerprint[f] # fingerprint[g]
  /\ phase = "fold" =>
        \A f, g \in arrived :
           f # g /\ Meta[f].tool = Meta[g].tool => fingerprint[f] # fingerprint[g]

(* What was selected is what is waiting or has run. *)
Passes ==
  /\ phase = "start" => ran = {}
  /\ phase # "start" => skipped = Assess(Selected(opt))
  /\ phase \in {"rules", "corroborate", "deferred"} => ran \cup todo = Selected(opt)
  /\ phase \notin {"start", "rules", "corroborate", "deferred"} => ran = Selected(opt)

(* The phases each step leads from and to, and what it leaves of the books. *)
LEMMA BooksStep == TypeOK /\ Books /\ [Next]_vars => Books'
<1> SUFFICES ASSUME TypeOK, Books, [Next]_vars PROVE Books'
  OBVIOUS
<1> USE DEF BeforeFilter, BeforeFold
<1>0. /\ collected \in SUBSET Finding /\ arrived \in SUBSET Finding /\ kept \in SUBSET Finding
      /\ \A c \in Counters : counts[c] \in Nat
  BY DEF TypeOK, OwnFindings
<1>1. CASE Select
  BY <1>1 DEF Select, Books
<1>2. ASSUME NEW r \in Rules, RunRule(r) PROVE Books'
  BY <1>2 DEF RunRule, Books
<1>3. CASE FirstPassEnds
  BY <1>3 DEF FirstPassEnds, Books
<1>4. CASE NoReport
  BY <1>4 DEF NoReport, Books
<1>5. ASSUME NEW report \in SUBSET Checks, Corroborate(report) PROVE Books'
  BY <1>5 DEF Corroborate, Books
<1>6. CASE SecondPassEnds
  BY <1>6 DEF SecondPassEnds, Books
<1>7. CASE Filter
  <2>1. /\ Visible \in SUBSET collected /\ ExcludedOnes \in SUBSET Visible
        /\ kept' = Visible \ ExcludedOnes
    BY <1>7 DEF Filter, Visible, ExcludedOnes
  <2>2. /\ Cardinality(collected) \in Nat /\ Cardinality(Visible) \in Nat
        /\ Cardinality(ExcludedOnes) \in Nat /\ IsFiniteSet(Visible)
    BY <1>0, <2>1, Sizes
  <2>3. Visible \cap ExcludedOnes = ExcludedOnes
    BY <2>1
  <2>4. Cardinality(kept') = Cardinality(Visible) - Cardinality(ExcludedOnes)
    <3>1. Cardinality(Visible \ ExcludedOnes)
            = Cardinality(Visible) - Cardinality(Visible \cap ExcludedOnes)
      BY <2>2, FS_Difference
    <3>2. QED
      BY <2>1, <2>3, <3>1
  <2>5. /\ counts'["raw"] = Cardinality(collected)
        /\ counts'["inline"] = Cardinality(collected) - Cardinality(Visible)
        /\ counts'["path"] = Cardinality(ExcludedOnes)
        /\ counts'["duplicates"] = 0 /\ counts'["baseline"] = 0 /\ counts'["threshold"] = 0
    BY <1>7 DEF Filter, Books, Counters, TypeOK
  <2>6. counts'["raw"] = Cardinality(kept') + counts'["inline"] + counts'["path"]
          + counts'["duplicates"] + counts'["baseline"] + counts'["threshold"]
    BY <2>2, <2>4, <2>5
  <2>7. QED
    BY <1>7, <2>1, <2>5, <2>6 DEF Filter, Books
<1>8. CASE Assign
  BY <1>8 DEF Assign, Books
<1>9. ASSUME NEW a \in Adapters, CollectExternal(a) PROVE Books'
  BY <1>9 DEF CollectExternal, Books
<1>10. CASE ToolsEnd
  BY <1>10 DEF ToolsEnd, Books
<1>11. CASE Fold
  <2>1. /\ Duplicates \in SUBSET arrived /\ kept' \in SUBSET Merged
        /\ Merged = kept \cup (arrived \ Duplicates)
        /\ kept \cap (arrived \ Duplicates) = {}
        /\ arrived \cap Duplicates = Duplicates
    BY <1>11 DEF Fold, Duplicates, Merged, Books, TypeOK
  <2>2. /\ IsFiniteSet(arrived) /\ IsFiniteSet(kept)
        /\ Cardinality(arrived) \in Nat /\ Cardinality(kept) \in Nat
        /\ Cardinality(Duplicates) \in Nat
    BY <1>0, <2>1, Sizes
  <2>3. /\ IsFiniteSet(arrived \ Duplicates)
        /\ Cardinality(arrived \ Duplicates) = Cardinality(arrived) - Cardinality(Duplicates)
    BY <2>1, <2>2, FS_Difference
  <2>4. Cardinality(Merged)
          = Cardinality(kept) + Cardinality(arrived) - Cardinality(Duplicates)
    <3>1. Cardinality(kept \cap (arrived \ Duplicates)) = 0
      BY <2>1, FS_EmptySet
    <3>2. Cardinality(Merged) = Cardinality(kept) + Cardinality(arrived \ Duplicates)
                                  - Cardinality(kept \cap (arrived \ Duplicates))
      BY <2>1, <2>2, <2>3, FS_Union
    <3>3. QED
      BY <2>2, <2>3, <3>1, <3>2
  <2>5. Merged \in SUBSET Finding
    BY <1>0, <2>1
  <2>6. Cardinality(Merged) \in Nat /\ Cardinality(kept') \in Nat
    BY <2>1, <2>5, Sizes
  <2>7. /\ counts'["raw"] = counts["raw"] + Cardinality(arrived)
        /\ counts'["duplicates"] = Cardinality(Duplicates)
        /\ counts'["inline"] = counts["inline"] + (Cardinality(Merged) - Cardinality(kept'))
        /\ counts'["path"] = counts["path"]
        /\ counts'["baseline"] = counts["baseline"]
        /\ counts'["threshold"] = counts["threshold"]
    BY <1>11 DEF Fold, Counters, TypeOK
  <2>8. /\ counts["duplicates"] = 0
        /\ counts["raw"] = Cardinality(kept) + counts["inline"] + counts["path"]
             + counts["duplicates"] + counts["baseline"] + counts["threshold"]
    BY <1>11 DEF Fold, Books
  <2>9. /\ counts["raw"] \in Nat /\ counts["inline"] \in Nat /\ counts["path"] \in Nat
        /\ counts["baseline"] \in Nat /\ counts["threshold"] \in Nat
    BY <1>0 DEF Counters
  <2>10. counts'["raw"] = Cardinality(kept') + counts'["inline"] + counts'["path"]
          + counts'["duplicates"] + counts'["baseline"] + counts'["threshold"]
    BY <2>2, <2>4, <2>6, <2>7, <2>8, <2>9
  <2>11. QED
    BY <1>11, <2>7, <2>10 DEF Fold, Books
<1>12. CASE FilterBaseline
  <2>1. Cardinality(kept) \in Nat /\ Cardinality(kept') \in Nat
    BY <1>0, <1>12, Sizes DEF FilterBaseline
  <2>2. /\ counts'["baseline"] = Cardinality(kept) - Cardinality(kept')
        /\ \A c \in Counters \ {"baseline"} : counts'[c] = counts[c]
    BY <1>12 DEF FilterBaseline, Counters, TypeOK
  <2>3. /\ counts["baseline"] = 0
        /\ counts["raw"] = Cardinality(kept) + counts["inline"] + counts["path"]
             + counts["duplicates"] + counts["baseline"] + counts["threshold"]
    BY <1>12 DEF FilterBaseline, Books
  <2>4. QED
    BY <1>0, <1>12, <2>1, <2>2, <2>3 DEF FilterBaseline, Books, Counters
<1>13. CASE Override
  BY <1>13 DEF Override, Books
<1>14. CASE Threshold
  <2>1. Cardinality(kept) \in Nat /\ Cardinality(kept') \in Nat
    BY <1>0, <1>14, Sizes DEF Threshold
  <2>2. /\ counts'["threshold"] = Cardinality(kept) - Cardinality(kept')
        /\ \A c \in Counters \ {"threshold"} : counts'[c] = counts[c]
    BY <1>14 DEF Threshold, Counters, TypeOK
  <2>3. /\ counts["threshold"] = 0
        /\ counts["raw"] = Cardinality(kept) + counts["inline"] + counts["path"]
             + counts["duplicates"] + counts["baseline"] + counts["threshold"]
    BY <1>14 DEF Threshold, Books
  <2>4. QED
    BY <1>0, <1>14, <2>1, <2>2, <2>3 DEF Threshold, Books, Counters
<1>15. CASE UNCHANGED vars
  BY <1>15 DEF vars, Books
<1>16. QED
  BY <1>1, <1>2, <1>3, <1>4, <1>5, <1>6, <1>7, <1>8, <1>9, <1>10, <1>11, <1>12,
     <1>13, <1>14, <1>15 DEF Next, Done

(* The counters of RunResult account for every finding produced, on every audit. *)
THEOREM EveryFindingAccountedFor == Spec => []Accounting
<1>1. Init => Books
  BY DEF Init, Books, BeforeFilter, BeforeFold, Counters
<1>2. Books => Accounting
  BY DEF Books, Accounting, BeforeFilter
<1>3. QED
  BY <1>1, <1>2, BooksStep, TypeInit, TypeStep, PTL DEF Spec

-----------------------------------------------------------------------------
(* Fingerprints given by fp.assign and by identified keep their findings apart. *)
LEMMA IdentityStep == TypeOK /\ Books /\ Identities /\ [Next]_vars => Identities'
<1> SUFFICES ASSUME TypeOK, Books, Identities, [Next]_vars PROVE Identities'
  OBVIOUS
<1> USE DEF BeforeFilter
<1>0. /\ kept \in SUBSET Finding /\ arrived \in SUBSET Finding
      /\ fingerprint \in [Finding -> FP]
      /\ \A f \in collected : Meta[f].tool = Ours
      /\ \A f \in arrived : Meta[f].tool \in Adapters
  BY AuditAssumption DEF TypeOK, OwnFindings
<1>1. CASE Select
  BY <1>1 DEF Select, Identities
<1>2. ASSUME NEW r \in Rules, RunRule(r) PROVE Identities'
  BY <1>2 DEF RunRule, Identities
<1>3. CASE FirstPassEnds
  BY <1>3 DEF FirstPassEnds, Identities
<1>4. CASE NoReport
  BY <1>4 DEF NoReport, Identities
<1>5. ASSUME NEW report \in SUBSET Checks, Corroborate(report) PROVE Identities'
  BY <1>5 DEF Corroborate, Identities
<1>6. CASE SecondPassEnds
  BY <1>6 DEF SecondPassEnds, Identities
<1>7. CASE Filter
  BY <1>7 DEF Filter, Identities
<1>8. CASE Assign
  <2>1. kept \subseteq collected
    BY <1>8 DEF Assign, Books, BeforeFold
  <2>2. \A f \in kept : fingerprint'[f] = Fingerprint(f, kept)
    BY <1>0, <1>8 DEF Assign
  <2>3. \A f, g \in kept : f # g => Fingerprint(f, kept) # Fingerprint(g, kept)
    BY <1>0, <2>1, FingerprintsDiffer
  <2>4. QED
    BY <1>8, <2>2, <2>3 DEF Assign, Identities
<1>9. ASSUME NEW a \in Adapters, CollectExternal(a) PROVE Identities'
  BY <1>9 DEF CollectExternal, Identities
<1>10. CASE ToolsEnd
  <2>1. kept \subseteq collected /\ kept \cap arrived = {}
    BY <1>10 DEF ToolsEnd, Books, BeforeFold, TypeOK
  <2>2. \A f \in kept : fingerprint'[f] = fingerprint[f]
    BY <1>0, <1>10, <2>1 DEF ToolsEnd
  <2>3. \A f \in arrived : fingerprint'[f] = Fingerprint(f, ReportOf(Meta[f].tool))
    BY <1>0, <1>10 DEF ToolsEnd
  <2>4. ASSUME NEW f \in arrived, NEW g \in arrived, f # g, Meta[f].tool = Meta[g].tool
        PROVE  fingerprint'[f] # fingerprint'[g]
    <3>1. /\ f \in ReportOf(Meta[f].tool) /\ g \in ReportOf(Meta[f].tool)
          /\ ReportOf(Meta[f].tool) \in SUBSET Finding
      BY <1>0, <2>4 DEF ReportOf
    <3>2. Fingerprint(f, ReportOf(Meta[f].tool)) # Fingerprint(g, ReportOf(Meta[f].tool))
      BY <2>4, <3>1, FingerprintsDiffer
    <3>3. QED
      BY <2>3, <2>4, <3>2
  <2>5. kept' = kept /\ arrived' = arrived
    BY <1>10 DEF ToolsEnd
  <2>6. \A f, g \in kept' : f # g => fingerprint'[f] # fingerprint'[g]
    BY <1>10, <2>2, <2>5 DEF ToolsEnd, Identities
  <2>7. QED
    BY <2>4, <2>5, <2>6 DEF Identities
<1>11. CASE Fold
  <2>1. kept \subseteq collected
    BY <1>11 DEF Fold, Books, BeforeFold
  <2>2. ASSUME NEW f \in Merged, NEW g \in Merged, f # g, fingerprint[f] = fingerprint[g]
        PROVE  FALSE
    <3>1. ~(f \in kept /\ g \in kept)
      BY <1>11, <2>2 DEF Fold, Identities
    <3>2. ~(f \in kept /\ g \in arrived \ Duplicates)
      BY <1>0, <2>1, <2>2, AuditAssumption DEF Duplicates
    <3>3. ~(g \in kept /\ f \in arrived \ Duplicates)
      BY <1>0, <2>1, <2>2, AuditAssumption DEF Duplicates
    <3>4. ~(f \in arrived \ Duplicates /\ g \in arrived \ Duplicates)
      <4>1. SUFFICES ASSUME f \in arrived \ Duplicates, g \in arrived \ Duplicates
                     PROVE  FALSE
        OBVIOUS
      <4>2. Meta[f].tool # Meta[g].tool
        BY <1>11, <2>2, <4>1 DEF Fold, Identities
      <4>3. /\ Rank[Meta[f].tool] \in Nat /\ Rank[Meta[g].tool] \in Nat
            /\ Rank[Meta[f].tool] # Rank[Meta[g].tool]
        BY <1>0, <4>1, <4>2, AuditAssumption
      <4>4. Rank[Meta[f].tool] < Rank[Meta[g].tool] \/ Rank[Meta[g].tool] < Rank[Meta[f].tool]
        BY <4>3
      <4>5. QED
        BY <2>2, <4>1, <4>4 DEF Duplicates
    <3>5. QED
      BY <2>2, <3>1, <3>2, <3>3, <3>4 DEF Merged
  <2>3. kept' \subseteq Merged /\ fingerprint' = fingerprint /\ phase' = "baseline"
    BY <1>11 DEF Fold
  <2>4. QED
    BY <2>2, <2>3 DEF Identities
<1>12. CASE FilterBaseline
  BY <1>12 DEF FilterBaseline, Identities
<1>13. CASE Override
  BY <1>13 DEF Override, Identities
<1>14. CASE Threshold
  BY <1>14 DEF Threshold, Identities
<1>15. CASE UNCHANGED vars
  BY <1>15 DEF vars, Identities
<1>16. QED
  BY <1>1, <1>2, <1>3, <1>4, <1>5, <1>6, <1>7, <1>8, <1>9, <1>10, <1>11, <1>12,
     <1>13, <1>14, <1>15 DEF Next, Done

(* No two findings of a report share a fingerprint, so a baseline entry hides one *)
(* finding at most (fingerprint.assign, merge).                                   *)
THEOREM OneFingerprintOneFinding == Spec => []IdentityUnique
<1>1. Init => Books /\ Identities
  BY DEF Init, Books, Identities, BeforeFilter, BeforeFold, Counters
<1>2. Identities => IdentityUnique
  BY DEF Identities, IdentityUnique, BeforeFilter
<1>3. QED
  BY <1>1, <1>2, BooksStep, IdentityStep, TypeInit, TypeStep, PTL DEF Spec

-----------------------------------------------------------------------------
(* Rules run are rules selected, and selection respects the tier. *)
LEMMA PassesStep == TypeOK /\ Passes /\ [Next]_vars => Passes'
<1> SUFFICES ASSUME TypeOK, Passes, [Next]_vars PROVE Passes'
  OBVIOUS
<1>1. CASE Select
  BY <1>1 DEF Select, Passes
<1>2. ASSUME NEW r \in Rules, RunRule(r) PROVE Passes'
  <2>1. /\ phase' = phase /\ phase \in {"rules", "deferred"} /\ opt' = opt /\ skipped' = skipped
        /\ ran' \cup todo' = ran \cup todo
    BY <1>2 DEF RunRule
  <2>2. QED
    BY <2>1 DEF Passes
<1>3. CASE FirstPassEnds
  BY <1>3 DEF FirstPassEnds, Passes
<1>4. CASE NoReport
  BY <1>4 DEF NoReport, Passes
<1>5. ASSUME NEW report \in SUBSET Checks, Corroborate(report) PROVE Passes'
  BY <1>5 DEF Corroborate, Passes
<1>6. CASE SecondPassEnds
  BY <1>6 DEF SecondPassEnds, Passes
<1>7. CASE Filter
  BY <1>7 DEF Filter, Passes
<1>8. CASE Assign
  BY <1>8 DEF Assign, Passes
<1>9. ASSUME NEW a \in Adapters, CollectExternal(a) PROVE Passes'
  BY <1>9 DEF CollectExternal, Passes
<1>10. CASE ToolsEnd
  BY <1>10 DEF ToolsEnd, Passes
<1>11. CASE Fold
  BY <1>11 DEF Fold, Passes
<1>12. CASE FilterBaseline
  BY <1>12 DEF FilterBaseline, Passes
<1>13. CASE Override
  BY <1>13 DEF Override, Passes
<1>14. CASE Threshold
  BY <1>14 DEF Threshold, Passes
<1>15. CASE UNCHANGED vars
  BY <1>15 DEF vars, Passes
<1>16. QED
  BY <1>1, <1>2, <1>3, <1>4, <1>5, <1>6, <1>7, <1>8, <1>9, <1>10, <1>11, <1>12,
     <1>13, <1>14, <1>15 DEF Next, Done

(* Without a live context no live rule runs, whatever tiers and inclusions were *)
(* asked for, and each live rule that did not run is listed as skipped.         *)
THEOREM LiveTierNeedsConsent == Spec => []LiveNeedsConsent
<1>1. Init => Passes
  BY DEF Init, Passes
<1>2. TypeOK /\ Passes => LiveNeedsConsent
  <2> SUFFICES ASSUME TypeOK, Passes, phase # "start" PROVE LiveNeedsConsent
    BY DEF LiveNeedsConsent
  <2>1. ran \subseteq Selected(opt)
    BY DEF Passes
  <2>2. ~opt.live => \A r \in Selected(opt) : TierOf[r] # "live"
    BY DEF Selected, TiersOf
  <2>3. ASSUME phase # "rules", todo \cap Rules = {} PROVE ran = Selected(opt)
    BY <2>3 DEF Passes, Selected
  <2>4. ASSUME NEW r \in Rules, TierOf[r] = "live", r \notin Selected(opt)
        PROVE  \E s \in skipped : s.rule = r
    <3>1. [rule |-> r, covered_by |-> FallbackOf[r] \cap Selected(opt)] \in skipped
      BY <2>4 DEF Passes, Assess
    <3>2. QED
      BY <3>1
  <2>5. QED
    BY <2>1, <2>2, <2>3, <2>4 DEF LiveNeedsConsent
<1>3. QED
  BY <1>1, <1>2, PassesStep, TypeInit, TypeStep, PTL DEF Spec

(* Confirmation by Django raises a confidence; nothing lowers one (corroborate). *)
THEOREM ConfidenceOnlyRises == Spec => SilenceNeverLowers
<1>1. TypeOK /\ [Next]_vars => [\A f \in Finding : confidence'[f] >= confidence[f]]_vars
  <2> SUFFICES ASSUME TypeOK, Next PROVE \A f \in Finding : confidence'[f] >= confidence[f]
    OBVIOUS
  <2>1. \A f \in Finding : confidence[f] \in Confidences
    BY DEF TypeOK
  <2>2. ASSUME NEW report \in SUBSET Checks, Corroborate(report)
        PROVE  \A f \in Finding : confidence'[f] >= confidence[f]
    BY <2>1, <2>2 DEF Corroborate, Corroborated, Confidences, TENTATIVE, CERTAIN
  <2>3. ASSUME confidence' = confidence PROVE \A f \in Finding : confidence'[f] >= confidence[f]
    BY <2>1, <2>3 DEF Confidences, TENTATIVE, CERTAIN
  <2>4. QED
    BY <2>2, <2>3 DEF Next, Select, RunRule, FirstPassEnds, NoReport, SecondPassEnds, Filter,
       Assign, CollectExternal, ToolsEnd, Fold, FilterBaseline, Override, Threshold, Done, vars
<1>2. QED
  BY <1>1, TypeInit, TypeStep, PTL DEF Spec, SilenceNeverLowers

-----------------------------------------------------------------------------
(* What the passes have made of the list so far. *)

BeforeReport == {"start", "rules", "corroborate"}
AfterReport == {"deferred", "filter"}

(* Identities are fixed by what was found: nothing the filters do changes them. *)
Shown == {f \in OursToReport \cup arrived : ~Suppressed(f) /\ ~RepeatsAnEarlier(f)}
NotAccepted == {f \in Shown : IdentityOf(f) \notin opt.baseline}
Asked ==
  {f \in NotAccepted : /\ FinalSeverity(f) >= opt.min_severity
                       /\ FinalConfidence(f) >= opt.min_confidence}

FilteredSeverity(f) == IF f \in OursToReport THEN ScopedSeverity(f) ELSE Meta[f].severity

(* Before Django has spoken no confidence was touched, and afterwards those are raised *)
(* that it speaks of; the second pass adds none of the first pass's rules.             *)
Weighed ==
  /\ phase \in BeforeReport =>
        /\ heard = {} /\ \A f \in Finding : confidence[f] = Meta[f].confidence
        /\ \A f \in collected : Meta[f].rule # GapRule
  /\ phase \notin BeforeReport => \A f \in Finding : confidence[f] = FinalConfidence(f)
  /\ phase \in {"corroborate", "deferred"} => todo \subseteq AFTER_CORROBORATION

(* The list, the severities and the identities after each pass. *)
Listed ==
  /\ phase \in BeforeFilter => \A f \in Finding : severity[f] = Meta[f].severity
  /\ phase \in BeforeFold =>
        kept = OursToReport /\ \A f \in Finding : severity[f] = FilteredSeverity(f)
  /\ phase \in {"tools", "fold"} =>
        /\ todo \subseteq opt.external /\ (opt.external = {} => arrived = {})
        /\ \A f \in OursToReport : fingerprint[f] = IdentityOf(f)
  /\ phase = "fold" => \A f \in arrived : fingerprint[f] = IdentityOf(f)
  /\ phase \in {"baseline", "override"} =>
        \A f \in Finding : severity[f] = FilteredSeverity(f)
  /\ phase = "baseline" =>
        kept = Shown /\ \A f \in Shown : fingerprint[f] = IdentityOf(f)
  /\ phase \in {"override", "threshold"} => kept = NotAccepted
  /\ phase = "threshold" => \A f \in NotAccepted : severity[f] = FinalSeverity(f)
  /\ phase = "done" => kept = Asked

(* What was said of a finding stays said while what was found and heard stays. *)
LEMMA WeighedStep == TypeOK /\ Weighed /\ [Next]_vars => Weighed'
<1> SUFFICES ASSUME TypeOK, Weighed, [Next]_vars PROVE Weighed'
  OBVIOUS
<1> USE DEF BeforeReport
<1>1. CASE Select
  BY <1>1 DEF Select, Weighed
<1>2. ASSUME NEW r \in Rules, RunRule(r) PROVE Weighed'
  <2>1. /\ phase' = phase /\ heard' = heard /\ confidence' = confidence /\ todo' = todo \ {r}
        /\ collected \subseteq collected' /\ \A f \in collected' \ collected : Meta[f].rule = r
    BY <1>2 DEF RunRule, FindingsOf
  <2>2. CASE phase = "rules"
    <3>1. r # GapRule
      BY <1>2, <2>2 DEF RunRule, AFTER_CORROBORATION
    <3>2. QED
      BY <2>1, <2>2, <3>1 DEF Weighed
  <2>3. CASE phase = "deferred"
    <3>1. r = GapRule
      BY <1>2, <2>3 DEF RunRule, Weighed, AFTER_CORROBORATION
    <3>2. \A f \in Finding : FinalConfidence(f)' = FinalConfidence(f)
      BY <2>1, <3>1 DEF FinalConfidence, Agrees
    <3>3. QED
      BY <2>1, <2>3, <3>2 DEF Weighed
  <2>4. QED
    BY <1>2, <2>2, <2>3 DEF RunRule
<1>3. CASE FirstPassEnds
  BY <1>3 DEF FirstPassEnds, Weighed
<1>4. CASE NoReport
  <2>1. /\ phase = "corroborate" /\ phase' = "deferred"
        /\ UNCHANGED <<heard, collected, confidence, todo>>
    BY <1>4 DEF NoReport
  <2>2. heard' = {} /\ \A f \in Finding : confidence'[f] = Meta[f].confidence
    BY <2>1 DEF Weighed
  <2>3. \A f \in Finding : FinalConfidence(f)' = Meta[f].confidence
    BY <2>2 DEF FinalConfidence, Agrees
  <2>4. QED
    BY <2>1, <2>2, <2>3 DEF Weighed
<1>5. ASSUME NEW report \in SUBSET Checks, Corroborate(report) PROVE Weighed'
  <2>1. /\ phase = "corroborate" /\ phase' = "deferred" /\ heard' = report
        /\ todo' = todo /\ collected' = collected
        /\ confidence' = [f \in Finding |-> IF f \in collected THEN Corroborated(f, report)
                                            ELSE confidence[f]]
    BY <1>5 DEF Corroborate
  <2>2. /\ \A f \in Finding : confidence[f] = Meta[f].confidence
        /\ \A f \in collected : Meta[f].rule # GapRule
        /\ todo \subseteq AFTER_CORROBORATION
    BY <2>1 DEF Weighed
  <2>3. \A f \in Finding : confidence'[f] = FinalConfidence(f)'
    BY <2>1, <2>2 DEF FinalConfidence, Corroborated, Agrees
  <2>4. QED
    BY <2>1, <2>2, <2>3 DEF Weighed
<1>6. ASSUME phase \notin BeforeReport, phase' \notin BeforeReport \cup {"deferred"},
             UNCHANGED <<heard, collected, confidence>>
      PROVE  Weighed'
  <2>1. \A f \in Finding : FinalConfidence(f)' = FinalConfidence(f)
    BY <1>6 DEF FinalConfidence, Agrees
  <2>2. QED
    BY <1>6, <2>1 DEF Weighed
<1>7. ASSUME UNCHANGED vars PROVE Weighed'
  BY <1>7 DEF vars, Weighed, FinalConfidence, Agrees
<1>8. CASE SecondPassEnds
  BY <1>6, <1>8 DEF SecondPassEnds
<1>9. CASE Filter
  BY <1>6, <1>9 DEF Filter
<1>10. CASE Assign
  BY <1>6, <1>10 DEF Assign
<1>11. ASSUME NEW a \in Adapters, CollectExternal(a) PROVE Weighed'
  BY <1>6, <1>11 DEF CollectExternal
<1>12. CASE ToolsEnd
  BY <1>6, <1>12 DEF ToolsEnd
<1>13. CASE Fold
  BY <1>6, <1>13 DEF Fold
<1>14. CASE FilterBaseline \/ Override \/ Threshold
  BY <1>6, <1>14 DEF FilterBaseline, Override, Threshold
<1>15. QED
  BY <1>1, <1>2, <1>3, <1>4, <1>5, <1>7, <1>8, <1>9, <1>10, <1>11, <1>12, <1>13, <1>14
  DEF Next, Done

(* What is said of a finding depends on what was found, heard and asked, and not on the *)
(* list as it stands.                                                                   *)
LEMMA SaidOfWhatWasFound ==
  ASSUME UNCHANGED <<opt, collected, arrived>>
  PROVE  /\ OursToReport' = OursToReport /\ Shown' = Shown /\ NotAccepted' = NotAccepted
         /\ \A f : /\ IdentityOf(f)' = IdentityOf(f) /\ FinalSeverity(f)' = FinalSeverity(f)
                   /\ FilteredSeverity(f)' = FilteredSeverity(f)
<1>1. OursToReport' = OursToReport
  BY DEF OursToReport
<1>2. \A f : IdentityOf(f)' = IdentityOf(f)
  BY <1>1 DEF IdentityOf, ReportOf
<1>3. \A f : RepeatsAnEarlier(f)' = RepeatsAnEarlier(f)
  BY <1>1, <1>2 DEF RepeatsAnEarlier
<1>4. Shown' = Shown
  BY <1>1, <1>3 DEF Shown
<1>5. NotAccepted' = NotAccepted
  BY <1>2, <1>4 DEF NotAccepted
<1>6. \A f : FinalSeverity(f)' = FinalSeverity(f) /\ FilteredSeverity(f)' = FilteredSeverity(f)
  BY <1>1 DEF FinalSeverity, FilteredSeverity, Overridden
<1>7. QED
  BY <1>1, <1>2, <1>4, <1>5, <1>6

LEMMA ListedStep == TypeOK /\ Books /\ Weighed /\ Listed /\ [Next]_vars => Listed'
<1> SUFFICES ASSUME TypeOK, Books, Weighed, Listed, [Next]_vars PROVE Listed'
  OBVIOUS
<1> USE DEF BeforeFilter, BeforeFold
<1>0. /\ collected \in SUBSET Finding /\ arrived \in SUBSET Finding
      /\ collected \cap arrived = {} /\ OursToReport \subseteq collected
      /\ \A f \in collected : Meta[f].tool = Ours
      /\ \A f \in arrived : Meta[f].tool \in Adapters
  BY AuditAssumption DEF TypeOK, OwnFindings, OursToReport
<1>1. CASE Select
  BY <1>1 DEF Select, Listed
<1>2. ASSUME NEW r \in Rules, RunRule(r) PROVE Listed'
  BY <1>2 DEF RunRule, Listed
<1>3. CASE FirstPassEnds
  BY <1>3 DEF FirstPassEnds, Listed
<1>4. CASE NoReport
  BY <1>4 DEF NoReport, Listed
<1>5. ASSUME NEW report \in SUBSET Checks, Corroborate(report) PROVE Listed'
  BY <1>5 DEF Corroborate, Listed
<1>6. CASE SecondPassEnds
  BY <1>6 DEF SecondPassEnds, Listed
<1>7. CASE Filter
  <2>1. /\ phase = "filter" /\ phase' = "assign" /\ UNCHANGED <<opt, collected, arrived>>
        /\ kept' = Visible \ ExcludedOnes
        /\ severity' = [f \in Finding |-> IF f \in kept' THEN ScopedSeverity(f) ELSE severity[f]]
    BY <1>7 DEF Filter
  <2>2. kept' = OursToReport
    BY <2>1 DEF Visible, ExcludedOnes, OursToReport
  <2>3. \A f \in Finding : severity'[f] = FilteredSeverity(f)
    BY <2>1, <2>2 DEF Listed, FilteredSeverity
  <2>4. QED
    BY <2>1, <2>2, <2>3, SaidOfWhatWasFound DEF Listed
<1>8. CASE Assign
  <2>1. /\ phase = "assign" /\ phase' = "tools" /\ UNCHANGED <<opt, collected, arrived>>
        /\ kept' = kept /\ severity' = severity /\ todo' = opt.external /\ arrived = {}
        /\ fingerprint' = [f \in Finding |-> IF f \in kept THEN Fingerprint(f, kept)
                                             ELSE fingerprint[f]]
    BY <1>8 DEF Assign, Books
  <2>2. \A f \in OursToReport : fingerprint'[f] = IdentityOf(f)
    BY <1>0, <2>1 DEF Listed, IdentityOf
  <2>3. QED
    BY <2>1, <2>2, SaidOfWhatWasFound DEF Listed
<1>9. ASSUME NEW a \in Adapters, CollectExternal(a) PROVE Listed'
  <2>1. /\ phase = "tools" /\ phase' = "tools" /\ a \in opt.external /\ kept' = kept
        /\ todo' \subseteq opt.external
        /\ UNCHANGED <<opt, collected, severity, fingerprint>>
    BY <1>9 DEF CollectExternal, Listed
  <2>2. OursToReport' = OursToReport
    BY <2>1 DEF OursToReport
  <2>3. \A f \in OursToReport : IdentityOf(f)' = IdentityOf(f)
    BY <1>0, <2>1, <2>2 DEF IdentityOf
  <2>4. \A f \in Finding : FilteredSeverity(f)' = FilteredSeverity(f)
    BY <2>2 DEF FilteredSeverity
  <2>5. QED
    BY <2>1, <2>2, <2>3, <2>4 DEF Listed
<1>10. CASE ToolsEnd
  <2>1. /\ phase = "tools" /\ phase' = IF opt.external = {} THEN "baseline" ELSE "fold"
        /\ UNCHANGED <<opt, collected, arrived, kept, severity, todo>>
        /\ fingerprint' = [f \in Finding |-> IF f \in arrived
                             THEN Fingerprint(f, ReportOf(Meta[f].tool)) ELSE fingerprint[f]]
    BY <1>10 DEF ToolsEnd
  <2>2. \A f \in OursToReport : fingerprint'[f] = IdentityOf(f)
    BY <1>0, <2>1 DEF Listed
  <2>3. \A f \in arrived : fingerprint'[f] = IdentityOf(f)
    BY <1>0, <2>1 DEF IdentityOf
  <2>4. CASE opt.external # {}
    BY <2>1, <2>2, <2>3, <2>4, SaidOfWhatWasFound DEF Listed
  <2>5. CASE opt.external = {}
    <3>1. arrived = {} /\ kept = OursToReport
      BY <2>1, <2>5 DEF Listed
    <3>2. \A f \in OursToReport : ~Suppressed(f) /\ ~RepeatsAnEarlier(f)
      <4>1. Rank[Ours] \in Nat
        BY AuditAssumption
      <4>2. QED
        BY <1>0, <3>1, <4>1 DEF OursToReport, RepeatsAnEarlier
    <3>3. kept = Shown
      BY <3>1, <3>2 DEF Shown
    <3>4. QED
      BY <2>1, <2>2, <2>5, <3>1, <3>3, SaidOfWhatWasFound DEF Listed
  <2>6. QED
    BY <2>4, <2>5
<1>11. CASE Fold
  <2>1. /\ phase = "fold" /\ phase' = "baseline" /\ UNCHANGED <<opt, collected, arrived>>
        /\ severity' = severity /\ fingerprint' = fingerprint
        /\ kept' = {f \in Merged : ~Suppressed(f)} /\ kept = OursToReport
    BY <1>11 DEF Fold, Listed
  <2>2. \A f \in OursToReport \cup arrived : fingerprint[f] = IdentityOf(f)
    BY <2>1 DEF Listed
  <2>3. Duplicates = {f \in arrived : RepeatsAnEarlier(f)}
    BY <2>1, <2>2 DEF Duplicates, RepeatsAnEarlier
  <2>4. \A f \in OursToReport : ~RepeatsAnEarlier(f)
    <3>1. Rank[Ours] \in Nat /\ \A a \in Adapters : Rank[a] \in Nat /\ Rank[Ours] < Rank[a]
      BY AuditAssumption
    <3>2. QED
      BY <1>0, <3>1 DEF RepeatsAnEarlier
  <2>5. kept' = Shown
    BY <2>1, <2>3, <2>4 DEF Merged, Shown
  <2>6. Shown \subseteq OursToReport \cup arrived
    BY DEF Shown
  <2>7. QED
    BY <2>1, <2>2, <2>5, <2>6, SaidOfWhatWasFound DEF Listed
<1>12. CASE FilterBaseline
  <2>1. /\ phase = "baseline" /\ phase' = "override" /\ UNCHANGED <<opt, collected, arrived>>
        /\ severity' = severity /\ kept' = {f \in kept : ~Accepted(f)}
    BY <1>12 DEF FilterBaseline
  <2>2. kept' = NotAccepted
    BY <2>1 DEF Listed, Accepted, NotAccepted
  <2>3. QED
    BY <2>1, <2>2, SaidOfWhatWasFound DEF Listed
<1>13. CASE Override
  <2>1. /\ phase = "override" /\ phase' = "threshold" /\ UNCHANGED <<opt, collected, arrived>>
        /\ kept' = kept
        /\ severity' = [f \in Finding |-> IF f \in kept /\ Overridden(f)
                          THEN opt.overrides[Meta[f].rule] ELSE severity[f]]
    BY <1>13 DEF Override
  <2>2. kept = NotAccepted /\ NotAccepted \subseteq OursToReport \cup arrived
    BY <2>1 DEF Listed, NotAccepted, Shown
  <2>3. \A f \in NotAccepted : f \in Finding /\ severity[f] = FilteredSeverity(f)
    BY <1>0, <2>1, <2>2 DEF Listed
  <2>4. \A f \in NotAccepted : severity'[f] = FinalSeverity(f)
    <3>1. \A f \in OursToReport \cup arrived : f \in collected <=> f \in OursToReport
      BY <1>0
    <3>2. QED
      BY <2>1, <2>2, <2>3, <3>1 DEF FilteredSeverity, FinalSeverity
  <2>5. QED
    BY <2>1, <2>2, <2>4, SaidOfWhatWasFound DEF Listed
<1>14. CASE Threshold
  <2>1. /\ phase = "threshold" /\ phase' = "done" /\ kept' = {f \in kept : PassesThreshold(f)}
        /\ UNCHANGED <<opt, collected, arrived, heard, severity, confidence>>
    BY <1>14 DEF Threshold
  <2>2. kept = NotAccepted /\ NotAccepted \subseteq OursToReport \cup arrived
    BY <2>1 DEF Listed, NotAccepted, Shown
  <2>3. \A f \in NotAccepted :
           severity[f] = FinalSeverity(f) /\ confidence[f] = FinalConfidence(f)
    BY <1>0, <2>1, <2>2 DEF Listed, Weighed, BeforeReport
  <2>4. kept' = Asked
    BY <2>1, <2>2, <2>3 DEF PassesThreshold, Asked
  <2>5. \A f : FinalConfidence(f)' = FinalConfidence(f) /\ FinalSeverity(f)' = FinalSeverity(f)
    BY <2>1, SaidOfWhatWasFound DEF FinalConfidence, Agrees
  <2>6. Asked' = Asked
    BY <2>1, <2>5, SaidOfWhatWasFound DEF Asked
  <2>7. QED
    BY <2>1, <2>4, <2>6 DEF Listed
<1>15. CASE UNCHANGED vars
  <2>1. UNCHANGED <<opt, collected, arrived, heard, phase, kept, severity, fingerprint, todo>>
    BY <1>15 DEF vars
  <2>2. \A f : FinalConfidence(f)' = FinalConfidence(f)
    BY <2>1 DEF FinalConfidence, Agrees
  <2>3. Asked' = Asked
    BY <2>1, <2>2, SaidOfWhatWasFound DEF Asked
  <2>4. QED
    BY <2>1, <2>3, SaidOfWhatWasFound DEF Listed
<1>16. QED
  BY <1>1, <1>2, <1>3, <1>4, <1>5, <1>6, <1>7, <1>8, <1>9, <1>10, <1>11, <1>12,
     <1>13, <1>14, <1>15 DEF Next, Done

(* The report is exactly what directives, exclusions, the baseline, the overrides and *)
(* the thresholds make of what was found (engine._audit).                             *)
THEOREM TheReportIsAsAsked == Spec => []ReportIsAsAsked
<1>1. Init => Books /\ Weighed /\ Listed
  <2>1. Init => Books
    BY DEF Init, Books, BeforeFilter, BeforeFold, Counters
  <2>2. Init => Weighed
    BY DEF Init, Weighed, BeforeReport
  <2>3. Init => Listed
    BY DEF Init, Listed, BeforeFilter, BeforeFold
  <2>4. QED
    BY <2>1, <2>2, <2>3
<1>2. Listed => ReportIsAsAsked
  BY DEF Listed, ReportIsAsAsked, Asked, NotAccepted, Shown
<1>3. QED
  BY <1>1, <1>2, BooksStep, WeighedStep, ListedStep, TypeInit, TypeStep, PTL DEF Spec

-----------------------------------------------------------------------------
(* What Django said, between its report and the filter loop. *)

(* Until Django has spoken, DJS-028 has not run and yielded nothing; from then *)
(* on what was not confirmed is a gap, and its findings are those of the gaps. *)
Corroboration ==
  /\ phase \in BeforeReport =>
        /\ heard = {} /\ confirmed = {} /\ gaps = {}
        /\ GapRule \notin ran
        /\ \A f \in collected : Meta[f].rule # GapRule
  /\ phase \in AfterReport =>
        /\ gaps = (heard \cap SecurityChecks) \ confirmed
        /\ gaps # {} => opt.live
        /\ \A f \in collected : Meta[f].rule = GapRule => f \in GapFindings
        /\ GapRule \in ran \ rule_errors => GapFindings \subseteq collected
        /\ \A c \in confirmed :
              \E f \in collected : Meta[f].rule = CORROBORATES[c] /\ confidence[f] = CERTAIN

LEMMA CorroborationStep == TypeOK /\ Corroboration /\ Passes /\ [Next]_vars => Corroboration'
<1> SUFFICES ASSUME TypeOK, Corroboration, Passes, [Next]_vars PROVE Corroboration'
  OBVIOUS
<1> USE DEF BeforeReport, AfterReport
<1>1. CASE Select
  BY <1>1 DEF Select, Corroboration
<1>2. ASSUME NEW r \in Rules, RunRule(r) PROVE Corroboration'
  <2>1. /\ phase' = phase /\ opt' = opt /\ heard' = heard /\ confirmed' = confirmed
        /\ gaps' = gaps /\ confidence' = confidence /\ ran' = ran \cup {r}
        /\ collected \subseteq collected' /\ rule_errors \subseteq rule_errors'
        /\ \A f \in collected' \ collected : Meta[f].rule = r
    BY <1>2 DEF RunRule, FindingsOf
  <2>2. CASE phase = "rules"
    <3>1. r # GapRule
      BY <1>2, <2>2 DEF RunRule, AFTER_CORROBORATION
    <3>2. QED
      BY <2>1, <2>2, <3>1 DEF Corroboration
  <2>3. CASE phase = "deferred"
    <3>1. GapFindings' = GapFindings
      BY <2>1 DEF GapFindings
    <3>2. \A f \in collected' \ collected : Meta[f].rule = GapRule => f \in GapFindings
      BY <1>2, <2>1 DEF RunRule, Yields
    <3>3. r = GapRule => r \in rule_errors' \/ GapFindings \subseteq collected'
      BY <1>2 DEF RunRule, Yields
    <3>4. QED
      BY <2>1, <2>3, <3>1, <3>2, <3>3 DEF Corroboration
  <2>4. QED
    BY <1>2, <2>2, <2>3 DEF RunRule
<1>3. CASE FirstPassEnds
  BY <1>3 DEF FirstPassEnds, Corroboration
<1>4. CASE NoReport
  <2>1. /\ phase = "corroborate" /\ phase' = "deferred"
        /\ UNCHANGED <<opt, heard, confirmed, gaps, ran, rule_errors, collected, confidence>>
    BY <1>4 DEF NoReport
  <2>2. QED
    BY <2>1 DEF Corroboration, GapFindings
<1>5. ASSUME NEW report \in SUBSET Checks, Corroborate(report) PROVE Corroboration'
  <2>1. /\ phase = "corroborate" /\ phase' = "deferred" /\ opt.live
        /\ heard' = report /\ confirmed' = ConfirmedBy(report)
        /\ gaps' = (report \cap SecurityChecks) \ ConfirmedBy(report)
        /\ UNCHANGED <<opt, ran, rule_errors, collected>>
    BY <1>5 DEF Corroborate
  <2>2. ASSUME NEW c \in ConfirmedBy(report)
        PROVE  \E f \in collected : Meta[f].rule = CORROBORATES[c] /\ confidence'[f] = CERTAIN
    <3>1. PICK f \in collected : Meta[f].rule = CORROBORATES[c]
      BY <2>2 DEF ConfirmedBy
    <3>2. Agrees(f, report) /\ f \in Finding
      BY <2>2, <3>1 DEF ConfirmedBy, Agrees, TypeOK, OwnFindings
    <3>3. confidence'[f] = CERTAIN
      BY <1>5, <3>1, <3>2 DEF Corroborate, Corroborated
    <3>4. QED
      BY <3>1, <3>3
  <2>3. QED
    BY <2>1, <2>2 DEF Corroboration
<1>6. CASE SecondPassEnds
  <2>1. /\ phase = "deferred" /\ phase' = "filter"
        /\ UNCHANGED <<opt, heard, confirmed, gaps, ran, rule_errors, collected, confidence>>
    BY <1>6 DEF SecondPassEnds
  <2>2. QED
    BY <2>1 DEF Corroboration, GapFindings
<1>7. CASE phase \notin BeforeReport \cup {"deferred"} /\ phase' \notin BeforeReport \cup AfterReport
  BY <1>7 DEF Corroboration
<1>8. ASSUME \/ Filter \/ Assign \/ \E a \in Adapters : CollectExternal(a)
             \/ ToolsEnd \/ Fold \/ FilterBaseline \/ Override \/ Threshold
      PROVE  phase \notin BeforeReport \cup {"deferred"} /\ phase' \notin BeforeReport \cup AfterReport
  BY <1>8 DEF Filter, Assign, CollectExternal, ToolsEnd, Fold, FilterBaseline, Override, Threshold
<1>9. CASE UNCHANGED vars
  BY <1>9 DEF vars, Corroboration, GapFindings
<1>10. QED
  BY <1>1, <1>2, <1>3, <1>4, <1>5, <1>6, <1>7, <1>8, <1>9 DEF Next, Done

(* Each security check of Django's is confirmed on a finding of ours or a gap: *)
(* never both, and neither only where DJS-028 did not run or raised.           *)
THEOREM EverySecurityCheckIsHeard == Spec => []DjangoIsHeard
<1>1. Init => Corroboration /\ Passes
  BY DEF Init, Corroboration, Passes, BeforeReport, AfterReport
<1>2. TypeOK /\ Corroboration => DjangoIsHeard
  <2> SUFFICES ASSUME TypeOK, Corroboration, phase = "filter", NEW c \in heard \cap SecurityChecks
               PROVE  IF c \in confirmed
                      THEN /\ GapFinding[c] \notin collected
                           /\ \E f \in collected :
                                Meta[f].rule = CORROBORATES[c] /\ confidence[f] = CERTAIN
                      ELSE GapRule \in ran \ rule_errors => GapFinding[c] \in collected
    BY DEF DjangoIsHeard
  <2> USE DEF BeforeReport, AfterReport
  <2>1. CASE c \in confirmed
    <3>1. GapFinding[c] \in GapFindings => c \in gaps
      BY GapsAreToldApart DEF GapFindings, TypeOK
    <3>2. Meta[GapFinding[c]].rule = GapRule
      BY AuditAssumption DEF FindingsOf, TypeOK
    <3>3. c \notin gaps
      BY <2>1 DEF Corroboration
    <3>4. QED
      BY <2>1, <3>1, <3>2, <3>3 DEF Corroboration
  <2>2. CASE c \notin confirmed
    <3>1. c \in gaps
      BY <2>2 DEF Corroboration
    <3>2. GapFinding[c] \in GapFindings
      BY <3>1 DEF GapFindings, Corroboration
    <3>3. QED
      BY <2>2, <3>2 DEF Corroboration
  <2>3. QED
    BY <2>1, <2>2
<1>3. QED
  BY <1>1, <1>2, CorroborationStep, PassesStep, TypeInit, TypeStep, PTL DEF Spec

-----------------------------------------------------------------------------
(* The reaching definitions: what is written.                              *)

\* The authors do nothing that makes the analysis lose sight of a definition.
InSight == \A s \in Styles : s.habits \subseteq {"augment"}

Plain == {"bind", "augment", "read"}
Compound == {"if", "while", "for", "match", "try"}
Ops == Plain \cup {"raised", "returned"} \cup Compound
Nodes == [op : Ops, line : Nat, name : style.names \cup {"none"},
          call : {"none"} \cup {r.call : r \in style.reads},
          value : style.values \cup style.iterables \cup {NoValue} \cup {r.value : r \in style.reads},
          block : Nat, part : Nat]

\* Lines are numbered and stand in blocks that were opened above them; a try's
\* body does one thing, which stops nothing, and its finally does nothing.
Written ==
    /\ style \in Styles
    /\ code \in Seq(Nodes)
    /\ \A l \in Lines :
          /\ code[l].line = l /\ code[l].block < l
          /\ code[l].op \in {"bind", "augment", "for"} => code[l].name \in style.names
          /\ code[l].op = "while" => code[l].value = NoValue
    /\ \A l, m \in Lines :
          code[m].block = l /\ code[l].op = "try" =>
             /\ code[m].part # 4
             /\ code[m].part = 1 => code[m].op \in Plain
    /\ \A l, m, k \in Lines :
          code[l].op = "try" /\ code[m].block = l /\ code[m].part = 1
                             /\ code[k].block = l /\ code[k].part = 1 => m = k
OpenBlocks == [op : Compound \cup {"function"}, line : Nat, part : Nat]
Opened ==
    /\ open \in Seq(OpenBlocks)
    /\ Len(open) >= 1
    /\ \A k \in 1 .. Len(open) :
          /\ open[k].line <= Len(code)
          /\ open[k].line = 0 => open[k].op = "function"
          /\ open[k].line # 0 => code[open[k].line].op = open[k].op

LEMMA LeastOf ==
  ASSUME NEW S \in SUBSET Nat, S # {}
  PROVE  \E m \in S : \A k \in S : m <= k
<1> DEFINE Less == {p \in Nat \X Nat : p[1] < p[2]}
<1>1. IsWellFoundedOn(Less, Nat)
  BY NatLessThanWellFounded DEF OpToRel
<1>2. PICK m \in S : \A k \in S : <<k, m>> \notin Less
  BY <1>1, WFMin
<1>3. ASSUME NEW k \in S PROVE m <= k
  <2>1. m \in Nat /\ k \in Nat /\ ~(k < m)
    BY <1>2
  <2>2. QED
    BY <2>1
<1>4. QED
  BY <1>3

\* What holds of a line once it holds of those further down holds of all.
LEMMA Upwards ==
  ASSUME NEW n \in Nat, NEW G,
         \A k \in 1 .. n : (\A j \in 1 .. n : j > k => j \in G) => k \in G
  PROVE  \A k \in 1 .. n : k \in G
<1> DEFINE T == {m \in Nat : m < n /\ n - m \notin G}
<1> SUFFICES ASSUME NEW k \in 1 .. n, k \notin G PROVE FALSE
  OBVIOUS
<1>1. n - k \in T /\ T \in SUBSET Nat
  <2>1. n - k \in Nat /\ n - k < n /\ n - (n - k) = k
    OBVIOUS
  <2>2. QED
    BY <2>1
<1>2. PICK m \in T : \A j \in T : m <= j
  BY <1>1, LeastOf
<1>3. n - m \in 1 .. n /\ n - m \notin G
  BY <1>2
<1>4. PICK j \in 1 .. n : j > n - m /\ j \notin G
  BY <1>3
<1>5. n - j \in T /\ n - j < m
  <2>1. n - j \in Nat /\ n - j < n /\ n - (n - j) = j /\ n - j < m
    BY <1>2, <1>4
  <2>2. QED
    BY <1>4, <2>1
<1>6. QED
  BY <1>1, <1>2, <1>5

LEMMA CodeIsListed ==
  ASSUME Written
  PROVE  /\ Len(code) \in Nat /\ End \in Nat /\ End = Len(code) + 1
         /\ \A l \in Lines : l \in Nat /\ l \in 1 .. End /\ l # End /\ code[l] \in Nodes
         /\ \A l \in 1 .. End : l = End \/ l \in Lines
BY DEF Written, Lines, End

LEMMA ForemostIs ==
  ASSUME Written, NEW S \in SUBSET Lines
  PROVE  /\ Foremost(S) \in 1 .. End
         /\ S = {} => Foremost(S) = End
         /\ S # {} => Foremost(S) \in S /\ Foremost(S) \in Lines
<1>1. S \in SUBSET Nat
  BY CodeIsListed
<1>2. CASE S = {}
  BY <1>2, CodeIsListed DEF Foremost
<1>3. CASE S # {}
  <2>1. \E l \in S : \A m \in S : l <= m
    BY <1>1, <1>3, LeastOf
  <2>2. Foremost(S) \in S
    BY <1>3, <2>1 DEF Foremost
  <2>3. QED
    BY <1>3, <2>2, CodeIsListed
<1>4. QED
  BY <1>2, <1>3

\* What is walked lies further down.
LEMMA FirstIs ==
  ASSUME Written, NEW b \in Nat, NEW p
  PROVE  /\ First(b, p) \in 1 .. End
         /\ First(b, p) # End => First(b, p) \in Lines /\ code[First(b, p)].block = b
                                 /\ code[First(b, p)].part = p
         /\ b < End => First(b, p) > b
<1> DEFINE S == {l \in Lines : code[l].block = b /\ code[l].part = p}
<1>1. First(b, p) = Foremost(S)
  BY DEF First
<1>2. S \in SUBSET Lines
  OBVIOUS
<1>3. \A l \in S : l > b
  BY CodeIsListed DEF Written
<1>4. QED
  BY <1>1, <1>2, <1>3, ForemostIs, CodeIsListed

LEMMA FollowingIs ==
  ASSUME Written, NEW l \in Lines
  PROVE  /\ Following(l) \in 1 .. End /\ Following(l) > l
         /\ Following(l) # End => Following(l) \in Lines /\ code[Following(l)].block = code[l].block
                                  /\ code[Following(l)].part = code[l].part
<1> DEFINE S == {m \in Lines : m > l /\ code[m].block = code[l].block /\ code[m].part = code[l].part}
<1>1. Following(l) = Foremost(S)
  BY DEF Following
<1>2. S \in SUBSET Lines
  OBVIOUS
<1>3. QED
  BY <1>1, <1>2, ForemostIs, CodeIsListed

LEMMA NotWritten ==
  ASSUME Written, NEW b \in Nat, NEW p, ~IsWritten(b, p), NEW l \in Lines, code[l].block = b
  PROVE  code[l].part # p
<1> DEFINE S == {m \in Lines : code[m].block = b /\ code[m].part = p}
<1>1. Foremost(S) = End /\ S \in SUBSET Lines
  BY DEF IsWritten, First
<1>2. S = {}
  BY <1>1, ForemostIs, CodeIsListed
<1>3. QED
  BY <1>2

LEMMA TopIsOpen ==
  ASSUME Written, Opened
  PROVE  /\ Top = open[Len(open)] /\ Len(open) \in 1 .. Len(open) /\ Len(open) \in Nat
         /\ Top.op \in Compound \cup {"function"} /\ Top.line \in Nat /\ Top.part \in Nat
         /\ Top.line <= Len(code)
         /\ Top.line = 0 => Top.op = "function"
         /\ Top.line # 0 => Top.line \in Lines /\ code[Top.line].op = Top.op
<1>1. Len(open) \in 1 .. Len(open) /\ Top = open[Len(open)] /\ Len(open) \in Nat
  BY DEF Opened, Top
<1>2. Top \in OpenBlocks
  BY <1>1 DEF Opened
<1>3. QED
  BY <1>1, <1>2, CodeIsListed DEF Opened, Lines, OpenBlocks

Fits(s) ==
    /\ s \in Nodes /\ s.line = Len(code) + 1 /\ s.block = Top.line /\ s.part = Top.part
    /\ s.op \in {"bind", "augment", "for"} => s.name \in style.names
    /\ s.op = "while" => s.value = NoValue
    /\ TryBodyIsPlain => s.op \in Plain

LEMMA WriteKeeps ==
  ASSUME InSight, Written, Opened, NEW s, Fits(s), Write(s)
  PROVE  Written'
<1>0. /\ code' = Append(code, s) /\ style' = style /\ PartHasRoom
  BY DEF Write
<1>1. /\ Len(code') = Len(code) + 1 /\ code' \in Seq(Nodes)
      /\ \A l \in Lines : code'[l] = code[l]
      /\ code'[Len(code) + 1] = s
  BY <1>0, CodeIsListed DEF Written, Fits, Lines
<1>2. Lines' = Lines \cup {Len(code) + 1} /\ Len(code) + 1 \notin Lines
  BY <1>1, CodeIsListed DEF Lines
<1>3. Nodes' = Nodes
  BY <1>0 DEF Nodes
<1>4. "busy try" \notin style.habits /\ "finally" \notin style.habits
  BY DEF InSight, Written
<1>5. /\ Top.op = "try" => Top.part # 4 /\ (Top.part = 1 => ~IsWritten(Top.line, 1))
      /\ Top.op = "try" /\ Top.part = 1 => s.op \in Plain
  BY <1>0, <1>4 DEF PartHasRoom, TryBodyIsPlain, Fits
<1>6. \A l \in Lines' :
          /\ code'[l].line = l /\ code'[l].block < l
          /\ code'[l].op \in {"bind", "augment", "for"} => code'[l].name \in style'.names
          /\ code'[l].op = "while" => code'[l].value = NoValue
  BY <1>0, <1>1, <1>2, TopIsOpen, CodeIsListed DEF Written, Fits
<1>7. \A l \in Lines : code[l].block <= Len(code) /\ code[l].block # Len(code) + 1
  <2> SUFFICES ASSUME NEW l \in Lines
               PROVE  code[l].block <= Len(code) /\ code[l].block # Len(code) + 1
    OBVIOUS
  <2>1. code[l].block \in Nat /\ code[l].block < l /\ l <= Len(code) /\ l \in Nat /\ Len(code) \in Nat
    <3>1. code[l] \in Nodes /\ l \in 1 .. Len(code)
      BY CodeIsListed DEF Lines
    <3>2. code[l].block \in Nat
      BY <3>1 DEF Nodes
    <3>3. QED
      BY <3>1, <3>2, CodeIsListed DEF Written
  <2>2. QED
    BY <2>1
<1>8. s.block # Len(code) + 1 /\ s.block \in Nat
  BY TopIsOpen, CodeIsListed DEF Fits
<1>9. ASSUME NEW l \in Lines', NEW m \in Lines', code'[m].block = l, code'[l].op = "try"
      PROVE  code'[m].part # 4 /\ (code'[m].part = 1 => code'[m].op \in Plain)
  <2>1. l \in Lines
    BY <1>1, <1>2, <1>7, <1>8, <1>9
  <2>2. CASE m \in Lines
    BY <1>1, <1>9, <2>1, <2>2 DEF Written
  <2>3. CASE m = Len(code) + 1
    BY <1>1, <1>5, <1>9, <2>1, <2>3, TopIsOpen, CodeIsListed DEF Fits
  <2>4. QED
    BY <1>2, <2>2, <2>3
<1>10. ASSUME NEW l \in Lines', NEW m \in Lines', NEW k \in Lines', code'[l].op = "try",
              code'[m].block = l, code'[m].part = 1, code'[k].block = l, code'[k].part = 1
       PROVE  m = k
  <2>1. l \in Lines
    BY <1>1, <1>2, <1>7, <1>8, <1>10
  <2>2. CASE m \in Lines /\ k \in Lines
    BY <1>1, <1>10, <2>1, <2>2 DEF Written
  <2>3. ASSUME NEW j \in Lines, code[j].block = l, code[j].part = 1, s.block = l, s.part = 1 PROVE FALSE
    <3>1. Top.line = l /\ Top.part = 1 /\ l # 0 /\ l \in Nat
      BY <2>1, <2>3, CodeIsListed DEF Fits, Lines
    <3>2. Top.op = "try"
      BY <1>1, <1>10, <2>1, <3>1, TopIsOpen
    <3>3. ~IsWritten(l, 1)
      BY <1>5, <3>1, <3>2
    <3>4. QED
      BY <2>3, <3>1, <3>3, NotWritten
  <2>4. QED
    BY <1>1, <1>2, <1>10, <2>2, <2>3
<1>11. QED
  BY <1>0, <1>1, <1>3, <1>6, <1>9, <1>10 DEF Written

LEMMA NodeFits ==
  ASSUME Written, Opened, NEW op \in Ops, NEW n \in style.names \cup {"none"},
         NEW call \in {"none"} \cup {r.call : r \in style.reads},
         NEW v \in style.values \cup style.iterables \cup {NoValue} \cup {r.value : r \in style.reads},
         op \in {"bind", "augment", "for"} => n \in style.names, op = "while" => v = NoValue,
         TryBodyIsPlain => op \in Plain
  PROVE  Fits(Node(op, n, call, v))
BY TopIsOpen, CodeIsListed DEF Fits, Node, Nodes

LEMMA WrittenStays ==
  ASSUME Written, UNCHANGED <<style, code>>
  PROVE  Written'
<1>1. Nodes' = Nodes /\ Lines' = Lines
  BY DEF Nodes, Lines
<1>2. QED
  BY <1>1 DEF Written

LEMMA OpenedStays ==
  ASSUME Opened, NEW s, code \in Seq(Nodes), Written, Write(s), UNCHANGED open
  PROVE  Opened'
<1>1. /\ Len(code') = Len(code) + 1
      /\ \A l \in Lines : code'[l] = code[l]
  BY DEF Written, Write, Lines
<1>2. \A k \in 1 .. Len(open) : open[k] \in OpenBlocks
  BY DEF Opened
<1>3. \A k \in 1 .. Len(open) : open[k].line # 0 => open[k].line \in Lines
  BY <1>2, CodeIsListed DEF Opened, Lines, OpenBlocks
<1>4. \A k \in 1 .. Len(open) : open[k].line <= Len(code) + 1
  BY <1>2, CodeIsListed DEF Opened, OpenBlocks
<1>5. QED
  BY <1>1, <1>3, <1>4 DEF Opened

LEMMA WritingStep ==
  ASSUME InSight, Written, Opened, FlowNext
  PROVE  Written' /\ Opened'
<1>0. "break" \notin style.habits
  BY DEF InSight, Written
<1>1. ASSUME NEW s, Fits(s), WriteLine(s) PROVE Written' /\ Opened'
  <2>1. Write(s) /\ UNCHANGED open
    BY <1>1 DEF WriteLine
  <2>2. Written'
    BY <1>1, <2>1, WriteKeeps
  <2>3. Opened'
    BY <2>1, OpenedStays DEF Written
  <2>4. QED
    BY <2>2, <2>3
<1>2. CASE WriteBind
  <2>1. PICK n \in style.names, v \in style.values : WriteLine(Node("bind", n, "none", v))
    BY <1>2 DEF WriteBind
  <2>2. Fits(Node("bind", n, "none", v))
    BY NodeFits DEF Ops, Plain
  <2>3. QED
    BY <1>1, <2>1, <2>2
<1>3. CASE WriteAugment
  <2>1. PICK n \in style.names, v \in style.values : WriteLine(Node("augment", n, "none", v))
    BY <1>3 DEF WriteAugment
  <2>2. Fits(Node("augment", n, "none", v))
    BY NodeFits DEF Ops, Plain
  <2>3. QED
    BY <1>1, <2>1, <2>2
<1>4. CASE WriteRead
  <2>1. PICK r \in style.reads : WriteLine(Node("read", "none", r.call, r.value))
    BY <1>4 DEF WriteRead
  <2>2. Fits(Node("read", "none", r.call, r.value))
    BY NodeFits DEF Ops, Plain
  <2>3. QED
    BY <1>1, <2>1, <2>2
<1>5. CASE WriteStop
  <2>1. PICK how \in Exits : /\ how \in {"broke", "continued"} => "break" \in style.habits
                             /\ ~TryBodyIsPlain /\ WriteLine(Node(how, "none", "none", NoValue))
    BY <1>5 DEF WriteStop
  <2>2. how \in {"raised", "returned"}
    BY <1>0, <2>1 DEF Exits
  <2>3. Fits(Node(how, "none", "none", NoValue))
    BY <2>1, <2>2, NodeFits DEF Ops, Plain
  <2>4. QED
    BY <1>1, <2>1, <2>3
<1>6. ASSUME NEW op \in Compound, NEW n \in style.names \cup {"none"},
             NEW v \in style.values \cup style.iterables \cup {NoValue}, op = "for" => n \in style.names,
             op = "while" => v = NoValue, OpenBlock(op, n, v)
      PROVE  Written' /\ Opened'
  <2> DEFINE s == Node(op, n, "none", v)
             block == [op |-> op, line |-> Len(code) + 1, part |-> 1]
  <2>1. ~TryBodyIsPlain /\ Write(s) /\ open' = Append(open, block)
    BY <1>6 DEF OpenBlock
  <2>2. Fits(s)
    BY <1>6, <2>1, NodeFits DEF Ops, Compound
  <2>3. Written'
    BY <2>1, <2>2, WriteKeeps
  <2>4. /\ Len(code') = Len(code) + 1 /\ Len(code) \in Nat
        /\ \A l \in Lines : code'[l] = code[l]
        /\ code'[Len(code) + 1] = s
    BY <2>1, <2>2, CodeIsListed DEF Written, Write, Lines, Fits
  <2>5. /\ open' \in Seq(OpenBlocks)
        /\ Len(open') = Len(open) + 1 /\ Len(open) \in Nat
        /\ \A k \in 1 .. Len(open) : open'[k] = open[k]
        /\ open'[Len(open) + 1] = block
    <3>1. block \in OpenBlocks
      BY <1>6, <2>4 DEF OpenBlocks
    <3>2. QED
      BY <2>1, <3>1 DEF Opened
  <2>6. s.op = op
    BY DEF Node
  <2>7. ASSUME NEW k \in 1 .. Len(open')
        PROVE  /\ open'[k].line <= Len(code')
               /\ open'[k].line = 0 => open'[k].op = "function"
               /\ open'[k].line # 0 => code'[open'[k].line].op = open'[k].op
    <3>1. CASE k = Len(open) + 1
      BY <2>4, <2>5, <2>6, <3>1
    <3>2. CASE k \in 1 .. Len(open)
      <4>1. open[k] \in OpenBlocks /\ open[k].line <= Len(code)
        BY <3>2 DEF Opened
      <4>2. open[k].line \in Nat /\ (open[k].line # 0 => open[k].line \in Lines)
        BY <2>4, <4>1 DEF Lines, OpenBlocks
      <4>3. /\ open[k].line = 0 => open[k].op = "function"
            /\ open[k].line # 0 => code[open[k].line].op = open[k].op
        BY <3>2 DEF Opened
      <4>4. open'[k] = open[k]
        BY <2>5, <3>2
      <4> HIDE DEF s, block
      <4>5. QED
        BY <2>4, <4>1, <4>2, <4>3, <4>4
    <3>3. QED
      BY <2>5, <2>7, <3>1, <3>2
  <2>8. QED
    BY <2>3, <2>5, <2>7 DEF Opened
<1>7. CASE OpenPlain
  <2>1. PICK op \in style.blocks \ {"for", "match"} : OpenBlock(op, "none", NoValue)
    BY <1>7 DEF OpenPlain
  <2>2. op \in Compound /\ op # "for"
    BY <2>1, StylesAreKnown DEF Compound, Written
  <2>3. QED
    BY <1>6, <2>1, <2>2
<1>8. CASE OpenFor
  <2>1. PICK n \in style.names, v \in style.iterables : OpenBlock("for", n, v)
    BY <1>8 DEF OpenFor
  <2>2. QED
    BY <1>6, <2>1 DEF Compound
<1>9. CASE OpenMatch
  <2>1. PICK n \in style.names \cup {"none"} : OpenBlock("match", n, NoValue)
    BY <1>9 DEF OpenMatch
  <2>2. QED
    BY <1>6, <2>1 DEF Compound
<1>10. CASE NextPart
  <2>1. UNCHANGED <<style, code>> /\ open' = [open EXCEPT ![Len(open)].part = @ + 1]
    BY <1>10 DEF NextPart
  <2>2. /\ open' \in Seq(OpenBlocks)
        /\ Len(open') = Len(open)
        /\ \A k \in 1 .. Len(open) : open'[k].line = open[k].line /\ open'[k].op = open[k].op
    <3>1. open \in Seq(OpenBlocks) /\ Len(open) \in 1 .. Len(open)
      BY DEF Opened
    <3>2. /\ [open[Len(open)] EXCEPT !.part = @ + 1] \in OpenBlocks
          /\ [open[Len(open)] EXCEPT !.part = @ + 1].line = open[Len(open)].line
          /\ [open[Len(open)] EXCEPT !.part = @ + 1].op = open[Len(open)].op
      <4> DEFINE t == open[Len(open)]
      <4>1. t \in OpenBlocks
        BY <3>1
      <4> HIDE DEF t
      <4>2. [t EXCEPT !.part = @ + 1] \in OpenBlocks /\ [t EXCEPT !.part = @ + 1].line = t.line
            /\ [t EXCEPT !.part = @ + 1].op = t.op
        BY <4>1 DEF OpenBlocks
      <4>3. QED
        BY <4>2 DEF t
    <3>3. open' = [open EXCEPT ![Len(open)] = [open[Len(open)] EXCEPT !.part = @ + 1]]
      BY <2>1
    <3>4. \A k \in 1 .. Len(open) :
             open'[k] = IF k = Len(open) THEN [open[Len(open)] EXCEPT !.part = @ + 1] ELSE open[k]
      BY <3>1, <3>3
    <3>5. open' \in Seq(OpenBlocks) /\ Len(open') = Len(open)
      BY <3>1, <3>2, <3>3
    <3>6. \A k \in 1 .. Len(open) : open'[k].line = open[k].line /\ open'[k].op = open[k].op
      BY <3>2, <3>4
    <3>7. QED
      BY <3>5, <3>6
  <2>3. Written'
    BY <2>1, WrittenStays
  <2>4. QED
    BY <2>1, <2>2, <2>3 DEF Opened
<1>11. CASE CloseBlock
  <2>1. UNCHANGED <<style, code>> /\ open' = SubSeq(open, 1, Len(open) - 1) /\ Len(open) > 1
    BY <1>11 DEF CloseBlock
  <2>2. /\ open' \in Seq(OpenBlocks)
        /\ Len(open') = Len(open) - 1 /\ Len(open) \in Nat
        /\ \A k \in 1 .. Len(open') : open'[k] = open[k] /\ k \in 1 .. Len(open)
    <3>1. open \in Seq(OpenBlocks) /\ Len(open) \in Nat /\ 1 <= Len(open) - 1 /\ Len(open) - 1 \in Nat
      BY <2>1 DEF Opened
    <3>2. \A k \in 1 .. (Len(open) - 1) : k \in 1 .. Len(open) /\ open[k] \in OpenBlocks
      BY <3>1
    <3>3. open' = [k \in 1 .. (Len(open) - 1) |-> open[k]]
      BY <2>1, <3>1
    <3>4. QED
      BY <3>1, <3>2, <3>3
  <2>3. Written'
    BY <2>1, WrittenStays
  <2>4. OpenBlocks' = OpenBlocks /\ Len(open') >= 1 /\ Len(open') \in Nat
    BY <2>1, <2>2 DEF OpenBlocks
  <2>5. QED
    BY <2>1, <2>2, <2>3, <2>4 DEF Opened
<1>12. CASE Finish
  <2>1. UNCHANGED <<style, code, open>>
    BY <1>12 DEF Finish
  <2>2. QED
    BY <2>1, WrittenStays DEF Opened
<1>13. QED
  BY <1>2, <1>3, <1>4, <1>5, <1>7, <1>8, <1>9, <1>10, <1>11, <1>12 DEF FlowNext

LEMMA WritingInit ==
  ASSUME FlowInit
  PROVE  Written /\ Opened
<1>1. style \in Styles /\ code = <<>> /\ open = <<[op |-> "function", line |-> 0, part |-> 1]>>
  BY DEF FlowInit
<1>2. Lines = {} /\ code \in Seq(Nodes) /\ Len(code) = 0
  BY <1>1 DEF Lines
<1>3. Written
  BY <1>1, <1>2 DEF Written
<1>4. /\ open \in Seq(OpenBlocks) /\ Len(open) = 1
      /\ open[1] = [op |-> "function", line |-> 0, part |-> 1]
  <2> DEFINE block == [op |-> "function", line |-> 0, part |-> 1]
  <2>1. block \in OpenBlocks
    BY DEF OpenBlocks
  <2> HIDE DEF block
  <2>2. <<block>> \in Seq(OpenBlocks) /\ Len(<<block>>) = 1 /\ <<block>>[1] = block
    BY <2>1
  <2>3. QED
    BY <1>1, <2>2 DEF block
<1>5. Opened
  BY <1>2, <1>4 DEF Opened
<1>6. QED
  BY <1>3, <1>5

-----------------------------------------------------------------------------
(* The states of the analysis.                                             *)

Uses == Lines \X style.names \X Bindings
Outcomes == [state : States, seen : SUBSET Uses]

LEMMA StateIs ==
  ASSUME NEW env \in [style.names -> SUBSET Bindings], NEW r \in BOOLEAN
  PROVE  State(env, r) \in States /\ State(env, r).env = env /\ State(env, r).reachable = r
BY DEF State, States

LEMMA StateHas ==
  ASSUME NEW a \in States
  PROVE  /\ a.reachable \in BOOLEAN /\ a.env \in [style.names -> SUBSET Bindings]
         /\ a = State(a.env, a.reachable)
BY DEF State, States

LEMMA OutcomeIs ==
  ASSUME NEW a \in States, NEW seen \in SUBSET Uses
  PROVE  Outcome(a, seen) \in Outcomes /\ Outcome(a, seen).state = a /\ Outcome(a, seen).seen = seen
BY DEF Outcome, Outcomes

LEMMA OutcomeHas ==
  ASSUME NEW o \in Outcomes
  PROVE  o.state \in States /\ o.seen \in SUBSET Uses
BY DEF Outcomes

LEMMA MergeIs ==
  ASSUME NEW a \in States, NEW b \in States
  PROVE  /\ Merge({a, b}) \in States
         /\ Merge({a, b}).reachable = (a.reachable \/ b.reachable)
         /\ \A n \in style.names :
               Merge({a, b}).env[n] = (IF a.reachable \/ ~b.reachable THEN a.env[n] ELSE {})
                                      \cup (IF b.reachable \/ ~a.reachable THEN b.env[n] ELSE {})
<1> DEFINE live == {s \in {a, b} : s.reachable}
<1>1. a.reachable \in BOOLEAN /\ b.reachable \in BOOLEAN
  BY StateHas
<1>2. \A n \in style.names : a.env[n] \subseteq Bindings /\ b.env[n] \subseteq Bindings
  BY StateHas
<1>3. ASSUME NEW T \in SUBSET {a, b}
      PROVE  /\ MergeEnvs(T) \in [style.names -> SUBSET Bindings]
             /\ \A n \in style.names : MergeEnvs(T)[n] = UNION {s.env[n] : s \in T}
  BY <1>2, <1>3 DEF MergeEnvs
<1>4. CASE live = {}
  <2>1. Merge({a, b}) = State(MergeEnvs({a, b}), FALSE) /\ ~a.reachable /\ ~b.reachable
    BY <1>4 DEF Merge
  <2>2. \A n \in style.names : MergeEnvs({a, b})[n] = a.env[n] \cup b.env[n]
    BY <1>3
  <2>3. MergeEnvs({a, b}) \in [style.names -> SUBSET Bindings]
    BY <1>3
  <2>4. Merge({a, b}) \in States /\ Merge({a, b}).env = MergeEnvs({a, b}) /\ Merge({a, b}).reachable = FALSE
    BY <2>1, <2>3, StateIs
  <2>5. QED
    BY <2>1, <2>2, <2>4
<1>5. CASE live # {}
  <2>1. Merge({a, b}) = State(MergeEnvs(live), TRUE) /\ (a.reachable \/ b.reachable)
    BY <1>5 DEF Merge
  <2>2. \A n \in style.names :
           UNION {s.env[n] : s \in live} = (IF a.reachable THEN a.env[n] ELSE {})
                                           \cup (IF b.reachable THEN b.env[n] ELSE {})
    OBVIOUS
  <2>3. MergeEnvs(live) \in [style.names -> SUBSET Bindings]
        /\ \A n \in style.names : MergeEnvs(live)[n] = UNION {s.env[n] : s \in live}
    BY <1>3
  <2> HIDE DEF live
  <2>4. Merge({a, b}) \in States /\ Merge({a, b}).env = MergeEnvs(live) /\ Merge({a, b}).reachable = TRUE
    BY <2>1, <2>3, StateIs
  <2>5. ASSUME NEW n \in style.names
        PROVE  Merge({a, b}).env[n] = (IF a.reachable \/ ~b.reachable THEN a.env[n] ELSE {})
                                      \cup (IF b.reachable \/ ~a.reachable THEN b.env[n] ELSE {})
    <3>1. Merge({a, b}).env[n] = (IF a.reachable THEN a.env[n] ELSE {}) \cup (IF b.reachable THEN b.env[n] ELSE {})
      BY <2>2, <2>3, <2>4
    <3>2. (a.reachable \/ ~b.reachable) = a.reachable /\ (b.reachable \/ ~a.reachable) = b.reachable
      BY <1>1, <2>1
    <3>3. QED
      BY <3>1, <3>2
  <2>6. QED
    BY <1>1, <2>1, <2>4, <2>5
<1>6. QED
  BY <1>4, <1>5

LEMMA BindIs ==
  ASSUME NEW b \in Bindings, b.name \in style.names, NEW a \in States
  PROVE  /\ BindNode(b, a) \in States /\ BindNode(b, a).reachable = a.reachable
         /\ \A n \in style.names : BindNode(b, a).env[n] = IF n = b.name THEN {b} ELSE a.env[n]
BY DEF BindNode, States

LEMMA EnterIs ==
  ASSUME NEW l \in Lines, NEW a \in States
  PROVE  /\ Enter(code[l], a) \in States /\ Enter(code[l], a).reachable = a.reachable
         /\ \A n \in style.names :
               Enter(code[l], a).env[n] = IF n = code[l].name THEN {code[l]} ELSE a.env[n]
<1>1. code[l] \in Bindings
  BY DEF Bindings
<1>2. QED
  BY <1>1, BindIs DEF Enter

LEMMA LoadIs ==
  ASSUME NEW l \in Lines, NEW N \in SUBSET style.names, NEW a \in States
  PROVE  /\ Load(l, N, a) \in SUBSET Uses
         /\ \A x, m, b : <<x, m, b>> \in Load(l, N, a) <=> x = l /\ m \in N /\ b \in a.env[m]
<1>1. \A n \in N : a.env[n] \subseteq Bindings
  BY StateHas
<1>2. \A u \in Load(l, N, a) : \E n \in N : \E b \in a.env[n] : u = <<l, n, b>>
  BY DEF Load
<1>3. QED
  BY <1>1, <1>2 DEF Uses, Load

LEMMA NamesAreNames ==
  ASSUME NEW v
  PROVE  NamesIn(v) \in SUBSET style.names
BY DEF NamesIn

-----------------------------------------------------------------------------
(* The walk, and that there is one.                                        *)

Below(l) == ((l + 1) .. End) \X States
WalkStep(w, at) ==
    IF at[1] = End THEN Outcome(at[2], {})
    ELSE LET first == Statement(w, code[at[1]], at[2])
             rest  == w[<<Following(at[1]), first.state>>]
         IN Outcome(rest.state, first.seen \cup rest.seen)

LEMMA PartWalks ==
  ASSUME Written, NEW l \in Lines, NEW p, NEW a \in States
  PROVE  <<First(l, p), a>> \in Below(l)
<1>1. First(l, p) \in 1 .. End /\ First(l, p) > l /\ l \in Nat
  BY FirstIs, CodeIsListed
<1>2. QED
  BY <1>1 DEF Below

\* The states a statement's parts are walked from.
LEMMA StatementWalks ==
  ASSUME Written, NEW l \in Lines, NEW a \in States, NEW w, NEW v,
         \A at \in Below(l) : w[at] \in Outcomes /\ v[at] = w[at]
  PROVE  Statement(w, code[l], a) \in Outcomes /\ Statement(v, code[l], a) = Statement(w, code[l], a)
<1> DEFINE s == code[l]
<1>1. s \in Nodes /\ s.line = l /\ s.op \in Ops /\ s \in Bindings
      /\ (s.op \in {"bind", "augment"} => s.name \in style.names)
  BY CodeIsListed DEF Written, Nodes, Bindings
<1>2. ASSUME NEW p, NEW e \in States
      PROVE  /\ Part(w, s, p, e) \in Outcomes /\ Part(v, s, p, e) = Part(w, s, p, e)
             /\ Part(w, s, p, e).state \in States /\ Part(w, s, p, e).seen \in SUBSET Uses
  BY <1>1, PartWalks, OutcomeHas DEF Part
<1>3. \A e \in States : Enter(s, e) \in States
  BY EnterIs
<1>4. \A e, f \in States : Merge({e, f}) \in States
  BY MergeIs
<1>5. /\ NamesIn(s.value) \in SUBSET style.names
      /\ \A N \in SUBSET style.names : Load(s.line, N, a) \in SUBSET Uses
      /\ s.name \in style.names => BindNode(s, a) \in States
  <2>1. \A N \in SUBSET style.names : Load(l, N, a) \in SUBSET Uses
    BY LoadIs
  <2>2. QED
    BY <1>1, <2>1, NamesAreNames, BindIs
<1> HIDE DEF s
<1>6. CASE s.op = "bind"
  <2>1. BindNode(s, a) \in States /\ Load(s.line, NamesIn(s.value), a) \in SUBSET Uses
    BY <1>1, <1>5, <1>6
  <2>2. \A u : Statement(u, s, a) = Outcome(BindNode(s, a), Load(s.line, NamesIn(s.value), a))
    BY <1>6 DEF Statement, Exits
  <2>3. QED
    BY <2>1, <2>2, OutcomeIs DEF s
<1>7. CASE s.op = "augment"
  <2>1. BindNode(s, a) \in States /\ Load(s.line, NamesIn(s.value) \cup {s.name}, a) \in SUBSET Uses
    <3>1. NamesIn(s.value) \cup {s.name} \in SUBSET style.names
      BY <1>1, <1>5, <1>7
    <3>2. QED
      BY <1>1, <1>5, <1>7, <3>1
  <2>2. \A u : Statement(u, s, a) = Outcome(BindNode(s, a), Load(s.line, NamesIn(s.value) \cup {s.name}, a))
    BY <1>7 DEF Statement, Exits
  <2>3. QED
    BY <2>1, <2>2, OutcomeIs DEF s
<1>8. CASE s.op = "read"
  <2>1. Load(s.line, NamesIn(s.value), a) \in SUBSET Uses
    BY <1>1, <1>5
  <2>2. \A u : Statement(u, s, a) = Outcome(a, Load(s.line, NamesIn(s.value), a))
    BY <1>8 DEF Statement, Exits
  <2>3. QED
    BY <2>1, <2>2, OutcomeIs DEF s
<1>9. CASE s.op \in {"raised", "returned"}
  <2>1. \A u : Statement(u, s, a) = Outcome(StopAt(a), {})
    BY <1>9 DEF Statement, Exits
  <2>2. StopAt(a) \in States
    BY StateHas, StateIs DEF StopAt
  <2>3. QED
    BY <2>1, <2>2, OutcomeIs DEF s
<1>10. CASE s.op \in {"for", "while"}
  <2>1. \A u : Statement(u, s, a) = Loop(u, s, a)
    BY <1>10 DEF Statement, Exits
  <2> DEFINE tested == IF s.op = "for" THEN Load(s.line, NamesIn(s.value), a)
                       ELSE IF "test reads" \in style.habits THEN Load(s.line, style.names, a) ELSE {}
             first(u)  == Part(u, s, 1, Enter(s, a))
             second(u) == Part(u, s, 1, Enter(s, Merge({a, first(u).state})))
             after(u)  == Part(u, s, 2, Merge({a, second(u).state}))
  <2>2. tested \in SUBSET Uses
    BY <1>1, <1>5
  <2>3. first(w).state \in States /\ first(w).seen \in SUBSET Uses /\ first(v) = first(w)
    BY <1>2, <1>3
  <2>4. second(w).state \in States /\ second(w).seen \in SUBSET Uses /\ second(v) = second(w)
    <3> HIDE DEF first
    <3>1. QED
      BY <1>2, <1>3, <1>4, <2>3
  <2>5. after(w).state \in States /\ after(w).seen \in SUBSET Uses /\ after(v) = after(w)
    <3> HIDE DEF second
    <3>1. QED
      BY <1>2, <1>4, <2>4
  <2>6. \A u : BodyTwice(u, s, a) = Outcome(second(u).state, first(u).seen \cup second(u).seen)
    BY DEF BodyTwice
  <2>7. \A u : Loop(u, s, a) = Outcome(Part(u, s, 2, Merge({a, BodyTwice(u, s, a).state})).state,
                                       tested \cup BodyTwice(u, s, a).seen
                                       \cup Part(u, s, 2, Merge({a, BodyTwice(u, s, a).state})).seen)
    BY DEF Loop
  <2>8. /\ BodyTwice(w, s, a).state = second(w).state
        /\ BodyTwice(w, s, a).seen = first(w).seen \cup second(w).seen
        /\ BodyTwice(v, s, a) = BodyTwice(w, s, a)
    <3> HIDE DEF first, second
    <3>1. first(w).seen \cup second(w).seen \in SUBSET Uses
      BY <2>3, <2>4
    <3>2. \A seen \in SUBSET Uses : /\ Outcome(second(w).state, seen).state = second(w).state
                                    /\ Outcome(second(w).state, seen).seen = seen
      BY <2>4, OutcomeIs
    <3>3. QED
      BY <2>3, <2>4, <2>6, <3>1, <3>2
  <2>9. Loop(w, s, a) = Outcome(after(w).state, tested \cup (first(w).seen \cup second(w).seen) \cup after(w).seen)
        /\ Loop(v, s, a) = Loop(w, s, a)
    <3> HIDE DEF first, second, tested
    <3>1. Part(w, s, 2, Merge({a, BodyTwice(w, s, a).state})) = after(w)
      BY <2>8
    <3>2. Part(v, s, 2, Merge({a, BodyTwice(v, s, a).state})) = after(w)
      BY <2>4, <2>5, <2>8
    <3> HIDE DEF after
    <3>3. QED
      BY <2>7, <2>8, <3>1, <3>2
  <2>10. tested \cup (first(w).seen \cup second(w).seen) \cup after(w).seen \in SUBSET Uses
    BY <2>2, <2>3, <2>4, <2>5
  <2> HIDE DEF first, second, after, tested
  <2>11. QED
    BY <2>1, <2>5, <2>9, <2>10, OutcomeIs DEF s
<1>11. CASE s.op = "if"
  <2>1. \A u : Statement(u, s, a) = IfStatement(u, s, a)
    BY <1>11 DEF Statement, Exits
  <2>2. \A u : IfStatement(u, s, a) = Outcome(Merge({Part(u, s, 1, a).state, Part(u, s, 2, a).state}),
                                             Part(u, s, 1, a).seen \cup Part(u, s, 2, a).seen)
    BY DEF IfStatement
  <2>3. Part(w, s, 1, a).seen \cup Part(w, s, 2, a).seen \in SUBSET Uses
        /\ Merge({Part(w, s, 1, a).state, Part(w, s, 2, a).state}) \in States
    BY <1>2, <1>4
  <2>4. IfStatement(v, s, a) = IfStatement(w, s, a)
    BY <1>2, <2>2
  <2>5. IfStatement(w, s, a) \in Outcomes
    <3> DEFINE e == Merge({Part(w, s, 1, a).state, Part(w, s, 2, a).state})
               seen == Part(w, s, 1, a).seen \cup Part(w, s, 2, a).seen
    <3>1. e \in States /\ seen \in SUBSET Uses /\ IfStatement(w, s, a) = Outcome(e, seen)
      BY <2>2, <2>3
    <3> HIDE DEF e, seen
    <3>2. QED
      BY <3>1, OutcomeIs
  <2>6. QED
    BY <2>1, <2>4, <2>5 DEF s
<1>12. CASE s.op = "match"
  <2>1. \A u : Statement(u, s, a) = MatchStatement(u, s, a)
    BY <1>12 DEF Statement, Exits
  <2>2. \A u : MatchStatement(u, s, a) = Outcome(Merge({a, Part(u, s, 1, Enter(s, a)).state}),
                                                Part(u, s, 1, Enter(s, a)).seen)
    BY DEF MatchStatement
  <2>3. Part(w, s, 1, Enter(s, a)).seen \in SUBSET Uses /\ Merge({a, Part(w, s, 1, Enter(s, a)).state}) \in States
    BY <1>2, <1>3, <1>4
  <2>4. MatchStatement(v, s, a) = MatchStatement(w, s, a)
    BY <1>2, <1>3, <2>2
  <2>5. MatchStatement(w, s, a) \in Outcomes
    BY <2>2, <2>3, OutcomeIs
  <2>6. QED
    BY <2>1, <2>4, <2>5 DEF s
<1>13. CASE s.op = "try"
  <2>1. \A u : Statement(u, s, a) = TryStatement(u, s, a)
    BY <1>13 DEF Statement, Exits
  <2> DEFINE body(u) == Part(u, s, 1, a)
             handler(u) == Part(u, s, 2, Merge({a, body(u).state}))
             orelse(u) == Part(u, s, 3, body(u).state)
             final(u) == Part(u, s, 4, Merge({orelse(u).state, handler(u).state}))
  <2>2. body(w).state \in States /\ body(w).seen \in SUBSET Uses /\ body(v) = body(w)
    BY <1>2
  <2>3. /\ handler(w).state \in States /\ handler(w).seen \in SUBSET Uses /\ handler(v) = handler(w)
        /\ orelse(w).state \in States /\ orelse(w).seen \in SUBSET Uses /\ orelse(v) = orelse(w)
    <3> HIDE DEF body
    <3>1. QED
      BY <1>2, <1>4, <2>2
  <2>4. final(w).state \in States /\ final(w).seen \in SUBSET Uses /\ final(v) = final(w)
    <3> HIDE DEF handler, orelse
    <3>1. QED
      BY <1>2, <1>4, <2>3
  <2>5. \A u : TryStatement(u, s, a) =
                 Outcome(final(u).state, body(u).seen \cup handler(u).seen \cup orelse(u).seen \cup final(u).seen)
    BY DEF TryStatement
  <2> HIDE DEF body, handler, orelse, final
  <2>6. body(w).seen \cup handler(w).seen \cup orelse(w).seen \cup final(w).seen \in SUBSET Uses
    BY <2>2, <2>3, <2>4
  <2>7. TryStatement(v, s, a) = TryStatement(w, s, a)
    BY <2>2, <2>3, <2>4, <2>5
  <2>8. TryStatement(w, s, a) \in Outcomes
    <3>1. \A seen \in SUBSET Uses : Outcome(final(w).state, seen) \in Outcomes
      BY <2>4, OutcomeIs
    <3>2. QED
      BY <2>5, <2>6, <3>1
  <2>9. QED
    BY <2>1, <2>7, <2>8 DEF s
<1>14. QED
  BY <1>1, <1>6, <1>7, <1>8, <1>9, <1>10, <1>11, <1>12, <1>13 DEF Ops, Plain, Compound

LEMMA StepWalks ==
  ASSUME Written, NEW at \in (1 .. End) \X States, NEW w, NEW v,
         \A q \in Below(at[1]) : w[q] \in Outcomes /\ v[q] = w[q]
  PROVE  WalkStep(w, at) \in Outcomes /\ WalkStep(v, at) = WalkStep(w, at)
<1>1. CASE at[1] = End
  BY <1>1, OutcomeIs DEF WalkStep
<1>2. CASE at[1] # End
  <2> DEFINE l == at[1]
             a == at[2]
             first(u) == Statement(u, code[l], a)
             rest(u) == u[<<Following(l), first(u).state>>]
  <2>1. l \in Lines /\ a \in States
    BY <1>2, CodeIsListed
  <2>2. first(w) \in Outcomes /\ first(v) = first(w)
    <3> HIDE DEF l, a
    <3>1. QED
      BY <2>1, StatementWalks DEF l
  <2>3. first(w).state \in States /\ first(w).seen \in SUBSET Uses
    BY <2>2, OutcomeHas
  <2>4. <<Following(l), first(w).state>> \in Below(l)
    <3>1. Following(l) \in 1 .. End /\ Following(l) > l /\ l \in Nat
      BY <2>1, FollowingIs, CodeIsListed
    <3>2. QED
      BY <2>3, <3>1 DEF Below
  <2>5. rest(w) \in Outcomes /\ rest(v) = rest(w)
    BY <2>2, <2>4
  <2>6. \A u : WalkStep(u, at) = Outcome(rest(u).state, first(u).seen \cup rest(u).seen)
    BY <1>2 DEF WalkStep
  <2> HIDE DEF rest, first
  <2>7. rest(w).state \in States /\ first(w).seen \cup rest(w).seen \in SUBSET Uses
    BY <2>3, <2>5, OutcomeHas
  <2>8. \A seen \in SUBSET Uses : Outcome(rest(w).state, seen) \in Outcomes
    BY <2>7, OutcomeIs
  <2>9. WalkStep(w, at) \in Outcomes
    BY <2>6, <2>7, <2>8
  <2>10. WalkStep(v, at) = WalkStep(w, at)
    BY <2>2, <2>5, <2>6
  <2>11. QED
    BY <2>9, <2>10
<1>3. QED
  BY <1>1, <1>2

IsWalk(w, k) ==
    /\ w \in [(k .. End) \X States -> Outcomes]
    /\ \A at \in (k .. End) \X States : w[at] = WalkStep(w, at)

LEMMA WalksExist ==
  ASSUME Written
  PROVE  \A k \in 1 .. End : \E w : IsWalk(w, k)
<1> DEFINE G == {k \in 1 .. End : \E w : IsWalk(w, k)}
<1>0. End \in Nat /\ End >= 1
  BY CodeIsListed
<1>1. ASSUME NEW k \in 1 .. End, \A j \in 1 .. End : j > k => j \in G
      PROVE  \E w : IsWalk(w, k)
  <2>1. PICK v : \A at \in Below(k) : v[at] \in Outcomes /\ v[at] = WalkStep(v, at)
    <3>1. CASE k = End
      BY <1>0, <3>1 DEF Below
    <3>2. CASE k # End
      <4>1. k + 1 \in 1 .. End /\ k + 1 > k
        BY <1>0, <3>2
      <4>2. k + 1 \in G
        BY <1>1, <4>1
      <4>3. PICK v : IsWalk(v, k + 1)
        BY <4>2
      <4>4. QED
        BY <4>3 DEF IsWalk, Below
    <3>3. QED
      BY <3>1, <3>2
  <2> DEFINE D == (k .. End) \X States
             w == [at \in D |-> IF at[1] = k THEN WalkStep(v, at) ELSE v[at]]
  <2>2. \A at \in D : at \in (1 .. End) \X States /\ (at[1] = k \/ at \in Below(k))
    <3> SUFFICES ASSUME NEW at \in D
                 PROVE  at \in (1 .. End) \X States /\ (at[1] = k \/ at \in Below(k))
      OBVIOUS
    <3>1. at = <<at[1], at[2]>> /\ at[1] \in k .. End /\ at[2] \in States
      OBVIOUS
    <3>2. at[1] \in 1 .. End /\ (at[1] = k \/ at[1] \in (k + 1) .. End)
      BY <1>0, <3>1
    <3>3. QED
      BY <3>1, <3>2 DEF Below
  <2>3. \A at \in Below(k) : at \in D /\ at[1] # k /\ w[at] = v[at]
    <3>1. \A j \in (k + 1) .. End : j \in k .. End /\ j # k
      OBVIOUS
    <3>2. QED
      BY <3>1 DEF Below
  <2>4. \A at \in D : Below(at[1]) \subseteq Below(k)
    <3> SUFFICES ASSUME NEW at \in D, NEW q \in Below(at[1]) PROVE q \in Below(k)
      OBVIOUS
    <3>1. at[1] \in k .. End
      OBVIOUS
    <3>2. \A j \in (at[1] + 1) .. End : j \in (k + 1) .. End
      BY <3>1
    <3>3. QED
      BY <3>2 DEF Below
  <2>5. \A at \in D : WalkStep(v, at) \in Outcomes /\ WalkStep(w, at) = WalkStep(v, at)
    <3> SUFFICES ASSUME NEW at \in D
                 PROVE  WalkStep(v, at) \in Outcomes /\ WalkStep(w, at) = WalkStep(v, at)
      OBVIOUS
    <3> HIDE DEF w
    <3>1. at \in (1 .. End) \X States /\ \A q \in Below(at[1]) : v[q] \in Outcomes /\ w[q] = v[q]
      BY <2>1, <2>2, <2>3, <2>4
    <3>2. QED
      BY <3>1, StepWalks
  <2>6. \A at \in D : w[at] = WalkStep(w, at) /\ w[at] \in Outcomes
    <3> SUFFICES ASSUME NEW at \in D PROVE w[at] = WalkStep(w, at) /\ w[at] \in Outcomes
      OBVIOUS
    <3>1. w[at] = IF at[1] = k THEN WalkStep(v, at) ELSE v[at]
      OBVIOUS
    <3> HIDE DEF w
    <3>2. QED
      BY <2>1, <2>2, <2>5, <3>1
  <2>7. IsWalk(w, k)
    <3>1. w \in [D -> Outcomes]
      <4>1. w = [at \in D |-> w[at]]
        OBVIOUS
      <4> HIDE DEF w, D
      <4>2. QED
        BY <2>6, <4>1
    <3> HIDE DEF w
    <3>2. QED
      BY <2>6, <3>1 DEF IsWalk
  <2>8. QED
    BY <2>7
<1>2. \A k \in 1 .. End : (\A j \in 1 .. End : j > k => j \in G) => k \in G
  BY <1>1
<1> HIDE DEF G
<1>3. \A k \in 1 .. End : k \in G
  BY <1>0, <1>2, Upwards
<1>4. QED
  BY <1>3 DEF G

\* A line is walked, then those that follow it.
LEMMA WalkIs ==
  ASSUME Written, NEW at \in (1 .. End) \X States
  PROVE  Statements[at] \in Outcomes /\ Statements[at] = WalkStep(Statements, at)
<1> DEFINE D == (1 .. End) \X States
<1>1. 1 \in 1 .. End
  BY CodeIsListed
<1>2. PICK v : IsWalk(v, 1)
  BY <1>1, WalksExist
<1>3. v \in [D -> Outcomes] /\ \A q \in D : v[q] = WalkStep(v, q)
  BY <1>2 DEF IsWalk
<1>4. v = [q \in D |-> WalkStep(v, q)]
  BY <1>3
<1>5. Statements = CHOOSE w : w = [q \in D |-> WalkStep(w, q)]
  BY DEF Statements, WalkStep
<1>6. Statements = [q \in D |-> WalkStep(Statements, q)]
  BY <1>4, <1>5
<1>7. \A q \in D : Statements[q] = WalkStep(Statements, q)
  <2> HIDE DEF D
  <2>1. QED
    BY <1>6
<1> DEFINE Good == {k \in 1 .. End : \A a \in States : Statements[<<k, a>>] \in Outcomes}
<1>8. ASSUME NEW k \in 1 .. End, \A j \in 1 .. End : j > k => j \in Good PROVE k \in Good
  <2> SUFFICES ASSUME NEW a \in States PROVE Statements[<<k, a>>] \in Outcomes
    OBVIOUS
  <2>1. \A q \in Below(k) : Statements[q] \in Outcomes
    <3> SUFFICES ASSUME NEW q \in Below(k) PROVE Statements[q] \in Outcomes
      OBVIOUS
    <3>1. q = <<q[1], q[2]>> /\ q[1] \in (k + 1) .. End /\ q[2] \in States
      BY DEF Below
    <3>2. q[1] \in 1 .. End /\ q[1] > k
      BY <3>1
    <3>3. QED
      BY <1>8, <3>1, <3>2
  <2>2. <<k, a>> \in D /\ <<k, a>>[1] = k
    OBVIOUS
  <2>3. WalkStep(Statements, <<k, a>>) \in Outcomes
    BY <2>1, <2>2, StepWalks
  <2>4. QED
    BY <1>7, <2>2, <2>3
<1> HIDE DEF Good
<1>9. End \in Nat /\ \A k \in 1 .. End : k \in Good
  BY <1>8, Upwards, CodeIsListed
<1>10. at = <<at[1], at[2]>> /\ at[1] \in 1 .. End /\ at[2] \in States
  OBVIOUS
<1>11. QED
  BY <1>7, <1>9, <1>10 DEF Good

-----------------------------------------------------------------------------
(* What each statement comes to.                                           *)

PartOut(l, p, a) == Statements[<<First(l, p), a>>]
Out(l, a) == Statement(Statements, code[l], a)

Read(l) ==
    LET s == code[l]
    IN IF s.op \in {"bind", "read", "for"} THEN NamesIn(s.value)
       ELSE IF s.op = "augment" THEN NamesIn(s.value) \cup {s.name} ELSE {}

FirstTurn(l, a) == PartOut(l, 1, Enter(code[l], a))
SecondTurn(l, a) == PartOut(l, 1, Enter(code[l], Merge({a, FirstTurn(l, a).state})))
AfterTurns(l, a) == PartOut(l, 2, Merge({a, SecondTurn(l, a).state}))

TryBody(l, a) == PartOut(l, 1, a)
TryHandler(l, a) == PartOut(l, 2, Merge({a, TryBody(l, a).state}))
TryElse(l, a) == PartOut(l, 3, TryBody(l, a).state)
TryFinal(l, a) == PartOut(l, 4, Merge({TryElse(l, a).state, TryHandler(l, a).state}))

LEMMA PartsOut ==
  ASSUME Written, NEW l \in Lines, NEW p, NEW a \in States
  PROVE  /\ PartOut(l, p, a) \in Outcomes
         /\ PartOut(l, p, a).state \in States /\ PartOut(l, p, a).seen \in SUBSET Uses
<1>1. First(l, p) \in 1 .. End
  BY FirstIs, CodeIsListed
<1>2. Statements[<<First(l, p), a>>] \in Outcomes
  BY <1>1, WalkIs
<1>3. QED
  BY <1>2, OutcomeHas DEF PartOut

LEMMA ReadIsNames ==
  ASSUME Written, NEW l \in Lines
  PROVE  Read(l) \in SUBSET style.names
BY NamesAreNames DEF Read, Written

LEMMA StatesOut ==
  ASSUME Written, NEW l \in Lines, NEW a \in States
  PROVE  /\ Enter(code[l], a) \in States
         /\ FirstTurn(l, a).state \in States /\ SecondTurn(l, a).state \in States
         /\ AfterTurns(l, a).state \in States
         /\ Merge({a, FirstTurn(l, a).state}) \in States /\ Merge({a, SecondTurn(l, a).state}) \in States
         /\ Enter(code[l], Merge({a, FirstTurn(l, a).state})) \in States
         /\ TryBody(l, a).state \in States /\ Merge({a, TryBody(l, a).state}) \in States
         /\ TryHandler(l, a).state \in States /\ TryElse(l, a).state \in States
         /\ Merge({TryElse(l, a).state, TryHandler(l, a).state}) \in States
         /\ TryFinal(l, a).state \in States
<1>1. Enter(code[l], a) \in States
  BY EnterIs
<1>2. FirstTurn(l, a).state \in States
  BY <1>1, PartsOut DEF FirstTurn
<1>3. Merge({a, FirstTurn(l, a).state}) \in States
  BY <1>2, MergeIs
<1>4. Enter(code[l], Merge({a, FirstTurn(l, a).state})) \in States
  BY <1>3, EnterIs
<1>5. SecondTurn(l, a).state \in States
  BY <1>4, PartsOut DEF SecondTurn
<1>6. Merge({a, SecondTurn(l, a).state}) \in States
  BY <1>5, MergeIs
<1>7. AfterTurns(l, a).state \in States
  BY <1>6, PartsOut DEF AfterTurns
<1>8. TryBody(l, a).state \in States
  BY PartsOut DEF TryBody
<1>9. Merge({a, TryBody(l, a).state}) \in States
  BY <1>8, MergeIs
<1>10. TryHandler(l, a).state \in States /\ TryElse(l, a).state \in States
  BY <1>8, <1>9, PartsOut DEF TryHandler, TryElse
<1>11. Merge({TryElse(l, a).state, TryHandler(l, a).state}) \in States
  BY <1>10, MergeIs
<1>12. TryFinal(l, a).state \in States
  BY <1>11, PartsOut DEF TryFinal
<1>13. QED
  BY <1>1, <1>2, <1>3, <1>4, <1>5, <1>6, <1>7, <1>8, <1>9, <1>10, <1>11, <1>12

LEMMA OutcomeParts ==
  ASSUME NEW e, NEW seen
  PROVE  Outcome(e, seen).state = e /\ Outcome(e, seen).seen = seen
BY DEF Outcome

\* What a statement leaves and sees, by its kind.
OutFor(l, a) ==
    /\ code[l].op \in {"bind", "augment"} =>
          Out(l, a).state = BindNode(code[l], a) /\ Out(l, a).seen = Load(l, Read(l), a)
    /\ code[l].op = "read" => Out(l, a).state = a /\ Out(l, a).seen = Load(l, Read(l), a)
    /\ code[l].op \in {"raised", "returned"} => Out(l, a).state = StopAt(a) /\ Out(l, a).seen = {}
    /\ code[l].op \in {"for", "while"} =>
          /\ Out(l, a).state = AfterTurns(l, a).state
          /\ Out(l, a).seen = Load(l, Read(l), a) \cup (FirstTurn(l, a).seen \cup SecondTurn(l, a).seen)
                              \cup AfterTurns(l, a).seen
    /\ code[l].op = "if" =>
          /\ Out(l, a).state = Merge({PartOut(l, 1, a).state, PartOut(l, 2, a).state})
          /\ Out(l, a).seen = PartOut(l, 1, a).seen \cup PartOut(l, 2, a).seen
    /\ code[l].op = "match" =>
          /\ Out(l, a).state = Merge({a, FirstTurn(l, a).state})
          /\ Out(l, a).seen = FirstTurn(l, a).seen
    /\ code[l].op = "try" =>
          /\ Out(l, a).state = TryFinal(l, a).state
          /\ Out(l, a).seen = TryBody(l, a).seen \cup TryHandler(l, a).seen \cup TryElse(l, a).seen
                              \cup TryFinal(l, a).seen

LEMMA OutIs ==
  ASSUME InSight, Written, NEW l \in Lines, NEW a \in States
  PROVE  Out(l, a) \in Outcomes /\ OutFor(l, a)
<1> DEFINE s == code[l]
<1>0. Out(l, a) \in Outcomes
  <2>1. \A at \in Below(l) : Statements[at] \in Outcomes
    <3> SUFFICES ASSUME NEW at \in Below(l) PROVE Statements[at] \in Outcomes
      OBVIOUS
    <3>1. at = <<at[1], at[2]>> /\ at[1] \in (l + 1) .. End /\ at[2] \in States /\ l \in Nat
      BY CodeIsListed DEF Below
    <3>2. at[1] \in 1 .. End
      BY <3>1
    <3>3. at \in (1 .. End) \X States
      BY <3>1, <3>2
    <3>4. QED
      BY <3>3, WalkIs
  <2>2. QED
    BY <2>1, StatementWalks DEF Out
<1>1. s.line = l
  BY DEF Written
<1>2. \A p, e : Part(Statements, s, p, e) = PartOut(l, p, e)
  BY <1>1 DEF Part, PartOut
<1>3. "test reads" \notin style.habits
  BY DEF InSight, Written
<1>4. Load(s.line, {}, a) = {}
  BY DEF Load
<1> HIDE DEF s
<1>5. ASSUME s.op = "bind" PROVE OutFor(l, a)
  BY <1>0, <1>1, <1>5, OutcomeParts DEF Out, Statement, Exits, Read, OutFor, s
<1>6. ASSUME s.op = "augment" PROVE OutFor(l, a)
  BY <1>0, <1>1, <1>6, OutcomeParts DEF Out, Statement, Exits, Read, OutFor, s
<1>7. ASSUME s.op = "read" PROVE OutFor(l, a)
  BY <1>0, <1>1, <1>7, OutcomeParts DEF Out, Statement, Exits, Read, OutFor, s
<1>8. ASSUME s.op \in {"raised", "returned"} PROVE OutFor(l, a)
  BY <1>0, <1>8, OutcomeParts DEF Out, Statement, Exits, OutFor, s
<1>9. ASSUME s.op \in {"for", "while"} PROVE OutFor(l, a)
  <2>1. Out(l, a) = Loop(Statements, s, a)
    BY <1>9 DEF Out, Statement, Exits, s
  <2>2. BodyTwice(Statements, s, a) = Outcome(SecondTurn(l, a).state, FirstTurn(l, a).seen \cup SecondTurn(l, a).seen)
    BY <1>2 DEF BodyTwice, FirstTurn, SecondTurn, s
  <2>3. (IF s.op = "for" THEN Load(s.line, NamesIn(s.value), a)
         ELSE IF "test reads" \in style.habits THEN Load(s.line, style.names, a) ELSE {})
        = Load(l, Read(l), a)
    <3>1. CASE s.op = "for"
      BY <1>1, <3>1 DEF Read, s
    <3>2. CASE s.op = "while"
      BY <1>1, <1>3, <1>4, <3>2 DEF Read, s
    <3>3. QED
      BY <1>9, <3>1, <3>2
  <2>4. Loop(Statements, s, a) =
           Outcome(PartOut(l, 2, Merge({a, BodyTwice(Statements, s, a).state})).state,
                   Load(l, Read(l), a) \cup BodyTwice(Statements, s, a).seen
                   \cup PartOut(l, 2, Merge({a, BodyTwice(Statements, s, a).state})).seen)
    BY <1>2, <2>3 DEF Loop
  <2>5. Loop(Statements, s, a) =
           Outcome(AfterTurns(l, a).state,
                   Load(l, Read(l), a) \cup (FirstTurn(l, a).seen \cup SecondTurn(l, a).seen) \cup AfterTurns(l, a).seen)
    <3>1. /\ BodyTwice(Statements, s, a).state = SecondTurn(l, a).state
          /\ BodyTwice(Statements, s, a).seen = FirstTurn(l, a).seen \cup SecondTurn(l, a).seen
      BY <2>2 DEF Outcome
    <3>2. PartOut(l, 2, Merge({a, BodyTwice(Statements, s, a).state})) = AfterTurns(l, a)
      BY <3>1 DEF AfterTurns
    <3>3. QED
      BY <2>4, <3>1, <3>2
  <2>6. /\ Out(l, a).state = AfterTurns(l, a).state
        /\ Out(l, a).seen = Load(l, Read(l), a) \cup (FirstTurn(l, a).seen \cup SecondTurn(l, a).seen)
                            \cup AfterTurns(l, a).seen
    BY <2>1, <2>5 DEF Outcome
  <2>7. QED
    BY <1>9, <2>6 DEF OutFor, s
<1>10. ASSUME s.op = "if" PROVE OutFor(l, a)
  <2>1. Out(l, a) = IfStatement(Statements, s, a)
    BY <1>10 DEF Out, Statement, Exits, s
  <2>2. Out(l, a) = Outcome(Merge({PartOut(l, 1, a).state, PartOut(l, 2, a).state}),
                            PartOut(l, 1, a).seen \cup PartOut(l, 2, a).seen)
    BY <1>2, <2>1 DEF IfStatement
  <2>3. /\ Out(l, a).state = Merge({PartOut(l, 1, a).state, PartOut(l, 2, a).state})
        /\ Out(l, a).seen = PartOut(l, 1, a).seen \cup PartOut(l, 2, a).seen
    BY <2>2 DEF Outcome
  <2>4. QED
    BY <1>10, <2>3 DEF OutFor, s
<1>11. ASSUME s.op = "match" PROVE OutFor(l, a)
  <2>1. Out(l, a) = MatchStatement(Statements, s, a)
    BY <1>11 DEF Out, Statement, Exits, s
  <2>2. Out(l, a) = Outcome(Merge({a, FirstTurn(l, a).state}), FirstTurn(l, a).seen)
    BY <1>2, <2>1 DEF MatchStatement, FirstTurn, s
  <2>3. QED
    BY <1>11, <2>2 DEF OutFor, Outcome, s
<1>12. ASSUME s.op = "try" PROVE OutFor(l, a)
  <2>1. Out(l, a) = TryStatement(Statements, s, a)
    BY <1>12 DEF Out, Statement, Exits, s
  <2>2. Out(l, a) = Outcome(TryFinal(l, a).state, TryBody(l, a).seen \cup TryHandler(l, a).seen
                                                  \cup TryElse(l, a).seen \cup TryFinal(l, a).seen)
    BY <1>2, <2>1 DEF TryStatement, TryBody, TryHandler, TryElse, TryFinal
  <2>3. QED
    BY <1>12, <2>2 DEF OutFor, Outcome, s
<1>13. s.op \in Ops
  BY CodeIsListed DEF Nodes, s
<1>14. OutFor(l, a)
  BY <1>5, <1>6, <1>7, <1>8, <1>9, <1>10, <1>11, <1>12, <1>13 DEF Ops, Plain, Compound
<1>15. QED
  BY <1>0, <1>14

\* And a line with those that follow it.
LEMMA LineOut ==
  ASSUME InSight, Written, NEW l \in Lines, NEW a \in States
  PROVE  /\ Out(l, a).state \in States /\ Following(l) \in 1 .. End /\ Following(l) > l
         /\ Statements[<<Following(l), Out(l, a).state>>] \in Outcomes
         /\ Statements[<<l, a>>].state = Statements[<<Following(l), Out(l, a).state>>].state
         /\ Statements[<<l, a>>].seen = Out(l, a).seen \cup Statements[<<Following(l), Out(l, a).state>>].seen
<1>1. l \in 1 .. End /\ l # End
  BY CodeIsListed
<1>2. Statements[<<l, a>>] = WalkStep(Statements, <<l, a>>)
  BY <1>1, WalkIs
<1>3. Out(l, a).state \in States
  BY OutIs, OutcomeHas
<1>4. Following(l) \in 1 .. End /\ Following(l) > l
  BY FollowingIs
<1>5. Statements[<<Following(l), Out(l, a).state>>] \in Outcomes
  BY <1>3, <1>4, WalkIs
<1>6. WalkStep(Statements, <<l, a>>) =
         Outcome(Statements[<<Following(l), Out(l, a).state>>].state,
                 Out(l, a).seen \cup Statements[<<Following(l), Out(l, a).state>>].seen)
  BY <1>1 DEF WalkStep, Out
<1>7. QED
  BY <1>2, <1>3, <1>4, <1>5, <1>6, OutcomeParts

LEMMA EndOut ==
  ASSUME Written, NEW a \in States
  PROVE  Statements[<<End, a>>].state = a /\ Statements[<<End, a>>].seen = {}
<1>1. End \in 1 .. End
  BY CodeIsListed
<1>2. Statements[<<End, a>>] = WalkStep(Statements, <<End, a>>)
  BY <1>1, WalkIs
<1>3. Statements[<<End, a>>] = Outcome(a, {})
  BY <1>2 DEF WalkStep
<1>4. QED
  BY <1>3, OutcomeParts

-----------------------------------------------------------------------------
(* Each definition is carried through by itself: what comes of one depends *)
(* on no other.                                                            *)

Carried(a, c, m, b) == (a.reachable <=> c.reachable) /\ (b \in a.env[m] => b \in c.env[m])
SeenToo(o, q, m, b) == \A x \in Lines : <<x, m, b>> \in o.seen => <<x, m, b>> \in q.seen
Alone(o, q, m, b) == Carried(o.state, q.state, m, b) /\ SeenToo(o, q, m, b)
Dead(a, o) == ~a.reachable => ~o.state.reachable
Separate(k) ==
    \A a, c \in States, m \in style.names, b \in Bindings :
       Carried(a, c, m, b) => /\ Alone(Statements[<<k, a>>], Statements[<<k, c>>], m, b)
                              /\ Dead(a, Statements[<<k, a>>])

LEMMA MergeHas ==
  ASSUME NEW a \in States, NEW d \in States
  PROVE  /\ Merge({a, d}) \in States
         /\ Merge({a, d}).reachable <=> (a.reachable \/ d.reachable)
         /\ \A m \in style.names : \A b : b \in Merge({a, d}).env[m] <=>
               \/ b \in a.env[m] /\ (a.reachable \/ ~d.reachable)
               \/ b \in d.env[m] /\ (d.reachable \/ ~a.reachable)
<1>1. a.reachable \in BOOLEAN /\ d.reachable \in BOOLEAN
  BY StateHas
<1> DEFINE M == Merge({a, d})
<1>2. /\ M \in States /\ M.reachable = (a.reachable \/ d.reachable)
      /\ \A n \in style.names :
               M.env[n] = (IF a.reachable \/ ~d.reachable THEN a.env[n] ELSE {})
                          \cup (IF d.reachable \/ ~a.reachable THEN d.env[n] ELSE {})
  BY MergeIs
<1> HIDE DEF M
<1>3. QED
  BY <1>1, <1>2 DEF M

LEMMA EnterHas ==
  ASSUME NEW l \in Lines, NEW a \in States
  PROVE  /\ Enter(code[l], a) \in States
         /\ Enter(code[l], a).reachable <=> a.reachable
         /\ \A m \in style.names : \A b : b \in Enter(code[l], a).env[m] <=>
               IF m = code[l].name THEN b = code[l] ELSE b \in a.env[m]
<1> DEFINE E == Enter(code[l], a)
<1>1. /\ E \in States /\ E.reachable = a.reachable
      /\ \A n \in style.names : E.env[n] = IF n = code[l].name THEN {code[l]} ELSE a.env[n]
  BY EnterIs
<1> HIDE DEF E
<1>2. QED
  BY <1>1 DEF E

LEMMA BindHas ==
  ASSUME NEW s \in Bindings, s.name \in style.names, NEW a \in States
  PROVE  /\ BindNode(s, a) \in States
         /\ BindNode(s, a).reachable <=> a.reachable
         /\ \A m \in style.names : \A b : b \in BindNode(s, a).env[m] <=>
               IF m = s.name THEN b = s ELSE b \in a.env[m]
<1> DEFINE E == BindNode(s, a)
<1>1. /\ E \in States /\ E.reachable = a.reachable
      /\ \A n \in style.names : E.env[n] = IF n = s.name THEN {s} ELSE a.env[n]
  BY BindIs
<1> HIDE DEF E
<1>2. QED
  BY <1>1 DEF E

LEMMA MergeCarries ==
  ASSUME NEW a \in States, NEW c \in States, NEW d \in States, NEW e \in States,
         NEW m \in style.names, NEW b, Carried(a, c, m, b), Carried(d, e, m, b)
  PROVE  Carried(Merge({a, d}), Merge({c, e}), m, b)
<1> DEFINE M == Merge({a, d})
           N == Merge({c, e})
<1>1. /\ M.reachable <=> (a.reachable \/ d.reachable)
      /\ b \in M.env[m] <=>
               \/ b \in a.env[m] /\ (a.reachable \/ ~d.reachable)
               \/ b \in d.env[m] /\ (d.reachable \/ ~a.reachable)
  BY MergeHas
<1>2. /\ N.reachable <=> (c.reachable \/ e.reachable)
      /\ b \in N.env[m] <=>
               \/ b \in c.env[m] /\ (c.reachable \/ ~e.reachable)
               \/ b \in e.env[m] /\ (e.reachable \/ ~c.reachable)
  BY MergeHas
<1> HIDE DEF M, N
<1>3. Carried(M, N, m, b)
  BY <1>1, <1>2 DEF Carried
<1>4. QED
  BY <1>3 DEF M, N

LEMMA MergeDead ==
  ASSUME NEW a \in States, NEW d \in States, ~a.reachable, ~d.reachable
  PROVE  ~Merge({a, d}).reachable
BY MergeHas

LEMMA EnterCarries ==
  ASSUME NEW l \in Lines, NEW a \in States, NEW c \in States,
         NEW m \in style.names, NEW b, Carried(a, c, m, b)
  PROVE  Carried(Enter(code[l], a), Enter(code[l], c), m, b)
<1> DEFINE E == Enter(code[l], a)
           F == Enter(code[l], c)
<1>1. (E.reachable <=> a.reachable) /\ (b \in E.env[m] <=> IF m = code[l].name THEN b = code[l] ELSE b \in a.env[m])
  BY EnterHas
<1>2. (F.reachable <=> c.reachable) /\ (b \in F.env[m] <=> IF m = code[l].name THEN b = code[l] ELSE b \in c.env[m])
  BY EnterHas
<1> HIDE DEF E, F
<1>3. Carried(E, F, m, b)
  BY <1>1, <1>2 DEF Carried
<1>4. QED
  BY <1>3 DEF E, F

LEMMA StatementCarries ==
  ASSUME InSight, Written, NEW l \in Lines, \A k \in 1 .. End : k > l => Separate(k),
         NEW a \in States, NEW c \in States, NEW m \in style.names, NEW b \in Bindings,
         Carried(a, c, m, b)
  PROVE  Alone(Out(l, a), Out(l, c), m, b) /\ Dead(a, Out(l, a))
<1> DEFINE s == code[l]
<1>1. ASSUME NEW p, NEW d \in States, NEW e \in States, Carried(d, e, m, b)
      PROVE  /\ Carried(PartOut(l, p, d).state, PartOut(l, p, e).state, m, b)
             /\ SeenToo(PartOut(l, p, d), PartOut(l, p, e), m, b)
             /\ ~d.reachable => ~PartOut(l, p, d).state.reachable
  <2>1. First(l, p) \in 1 .. End /\ First(l, p) > l
    BY FirstIs, CodeIsListed
  <2>2. QED
    BY <1>1, <2>1 DEF Separate, Alone, Dead, PartOut
<1>2. SeenToo([seen |-> Load(l, Read(l), a)], [seen |-> Load(l, Read(l), c)], m, b)
  BY LoadIs, ReadIsNames DEF SeenToo, Carried
<1>3. \A x \in Lines : <<x, m, b>> \in Load(l, Read(l), a) => <<x, m, b>> \in Load(l, Read(l), c)
  BY LoadIs, ReadIsNames DEF Carried
<1>4. a.reachable \in BOOLEAN /\ c.reachable \in BOOLEAN
  BY StateHas
<1>16. OutFor(l, a) /\ OutFor(l, c)
  BY OutIs
<1>5. CASE s.op \in {"bind", "augment"}
  <2>1. Carried(BindNode(s, a), BindNode(s, c), m, b) /\ (BindNode(s, a).reachable <=> a.reachable)
    <3>1. s \in Bindings /\ s.name \in style.names
      BY <1>5 DEF Written, Bindings
    <3> DEFINE E == BindNode(s, a)
               F == BindNode(s, c)
    <3>2. (E.reachable <=> a.reachable) /\ (b \in E.env[m] <=> IF m = s.name THEN b = s ELSE b \in a.env[m])
      BY <3>1, BindHas
    <3>3. (F.reachable <=> c.reachable) /\ (b \in F.env[m] <=> IF m = s.name THEN b = s ELSE b \in c.env[m])
      BY <3>1, BindHas
    <3> HIDE DEF E, F
    <3>4. Carried(E, F, m, b) /\ (E.reachable <=> a.reachable)
      BY <3>2, <3>3 DEF Carried
    <3>5. QED
      BY <3>4 DEF E, F
  <2>2. QED
    <3>1. /\ Out(l, a).state = BindNode(s, a) /\ Out(l, a).seen = Load(l, Read(l), a)
          /\ Out(l, c).state = BindNode(s, c) /\ Out(l, c).seen = Load(l, Read(l), c)
      BY <1>5, <1>16 DEF OutFor
    <3>2. QED
      BY <1>3, <2>1, <3>1 DEF Alone, SeenToo, Dead
<1>6. CASE s.op = "read"
  <2>1. /\ Out(l, a).state = a /\ Out(l, a).seen = Load(l, Read(l), a)
        /\ Out(l, c).state = c /\ Out(l, c).seen = Load(l, Read(l), c)
    BY <1>6, <1>16 DEF OutFor
  <2>2. QED
    BY <1>3, <2>1 DEF Alone, SeenToo, Dead
<1>7. CASE s.op \in {"raised", "returned"}
  <2>1. /\ StopAt(a).reachable = FALSE /\ StopAt(c).reachable = FALSE
        /\ StopAt(a).env = a.env /\ StopAt(c).env = c.env
    BY DEF StopAt, State
  <2>2. QED
    <3>1. /\ Out(l, a).state = StopAt(a) /\ Out(l, a).seen = {}
          /\ Out(l, c).state = StopAt(c) /\ Out(l, c).seen = {}
      BY <1>7, <1>16 DEF OutFor
    <3>2. QED
      BY <2>1, <3>1 DEF Alone, SeenToo, Dead, Carried
<1>8. Carried(Enter(s, a), Enter(s, c), m, b) /\ Enter(s, a).reachable = a.reachable
  BY EnterCarries, EnterIs
<1>9. /\ Carried(FirstTurn(l, a).state, FirstTurn(l, c).state, m, b)
      /\ SeenToo(FirstTurn(l, a), FirstTurn(l, c), m, b)
      /\ ~a.reachable => ~FirstTurn(l, a).state.reachable
  BY <1>1, <1>8, StatesOut DEF FirstTurn
<1>10. CASE s.op \in {"for", "while"}
  <2> DEFINE d == Merge({a, FirstTurn(l, a).state})
             e == Merge({c, FirstTurn(l, c).state})
  <2>1. d \in States /\ e \in States /\ Carried(d, e, m, b) /\ (~a.reachable => ~d.reachable)
    BY <1>9, MergeCarries, StatesOut, MergeDead
  <2>2. /\ Carried(SecondTurn(l, a).state, SecondTurn(l, c).state, m, b)
        /\ SeenToo(SecondTurn(l, a), SecondTurn(l, c), m, b)
        /\ ~a.reachable => ~SecondTurn(l, a).state.reachable
    <3>1. SecondTurn(l, a) = PartOut(l, 1, Enter(s, d)) /\ SecondTurn(l, c) = PartOut(l, 1, Enter(s, e))
      BY DEF SecondTurn
    <3> HIDE DEF d, e
    <3>2. Carried(Enter(s, d), Enter(s, e), m, b) /\ Enter(s, d).reachable = d.reachable
          /\ Enter(s, d) \in States /\ Enter(s, e) \in States
      BY <2>1, EnterCarries, EnterIs
    <3>3. QED
      BY <1>1, <2>1, <3>1, <3>2
  <2>3. /\ Carried(AfterTurns(l, a).state, AfterTurns(l, c).state, m, b)
        /\ SeenToo(AfterTurns(l, a), AfterTurns(l, c), m, b)
        /\ ~a.reachable => ~AfterTurns(l, a).state.reachable
    <3> DEFINE f == Merge({a, SecondTurn(l, a).state})
               g == Merge({c, SecondTurn(l, c).state})
    <3>1. f \in States /\ g \in States /\ Carried(f, g, m, b) /\ (~a.reachable => ~f.reachable)
      BY <2>2, MergeCarries, StatesOut, MergeDead
    <3>2. AfterTurns(l, a) = PartOut(l, 2, f) /\ AfterTurns(l, c) = PartOut(l, 2, g)
      BY DEF AfterTurns
    <3> HIDE DEF f, g
    <3>3. QED
      BY <1>1, <3>1, <3>2
  <2>4. QED
    <3>1. \A h \in {a, c} :
             /\ Out(l, h).state = AfterTurns(l, h).state
             /\ Out(l, h).seen = Load(l, Read(l), h) \cup (FirstTurn(l, h).seen \cup SecondTurn(l, h).seen)
                                 \cup AfterTurns(l, h).seen
      BY <1>10, <1>16 DEF OutFor
    <3>2. QED
      BY <1>3, <1>9, <2>2, <2>3, <3>1 DEF Alone, SeenToo, Dead
<1>11. CASE s.op = "if"
  <2>1. Carried(Merge({PartOut(l, 1, a).state, PartOut(l, 2, a).state}),
                Merge({PartOut(l, 1, c).state, PartOut(l, 2, c).state}), m, b)
    BY <1>1, MergeCarries, PartsOut
  <2>2. ~a.reachable => ~Merge({PartOut(l, 1, a).state, PartOut(l, 2, a).state}).reachable
    BY <1>1, MergeDead, PartsOut
  <2>3. \A e \in {a, c} :
           /\ Out(l, e).state = Merge({PartOut(l, 1, e).state, PartOut(l, 2, e).state})
           /\ Out(l, e).seen = PartOut(l, 1, e).seen \cup PartOut(l, 2, e).seen
    BY <1>11, <1>16 DEF OutFor
  <2>4. SeenToo(PartOut(l, 1, a), PartOut(l, 1, c), m, b) /\ SeenToo(PartOut(l, 2, a), PartOut(l, 2, c), m, b)
    BY <1>1
  <2>5. QED
    BY <2>1, <2>2, <2>3, <2>4 DEF Alone, SeenToo, Dead
<1>12. CASE s.op = "match"
  <2>1. Carried(Merge({a, FirstTurn(l, a).state}), Merge({c, FirstTurn(l, c).state}), m, b)
    BY <1>9, MergeCarries, StatesOut
  <2>2. ~a.reachable => ~Merge({a, FirstTurn(l, a).state}).reachable
    BY <1>9, MergeDead, StatesOut
  <2>3. \A e \in {a, c} :
           Out(l, e).state = Merge({e, FirstTurn(l, e).state}) /\ Out(l, e).seen = FirstTurn(l, e).seen
    BY <1>12, <1>16 DEF OutFor
  <2>4. QED
    BY <1>9, <2>1, <2>2, <2>3 DEF Alone, SeenToo, Dead
<1>13. CASE s.op = "try"
  <2>1. /\ Carried(TryBody(l, a).state, TryBody(l, c).state, m, b)
        /\ SeenToo(TryBody(l, a), TryBody(l, c), m, b)
        /\ ~a.reachable => ~TryBody(l, a).state.reachable
    BY <1>1 DEF TryBody
  <2>2. /\ Carried(Merge({a, TryBody(l, a).state}), Merge({c, TryBody(l, c).state}), m, b)
        /\ ~a.reachable => ~Merge({a, TryBody(l, a).state}).reachable
    BY <2>1, MergeCarries, StatesOut, MergeDead
  <2>3. /\ Carried(TryHandler(l, a).state, TryHandler(l, c).state, m, b)
        /\ SeenToo(TryHandler(l, a), TryHandler(l, c), m, b)
        /\ ~a.reachable => ~TryHandler(l, a).state.reachable
    BY <1>1, <2>2, StatesOut DEF TryHandler
  <2>4. /\ Carried(TryElse(l, a).state, TryElse(l, c).state, m, b)
        /\ SeenToo(TryElse(l, a), TryElse(l, c), m, b)
        /\ ~a.reachable => ~TryElse(l, a).state.reachable
    BY <1>1, <2>1, StatesOut DEF TryElse
  <2>5. /\ Carried(Merge({TryElse(l, a).state, TryHandler(l, a).state}),
                   Merge({TryElse(l, c).state, TryHandler(l, c).state}), m, b)
        /\ ~a.reachable => ~Merge({TryElse(l, a).state, TryHandler(l, a).state}).reachable
    BY <2>3, <2>4, MergeCarries, StatesOut, MergeDead
  <2>6. /\ Carried(TryFinal(l, a).state, TryFinal(l, c).state, m, b)
        /\ SeenToo(TryFinal(l, a), TryFinal(l, c), m, b)
        /\ ~a.reachable => ~TryFinal(l, a).state.reachable
    BY <1>1, <2>5, StatesOut DEF TryFinal
  <2>7. QED
    <3>1. \A e \in {a, c} :
             /\ Out(l, e).state = TryFinal(l, e).state
             /\ Out(l, e).seen = TryBody(l, e).seen \cup TryHandler(l, e).seen \cup TryElse(l, e).seen
                                 \cup TryFinal(l, e).seen
      BY <1>13, <1>16 DEF OutFor
    <3>2. QED
      BY <2>1, <2>3, <2>4, <2>6, <3>1 DEF Alone, SeenToo, Dead
<1>14. s.op \in Ops
  BY CodeIsListed DEF Nodes
<1>15. QED
  BY <1>5, <1>6, <1>7, <1>10, <1>11, <1>12, <1>13, <1>14 DEF Ops, Plain, Compound

LEMMA AllSeparate ==
  ASSUME InSight, Written
  PROVE  \A k \in 1 .. End : Separate(k)
<1> DEFINE G == {k \in 1 .. End : Separate(k)}
<1>1. ASSUME NEW k \in 1 .. End, \A j \in 1 .. End : j > k => j \in G PROVE Separate(k)
  <2> SUFFICES ASSUME NEW a \in States, NEW c \in States, NEW m \in style.names, NEW b \in Bindings,
                      Carried(a, c, m, b)
               PROVE  /\ Alone(Statements[<<k, a>>], Statements[<<k, c>>], m, b)
                      /\ Dead(a, Statements[<<k, a>>])
    BY DEF Separate
  <2>1. CASE k = End
    BY <2>1, EndOut DEF Alone, Carried, SeenToo, Dead
  <2>2. CASE k # End
    <3>1. k \in Lines /\ \A j \in 1 .. End : j > k => Separate(j)
      BY <1>1, <2>2, CodeIsListed
    <3>2. Alone(Out(k, a), Out(k, c), m, b) /\ Dead(a, Out(k, a))
      BY <3>1, StatementCarries
    <3> DEFINE d == Out(k, a).state
               e == Out(k, c).state
    <3>3. d \in States /\ e \in States /\ Following(k) \in 1 .. End /\ Following(k) > k
      BY <3>1, LineOut
    <3>4. Alone(Statements[<<Following(k), d>>], Statements[<<Following(k), e>>], m, b)
          /\ Dead(d, Statements[<<Following(k), d>>])
      BY <3>1, <3>2, <3>3 DEF Separate, Alone
    <3>5. /\ Statements[<<k, a>>].state = Statements[<<Following(k), d>>].state
          /\ Statements[<<k, a>>].seen = Out(k, a).seen \cup Statements[<<Following(k), d>>].seen
          /\ Statements[<<k, c>>].state = Statements[<<Following(k), e>>].state
          /\ Statements[<<k, c>>].seen = Out(k, c).seen \cup Statements[<<Following(k), e>>].seen
      BY <3>1, LineOut
    <3>6. Dead(a, Statements[<<k, a>>])
      BY <3>2, <3>4, <3>5 DEF Dead
    <3> HIDE DEF d, e
    <3>7. QED
      BY <3>2, <3>4, <3>5, <3>6 DEF Alone, SeenToo
  <2>3. QED
    BY <2>1, <2>2
<1> HIDE DEF G
<1>2. \A k \in 1 .. End : k \in G
  <2>1. \A k \in 1 .. End : (\A j \in 1 .. End : j > k => j \in G) => k \in G
    BY <1>1 DEF G
  <2>2. End \in Nat
    BY CodeIsListed
  <2>3. QED
    BY <2>1, <2>2, Upwards
<1>3. QED
  BY <1>2 DEF G

\* A second turn of a loop binds nothing that was not bound before it: what
\* it leaves is what it began with.
LEMMA TurnsAdd ==
  ASSUME InSight, Written, NEW l \in Lines, NEW a \in States, a.reachable, NEW m \in style.names
  PROVE  SecondTurn(l, a).state.env[m] \subseteq Merge({a, FirstTurn(l, a).state}).env[m]
         \/ ~SecondTurn(l, a).state.reachable
<1> DEFINE M == Merge({a, FirstTurn(l, a).state})
<1>1. M \in States /\ M.reachable /\ a.env[m] \subseteq M.env[m]
      /\ (FirstTurn(l, a).state.reachable => FirstTurn(l, a).state.env[m] \subseteq M.env[m])
  <2>1. FirstTurn(l, a).state \in States
    BY StatesOut
  <2>2. /\ M.reachable <=> (a.reachable \/ FirstTurn(l, a).state.reachable)
        /\ \A b : b \in M.env[m] <=>
               \/ b \in a.env[m] /\ (a.reachable \/ ~FirstTurn(l, a).state.reachable)
               \/ b \in FirstTurn(l, a).state.env[m] /\ (FirstTurn(l, a).state.reachable \/ ~a.reachable)
    BY <2>1, MergeHas
  <2>3. M \in States
    BY <2>1, MergeHas
  <2> HIDE DEF M
  <2>4. QED
    BY <2>2, <2>3
<1>2. SUFFICES ASSUME NEW b \in SecondTurn(l, a).state.env[m], b \notin M.env[m], SecondTurn(l, a).state.reachable
               PROVE  FALSE
  OBVIOUS
<1>3. b \in Bindings
  BY StatesOut, StateHas
<1>4. Carried(M, a, m, b)
  BY <1>1, <1>2 DEF Carried
<1>5. SecondTurn(l, a) = PartOut(l, 1, Enter(code[l], M)) /\ FirstTurn(l, a) = PartOut(l, 1, Enter(code[l], a))
  BY DEF SecondTurn, FirstTurn
<1> HIDE DEF M
<1>6. Carried(Enter(code[l], M), Enter(code[l], a), m, b)
      /\ Enter(code[l], M) \in States /\ Enter(code[l], a) \in States
  BY <1>1, <1>4, EnterCarries, EnterIs
<1>7. First(l, 1) \in 1 .. End
  BY FirstIs, CodeIsListed
<1>8. Carried(SecondTurn(l, a).state, FirstTurn(l, a).state, m, b)
  BY <1>3, <1>5, <1>6, <1>7, AllSeparate DEF Separate, Alone, PartOut
<1>9. QED
  BY <1>1, <1>2, <1>8 DEF Carried

-----------------------------------------------------------------------------
(* What Python does is a flow.                                             *)

Givens == Lines \X Holdings
Flows == [next : SUBSET Stores, raised : SUBSET Stores, returned : SUBSET Stores,
          broke : SUBSET Stores, continued : SUBSET Stores,
          seen : SUBSET Uses, given : SUBSET Givens]

LEMMA FlowIs ==
  ASSUME NEW N \in SUBSET Stores, NEW U \in SUBSET Uses, NEW G \in SUBSET Givens
  PROVE  /\ Flow(N, U, G) \in Flows
         /\ Flow(N, U, G).next = N /\ Flow(N, U, G).seen = U /\ Flow(N, U, G).raised = {}
         /\ Flow(N, U, G).broke = {} /\ Flow(N, U, G).continued = {} /\ Flow(N, U, G).returned = {}
BY DEF Flow, Flows

LEMMA FlowHas ==
  ASSUME NEW f \in Flows
  PROVE  /\ f.next \in SUBSET Stores /\ f.raised \in SUBSET Stores /\ f.returned \in SUBSET Stores
         /\ f.broke \in SUBSET Stores /\ f.continued \in SUBSET Stores
         /\ f.seen \in SUBSET Uses /\ f.given \in SUBSET Givens
BY DEF Flows

LEMMA EitherIs ==
  ASSUME NEW F \in SUBSET Flows
  PROVE  /\ Either(F) \in Flows
         /\ Either(F).next = UNION {f.next : f \in F} /\ Either(F).seen = UNION {f.seen : f \in F}
         /\ Either(F).raised = UNION {f.raised : f \in F} /\ Either(F).broke = UNION {f.broke : f \in F}
         /\ Either(F).continued = UNION {f.continued : f \in F}
         /\ Either(F).returned = UNION {f.returned : f \in F}
<1>1. \A f \in F : /\ f.next \in SUBSET Stores /\ f.raised \in SUBSET Stores /\ f.returned \in SUBSET Stores
                   /\ f.broke \in SUBSET Stores /\ f.continued \in SUBSET Stores
                   /\ f.seen \in SUBSET Uses /\ f.given \in SUBSET Givens
  BY FlowHas
<1>2. /\ UNION {f.next : f \in F} \in SUBSET Stores /\ UNION {f.raised : f \in F} \in SUBSET Stores
      /\ UNION {f.returned : f \in F} \in SUBSET Stores /\ UNION {f.broke : f \in F} \in SUBSET Stores
      /\ UNION {f.continued : f \in F} \in SUBSET Stores
  BY <1>1
<1>3. UNION {f.seen : f \in F} \in SUBSET Uses /\ UNION {f.given : f \in F} \in SUBSET Givens
  BY <1>1
<1>4. QED
  BY <1>2, <1>3 DEF Either, Flows

LEMMA TogetherIs ==
  ASSUME NEW f \in Flows, NEW g \in Flows
  PROVE  /\ Together(f, g) \in Flows
         /\ Together(f, g).next = f.next \cup g.next /\ Together(f, g).seen = f.seen \cup g.seen
         /\ Together(f, g).raised = f.raised \cup g.raised /\ Together(f, g).broke = f.broke \cup g.broke
         /\ Together(f, g).continued = f.continued \cup g.continued
         /\ Together(f, g).returned = f.returned \cup g.returned
<1>1. Together(f, g) = Either({f, g})
  BY DEF Together
<1>2. {f, g} \in SUBSET Flows
  OBVIOUS
<1>3. /\ UNION {h.next : h \in {f, g}} = f.next \cup g.next /\ UNION {h.seen : h \in {f, g}} = f.seen \cup g.seen
      /\ UNION {h.raised : h \in {f, g}} = f.raised \cup g.raised
      /\ UNION {h.broke : h \in {f, g}} = f.broke \cup g.broke
      /\ UNION {h.continued : h \in {f, g}} = f.continued \cup g.continued
      /\ UNION {h.returned : h \in {f, g}} = f.returned \cup g.returned
  OBVIOUS
<1>4. QED
  BY <1>1, <1>2, <1>3, EitherIs

LEMMA ChangedNext ==
  ASSUME NEW f \in Flows, NEW N \in SUBSET Stores
  PROVE  /\ [f EXCEPT !.next = N] \in Flows /\ [f EXCEPT !.next = N].next = N
         /\ [f EXCEPT !.next = N].seen = f.seen /\ [f EXCEPT !.next = N].raised = f.raised
         /\ [f EXCEPT !.next = N].broke = f.broke /\ [f EXCEPT !.next = N].continued = f.continued
         /\ [f EXCEPT !.next = N].returned = f.returned
BY DEF Flows

LEMMA ThenIs ==
  ASSUME NEW f \in Flows, NEW g \in Flows
  PROVE  /\ Then(f, g) \in Flows
         /\ Then(f, g).next = g.next /\ Then(f, g).seen = f.seen \cup g.seen
         /\ Then(f, g).raised = f.raised \cup g.raised /\ Then(f, g).broke = f.broke \cup g.broke
         /\ Then(f, g).continued = f.continued \cup g.continued
<1> DEFINE h == [f EXCEPT !.next = {}]
<1>1. /\ h \in Flows /\ h.next = {} /\ h.seen = f.seen /\ h.raised = f.raised /\ h.broke = f.broke
      /\ h.continued = f.continued
  BY ChangedNext
<1>2. Then(f, g) = Together(h, g)
  BY DEF Then
<1> HIDE DEF h
<1>3. /\ Together(h, g) \in Flows
      /\ Together(h, g).next = h.next \cup g.next /\ Together(h, g).seen = h.seen \cup g.seen
      /\ Together(h, g).raised = h.raised \cup g.raised /\ Together(h, g).broke = h.broke \cup g.broke
      /\ Together(h, g).continued = h.continued \cup g.continued
  BY <1>1, TogetherIs
<1>4. QED
  BY <1>1, <1>2, <1>3

LEMMA StoreHas ==
  ASSUME NEW st \in Stores, NEW n \in style.names
  PROVE  st[n] \in [from : Bindings, holds : Holdings] /\ st[n].from \in Bindings /\ st[n].holds \in Holdings
BY DEF Stores

LEMMA EvaluatesIs ==
  ASSUME NEW s, NEW st
  PROVE  Evaluates(s, st) \in Holdings /\ \A v : Known(v) \in Holdings
BY AnythingIsHeld DEF Evaluates, Known

LEMMA Bound ==
  ASSUME NEW st \in Stores, NEW n \in style.names, NEW b \in Bindings, NEW v \in Holdings
  PROVE  /\ [st EXCEPT ![n] = [from |-> b, holds |-> v]] \in Stores
         /\ \A m \in style.names :
               [st EXCEPT ![n] = [from |-> b, holds |-> v]][m] = IF m = n THEN [from |-> b, holds |-> v] ELSE st[m]
<1> DEFINE r == [from |-> b, holds |-> v]
<1>1. r \in [from : Bindings, holds : Holdings]
  OBVIOUS
<1> HIDE DEF r
<1>2. QED
  BY <1>1 DEF Stores, r

SuppliedFrom(l, N, S) ==
    \A x, m, b : <<x, m, b>> \in Supplies(l, N, S) <=> x = l /\ m \in N /\ \E st \in S : st[m].from = b

LEMMA SuppliesIs ==
  ASSUME NEW l \in Lines, NEW N \in SUBSET style.names, NEW S \in SUBSET Stores
  PROVE  Supplies(l, N, S) \in SUBSET Uses /\ SuppliedFrom(l, N, S)
<1>1. \A u \in Supplies(l, N, S) : \E n \in N, st \in S : u = <<l, n, st[n].from>>
  BY DEF Supplies
<1>2. \A n \in N, st \in S : <<l, n, st[n].from>> \in Uses /\ <<l, n, st[n].from>> \in Supplies(l, N, S)
  BY StoreHas DEF Supplies, Uses
<1>3. QED
  BY <1>1, <1>2 DEF SuppliedFrom

LEMMA EnteredIs ==
  ASSUME NEW l \in Lines, NEW v \in Holdings, NEW S \in SUBSET Stores
  PROVE  /\ Entered(code[l], v, S) \in SUBSET Stores
         /\ S = {} => Entered(code[l], v, S) = {}
<1>1. code[l] \in Bindings
  BY DEF Bindings
<1>2. QED
  BY <1>1, Bound DEF Entered

LEMMA AssignedIs ==
  ASSUME NEW l \in Lines, code[l].name \in style.names, NEW S \in SUBSET Stores
  PROVE  /\ Assigned(code[l], S) \in SUBSET Stores
         /\ S = {} => Assigned(code[l], S) = {}
<1>1. code[l] \in Bindings
  BY DEF Bindings
<1>2. ASSUME NEW st \in S
      PROVE  [st EXCEPT ![code[l].name] = [from |-> code[l], holds |-> Evaluates(code[l], st)]] \in Stores
  <2>1. Evaluates(code[l], st) \in Holdings
    BY EvaluatesIs
  <2>2. QED
    BY <1>1, <2>1, Bound
<1>3. QED
  BY <1>2 DEF Assigned

LEMMA AlikeIs ==
  ASSUME NEW s, NEW v, NEW S \in SUBSET Stores
  PROVE  /\ Alike(s, v, S) \in SUBSET Stores /\ Alike(s, v, S) \in SUBSET S
         /\ \A st \in S : Evaluates(s, st) \in Evaluated(s, S) /\ st \in Alike(s, Evaluates(s, st), S)
         /\ \A e \in Evaluated(s, S) : Alike(s, e, S) # {}
         /\ Evaluated(s, S) \in SUBSET Holdings
BY EvaluatesIs DEF Alike, Evaluated

-----------------------------------------------------------------------------
(* The turns of a loop, and that there are some.                           *)

NoTurn(S) == [stores |-> S, flow |-> Nowhere, over |-> FALSE]
AreTurns(n, t, run, s, v, S) ==
    t = [i \in 0 .. n |-> IF i = 0 THEN NoTurn(S) ELSE Turn(run, s, v, t[i - 1])]

LEMMA Climb ==
  ASSUME NEW n \in Nat, NEW G, 0 \in G, \A i \in 1 .. n : i - 1 \in G => i \in G
  PROVE  \A i \in 0 .. n : i \in G
<1> DEFINE T == {m \in 0 .. n : m \notin G}
<1> SUFFICES ASSUME T # {} PROVE FALSE
  OBVIOUS
<1>1. T \in SUBSET Nat
  OBVIOUS
<1>2. PICK m \in T : \A j \in T : m <= j
  BY <1>1, LeastOf
<1>3. m \in 1 .. n /\ m - 1 \in 0 .. n /\ ~(m <= m - 1)
  BY <1>2
<1>4. QED
  BY <1>2, <1>3

LEMMA TurnsAreThere ==
  ASSUME NEW n \in Nat, NEW run, NEW s, NEW v, NEW S
  PROVE  \E t : AreTurns(n, t, run, s, v, S)
<1> DEFINE Onward(u) == Turn(run, s, v, u)
           G == {k \in Nat : \E t : AreTurns(k, t, run, s, v, S)}
<1>1. 0 \in G
  <2> DEFINE t == [i \in 0 .. 0 |-> NoTurn(S)]
  <2>1. AreTurns(0, t, run, s, v, S)
    BY DEF AreTurns
  <2>2. QED
    BY <2>1
<1>2. ASSUME NEW k \in 1 .. n, k - 1 \in G PROVE k \in G
  <2>1. PICK before : AreTurns(k - 1, before, run, s, v, S)
    BY <1>2
  <2> DEFINE t == [i \in 0 .. k |-> IF i = k THEN Onward(before[k - 1]) ELSE before[i]]
  <2>2. before = [i \in 0 .. (k - 1) |-> IF i = 0 THEN NoTurn(S) ELSE Onward(before[i - 1])]
    BY <2>1 DEF AreTurns
  <2> HIDE DEF Onward
  <2>3. \A i \in 0 .. (k - 1) : before[i] = IF i = 0 THEN NoTurn(S) ELSE Onward(before[i - 1])
    BY <2>2
  <2>4. \A i \in 0 .. k : t[i] = IF i = 0 THEN NoTurn(S) ELSE Onward(t[i - 1])
    <3>1. t[k] = Onward(before[k - 1]) /\ \A i \in 0 .. (k - 1) : t[i] = before[i]
      OBVIOUS
    <3>2. \A i \in 0 .. k : i = k \/ (i \in 0 .. (k - 1) /\ (i # 0 => i - 1 \in 0 .. (k - 1)))
      OBVIOUS
    <3>3. k - 1 \in 0 .. (k - 1) /\ k # 0
      OBVIOUS
    <3> HIDE DEF t
    <3>4. QED
      BY <2>3, <3>1, <3>2, <3>3
  <2>5. AreTurns(k, t, run, s, v, S)
    BY <2>4 DEF AreTurns, Onward
  <2>6. QED
    BY <2>5
<1> HIDE DEF G
<1>3. \A k \in 0 .. n : k \in G
  BY <1>1, <1>2, Climb
<1>4. QED
  BY <1>3 DEF G

\* Each turn follows on the last.
LEMMA TurnsAre ==
  ASSUME NEW run, NEW s, NEW v, NEW S
  PROVE  \E t : /\ t[0] = NoTurn(S)
                /\ \A i \in 1 .. MaxTurns : t[i] = Turn(run, s, v, t[i - 1])
                /\ LastTurn(run, s, v, S) = t[MaxTurns]
<1> DEFINE turn == CHOOSE t : AreTurns(MaxTurns, t, run, s, v, S)
<1>1. AreTurns(MaxTurns, turn, run, s, v, S)
  BY TurnsAreThere, LoopsTurn
<1>2. LastTurn(run, s, v, S) = turn[MaxTurns]
  BY DEF LastTurn, AreTurns, NoTurn
<1> HIDE DEF turn
<1>3. \A i \in 0 .. MaxTurns : turn[i] = IF i = 0 THEN NoTurn(S) ELSE Turn(run, s, v, turn[i - 1])
  <2> DEFINE Onward(u) == Turn(run, s, v, u)
  <2>1. turn = [i \in 0 .. MaxTurns |-> IF i = 0 THEN NoTurn(S) ELSE Onward(turn[i - 1])]
    BY <1>1 DEF AreTurns
  <2> HIDE DEF Onward
  <2>2. \A i \in 0 .. MaxTurns : turn[i] = IF i = 0 THEN NoTurn(S) ELSE Onward(turn[i - 1])
    BY <2>1
  <2>3. QED
    BY <2>2 DEF Onward
<1>4. 0 \in 0 .. MaxTurns /\ \A i \in 1 .. MaxTurns : i \in 0 .. MaxTurns /\ i # 0
  BY LoopsTurn
<1>5. QED
  BY <1>2, <1>3, <1>4

-----------------------------------------------------------------------------
(* What each statement does is a flow, and looks no further than its parts. *)

Rounds == [stores : SUBSET Stores, flow : Flows, over : BOOLEAN]
Under(l) == ((l + 1) .. End) \X SUBSET Stores
RunStep(run, at) ==
    IF at[1] = End THEN Flow(at[2], {}, {})
    ELSE LET first == Run(run, code[at[1]], at[2])
         IN Then(first, run[<<Following(at[1]), first.next>>])

LEMMA NowhereIs ==
  Nowhere \in Flows /\ Nowhere.next = {} /\ Nowhere.seen = {} /\ Nowhere.raised = {}
  /\ Nowhere.broke = {} /\ Nowhere.continued = {} /\ Nowhere.returned = {}
BY FlowIs DEF Nowhere

LEMMA RoundHas ==
  ASSUME NEW r \in Rounds
  PROVE  r.stores \in SUBSET Stores /\ r.flow \in Flows /\ r.over \in BOOLEAN
BY DEF Rounds

LEMMA TurnIs ==
  ASSUME NEW run, NEW s, NEW v, NEW r \in Rounds, Suite(run, s, 1, Entered(s, v, r.stores)) \in Flows
  PROVE  LET body  == Suite(run, s, 1, Entered(s, v, r.stores))
             after == Turn(run, s, v, r)
         IN /\ after \in Rounds
            /\ r.over => after = r
            /\ ~r.over => /\ after.stores = r.stores \cup (body.next \cup body.continued)
                          /\ after.flow = Together(r.flow, body)
                          /\ after.over = (body.next \cup body.continued \subseteq r.stores)
<1> DEFINE body == Suite(run, s, 1, Entered(s, v, r.stores))
           flow == Together(r.flow, body)
           stores == r.stores \cup (body.next \cup body.continued)
           over == body.next \cup body.continued \subseteq r.stores
<1>1. flow \in Flows
  BY RoundHas, TogetherIs
<1>2. stores \in SUBSET Stores /\ over \in BOOLEAN
  BY RoundHas, FlowHas
<1>3. Turn(run, s, v, r) = IF r.over THEN r ELSE [stores |-> stores, flow |-> flow, over |-> over]
  BY DEF Turn
<1> HIDE DEF flow, stores, over
<1>4. [stores |-> stores, flow |-> flow, over |-> over] \in Rounds
  BY <1>1, <1>2 DEF Rounds
<1>5. Turn(run, s, v, r) \in Rounds
  BY <1>3, <1>4
<1>6. r.over => Turn(run, s, v, r) = r
  BY <1>3
<1>7. ~r.over => /\ Turn(run, s, v, r).stores = stores /\ Turn(run, s, v, r).flow = flow
                 /\ Turn(run, s, v, r).over = over
  BY <1>3
<1>8. QED
  BY <1>5, <1>6, <1>7 DEF flow, stores, over

LEMMA IteratesAre ==
  ASSUME InSight, Written, NEW l \in Lines, NEW v \in Holdings, NEW S \in SUBSET Stores, NEW run, NEW other,
         \A T \in SUBSET Stores : /\ Suite(run, code[l], 1, T) \in Flows
                                  /\ Suite(other, code[l], 1, T) = Suite(run, code[l], 1, T)
  PROVE  /\ LastTurn(run, code[l], v, S) \in Rounds
         /\ LastTurn(other, code[l], v, S) = LastTurn(run, code[l], v, S)
<1> DEFINE s == code[l]
<1>1. PICK t : /\ t[0] = NoTurn(S)
               /\ \A i \in 1 .. MaxTurns : t[i] = Turn(run, s, v, t[i - 1])
               /\ LastTurn(run, s, v, S) = t[MaxTurns]
  BY TurnsAre
<1>2. PICK u : /\ u[0] = NoTurn(S)
               /\ \A i \in 1 .. MaxTurns : u[i] = Turn(other, s, v, u[i - 1])
               /\ LastTurn(other, s, v, S) = u[MaxTurns]
  BY TurnsAre
<1> DEFINE G == {i \in 0 .. MaxTurns : t[i] \in Rounds /\ u[i] = t[i]}
<1>3. 0 \in G
  <2>1. NoTurn(S) \in Rounds
    BY NowhereIs DEF NoTurn, Rounds
  <2>2. QED
    BY <1>1, <1>2, <2>1, LoopsTurn
<1>4. ASSUME NEW i \in 1 .. MaxTurns, i - 1 \in G PROVE i \in G
  <2> DEFINE r == t[i - 1]
  <2>1. r \in Rounds /\ u[i - 1] = r
    BY <1>4
  <2>2. t[i] = Turn(run, s, v, r) /\ u[i] = Turn(other, s, v, r)
    BY <1>1, <1>2, <2>1
  <2> HIDE DEF r
  <2>3. Entered(s, v, r.stores) \in SUBSET Stores
    BY <2>1, RoundHas, EnteredIs
  <2>4. Turn(run, s, v, r) \in Rounds
    BY <2>1, <2>3, TurnIs
  <2>5. Turn(other, s, v, r) = Turn(run, s, v, r)
    BY <2>3 DEF Turn
  <2>6. i \in 0 .. MaxTurns
    BY LoopsTurn
  <2>7. QED
    BY <2>2, <2>4, <2>5, <2>6
<1> HIDE DEF G
<1>5. \A i \in 0 .. MaxTurns : i \in G
  BY <1>3, <1>4, Climb, LoopsTurn
<1>6. MaxTurns \in G
  BY <1>5, LoopsTurn
<1>7. QED
  BY <1>1, <1>2, <1>6 DEF G

-----------------------------------------------------------------------------
(* How what is written nests.                                              *)

\* Between a block's own line and any line of it stands nothing that is not in
\* the block; of a block that is open, nothing further down is outside it.
Nested ==
    \A l, m \in Lines : code[m].block < l /\ l < m => code[l].block >= code[m].block
Stacked ==
    /\ \A j, k \in 1 .. Len(open) : j <= k => open[j].line <= open[k].line
    /\ \A k \in 1 .. Len(open), l \in Lines : open[k].line < l => code[l].block >= open[k].line

LEMMA WriteNests ==
  ASSUME Written, Opened, Nested, Stacked, NEW s, s.block = Top.line, Write(s)
  PROVE  /\ Len(code') = Len(code) + 1
         /\ Lines' = Lines \cup {Len(code) + 1} /\ \A l \in Lines : l <= Len(code) /\ code'[l] = code[l]
         /\ code'[Len(code) + 1] = s
         /\ Nested'
         /\ \A k \in 1 .. Len(open), l \in Lines' : open[k].line < l => code'[l].block >= open[k].line
<1>1. /\ Len(code') = Len(code) + 1
      /\ \A l \in Lines : l <= Len(code) /\ code'[l] = code[l]
      /\ code'[Len(code) + 1] = s
  BY CodeIsListed DEF Written, Write, Lines
<1>2. Lines' = Lines \cup {Len(code) + 1}
  BY <1>1, CodeIsListed DEF Lines
<1>3. \A k \in 1 .. Len(open) : open[k].line <= Top.line /\ open[k].line \in Nat
  <2>1. \A k \in 1 .. Len(open) : open[k] \in OpenBlocks /\ k <= Len(open)
    BY TopIsOpen DEF Opened
  <2>2. QED
    BY <2>1, TopIsOpen DEF Stacked, OpenBlocks
<1>4. \A k \in 1 .. Len(open), l \in Lines' : open[k].line < l => code'[l].block >= open[k].line
  BY <1>1, <1>2, <1>3, TopIsOpen DEF Stacked
<1>5. \A l \in Lines : l \in Nat /\ code[l].block \in Nat
  BY CodeIsListed DEF Nodes
<1>6. ASSUME NEW l \in Lines', NEW m \in Lines', code'[m].block < l, l < m
      PROVE  code'[l].block >= code'[m].block
  <2>1. l \in Lines
    BY <1>1, <1>2, <1>5, <1>6, CodeIsListed
  <2>2. CASE m \in Lines
    BY <1>1, <1>6, <2>1, <2>2 DEF Nested
  <2>3. CASE m = Len(code) + 1
    <3>1. code'[m].block = Top.line /\ Top.line = open[Len(open)].line /\ Len(open) \in 1 .. Len(open)
      BY <1>1, <2>3, TopIsOpen
    <3>2. code[l].block >= Top.line
      BY <1>6, <2>1, <3>1 DEF Stacked
    <3>3. QED
      BY <1>1, <2>1, <3>1, <3>2
  <2>4. QED
    BY <1>2, <2>2, <2>3
<1>7. Nested'
  BY <1>6 DEF Nested
<1>8. QED
  BY <1>1, <1>2, <1>4, <1>7

LEMMA LineNests ==
  ASSUME Written, Opened, Nested, Stacked, NEW s, s.block = Top.line, WriteLine(s)
  PROVE  Nested' /\ Stacked'
<1>1. Write(s) /\ open' = open
  BY DEF WriteLine
<1>2. QED
  BY <1>1, WriteNests DEF Stacked

LEMMA BlockNests ==
  ASSUME Written, Opened, Nested, Stacked, NEW op, NEW n, NEW v, OpenBlock(op, n, v)
  PROVE  Nested' /\ Stacked'
<1> DEFINE s == Node(op, n, "none", v)
           block == [op |-> op, line |-> Len(code) + 1, part |-> 1]
<1>1. Write(s) /\ open' = Append(open, block) /\ s.block = Top.line
  BY DEF OpenBlock, Node
<1>2. /\ Len(code') = Len(code) + 1 /\ Len(code) \in Nat
      /\ Lines' = Lines \cup {Len(code) + 1} /\ \A l \in Lines : l <= Len(code) /\ code'[l] = code[l]
      /\ Nested'
      /\ \A k \in 1 .. Len(open), l \in Lines' : open[k].line < l => code'[l].block >= open[k].line
  BY <1>1, WriteNests, CodeIsListed
<1>3. /\ Len(open') = Len(open) + 1 /\ Len(open) \in Nat
      /\ \A k \in 1 .. Len(open) : open'[k] = open[k] /\ open[k] \in OpenBlocks /\ open[k].line <= Len(code)
      /\ open'[Len(open) + 1] = block
  BY <1>1 DEF Opened
<1>4. \A k \in 1 .. Len(open) : open[k].line \in Nat
  BY <1>3 DEF OpenBlocks
<1>5. block.line = Len(code) + 1
  OBVIOUS
<1> HIDE DEF s, block
<1>6. \A k \in 1 .. Len(open') : k \in 1 .. Len(open) \/ k = Len(open) + 1
  BY <1>3
<1>7. \A j, k \in 1 .. Len(open') : j <= k => open'[j].line <= open'[k].line
  <2> SUFFICES ASSUME NEW j \in 1 .. Len(open'), NEW k \in 1 .. Len(open'), j <= k
               PROVE  open'[j].line <= open'[k].line
    OBVIOUS
  <2>1. CASE k = Len(open) + 1
    <3>1. open'[k].line = Len(code) + 1
      BY <1>3, <1>5, <2>1
    <3>2. CASE j = Len(open) + 1
      BY <1>2, <2>1, <3>1, <3>2
    <3>3. CASE j \in 1 .. Len(open)
      <4>1. open'[j].line = open[j].line /\ open[j].line \in Nat /\ open[j].line <= Len(code)
        BY <1>3, <1>4, <3>3
      <4>2. QED
        BY <1>2, <3>1, <4>1
    <3>4. QED
      BY <1>6, <3>2, <3>3
  <2>2. CASE k \in 1 .. Len(open)
    <3>1. j \in 1 .. Len(open)
      BY <1>3, <1>6, <2>2
    <3>2. QED
      BY <1>3, <2>2, <3>1 DEF Stacked
  <2>3. QED
    BY <1>6, <2>1, <2>2
<1>8. \A k \in 1 .. Len(open'), l \in Lines' : open'[k].line < l => code'[l].block >= open'[k].line
  <2> SUFFICES ASSUME NEW k \in 1 .. Len(open'), NEW l \in Lines', open'[k].line < l
               PROVE  code'[l].block >= open'[k].line
    OBVIOUS
  <2>1. CASE k = Len(open) + 1
    <3>1. l <= Len(code) + 1
      BY <1>2, CodeIsListed
    <3>2. QED
      BY <1>2, <1>3, <1>5, <2>1, <3>1, CodeIsListed
  <2>2. CASE k \in 1 .. Len(open)
    BY <1>2, <1>3, <2>2
  <2>3. QED
    BY <1>6, <2>1, <2>2
<1>9. QED
  BY <1>2, <1>7, <1>8 DEF Stacked

LEMMA NestingStep ==
  ASSUME Written, Opened, Nested, Stacked, FlowNext
  PROVE  Nested' /\ Stacked'
<1>1. \A op, n, call, v : Node(op, n, call, v).block = Top.line
  BY DEF Node
<1>2. CASE WriteBind
  BY <1>1, <1>2, LineNests DEF WriteBind
<1>3. CASE WriteAugment
  BY <1>1, <1>3, LineNests DEF WriteAugment
<1>4. CASE WriteRead
  BY <1>1, <1>4, LineNests DEF WriteRead
<1>5. CASE WriteStop
  BY <1>1, <1>5, LineNests DEF WriteStop
<1>6. CASE OpenPlain
  BY <1>6, BlockNests DEF OpenPlain
<1>7. CASE OpenFor
  BY <1>7, BlockNests DEF OpenFor
<1>8. CASE OpenMatch
  BY <1>8, BlockNests DEF OpenMatch
<1>9. ASSUME UNCHANGED code, Len(open') <= Len(open), Len(open') \in Nat, Len(open) \in Nat,
             \A k \in 1 .. Len(open') : open'[k].line = open[k].line
      PROVE  Nested' /\ Stacked'
  <2>1. Lines' = Lines /\ \A k \in 1 .. Len(open') : k \in 1 .. Len(open)
    BY <1>9 DEF Lines
  <2>2. QED
    BY <1>9, <2>1 DEF Nested, Stacked
<1>10. CASE NextPart
  <2>1. UNCHANGED code /\ open' = [open EXCEPT ![Len(open)].part = @ + 1]
    BY <1>10 DEF NextPart
  <2>2. Len(open) \in Nat /\ \A k \in 1 .. Len(open) : open[k] \in OpenBlocks
    BY DEF Opened
  <2>3. open' = [open EXCEPT ![Len(open)] = [open[Len(open)] EXCEPT !.part = @ + 1]]
    BY <2>1
  <2>4. [open[Len(open)] EXCEPT !.part = @ + 1].line = open[Len(open)].line
    <3> DEFINE t == open[Len(open)]
    <3>1. t \in OpenBlocks
      BY <2>2 DEF Opened
    <3> HIDE DEF t
    <3>2. [t EXCEPT !.part = @ + 1].line = t.line
      BY <3>1 DEF OpenBlocks
    <3>3. QED
      BY <3>2 DEF t
  <2>5. Len(open') = Len(open) /\ \A k \in 1 .. Len(open) :
             open'[k] = IF k = Len(open) THEN [open[Len(open)] EXCEPT !.part = @ + 1] ELSE open[k]
    BY <2>3 DEF Opened
  <2>6. QED
    BY <1>9, <2>1, <2>2, <2>4, <2>5
<1>11. CASE CloseBlock
  <2>1. UNCHANGED code /\ open' = SubSeq(open, 1, Len(open) - 1) /\ Len(open) > 1
    BY <1>11 DEF CloseBlock
  <2>2. Len(open') = Len(open) - 1 /\ Len(open) \in Nat /\ \A k \in 1 .. Len(open') : open'[k] = open[k]
    <3>1. open \in Seq(OpenBlocks) /\ Len(open) \in Nat /\ 1 <= Len(open) - 1 /\ Len(open) - 1 \in Nat
      BY <2>1 DEF Opened
    <3>2. \A k \in 1 .. (Len(open) - 1) : k \in 1 .. Len(open) /\ open[k] \in OpenBlocks
      BY <3>1
    <3>3. open' = [k \in 1 .. (Len(open) - 1) |-> open[k]]
      BY <2>1, <3>1
    <3>4. QED
      BY <3>1, <3>2, <3>3
  <2>3. QED
    BY <1>9, <2>1, <2>2
<1>12. CASE Finish
  <2>1. UNCHANGED <<code, open>> /\ Len(open) \in Nat
    BY <1>12 DEF Finish, Opened
  <2>2. QED
    BY <1>9, <2>1
<1>13. QED
  BY <1>2, <1>3, <1>4, <1>5, <1>6, <1>7, <1>8, <1>10, <1>11, <1>12 DEF FlowNext

LEMMA NestingInit ==
  ASSUME FlowInit
  PROVE  Nested /\ Stacked
<1>1. code = <<>> /\ open = <<[op |-> "function", line |-> 0, part |-> 1]>>
  BY DEF FlowInit
<1>2. Lines = {} /\ Len(open) = 1
  BY <1>1 DEF Lines
<1>3. \A j, k \in 1 .. Len(open) : j <= k => open[j].line <= open[k].line
  BY <1>1, <1>2
<1>4. QED
  BY <1>2, <1>3 DEF Nested, Stacked

-----------------------------------------------------------------------------
(* Where a line stands: in l, or below it in l's block.                    *)

Deep(l, x) == x \in Lines /\ l <= x /\ \A y \in Lines : l < y /\ y <= x => code[y].block >= l
Along(k, x) == \E j \in Lines : k <= j /\ Deep(j, x) /\ code[j].block = code[k].block /\ code[j].part = code[k].part

LEMMA OnePlace ==
  ASSUME Written, NEW j \in Lines, NEW k \in Lines, NEW x, Deep(j, x), Deep(k, x), code[j].block = code[k].block
  PROVE  j = k
<1>1. /\ j \in Nat /\ k \in Nat /\ code[j].block \in Nat /\ code[k].block \in Nat
      /\ code[j].block < j /\ code[k].block < k
  BY CodeIsListed DEF Nodes, Written
<1>2. j <= x /\ k <= x /\ x \in Nat
  BY CodeIsListed DEF Deep
<1>3. ~(j < k)
  BY <1>1, <1>2 DEF Deep
<1>4. ~(k < j)
  BY <1>1, <1>2 DEF Deep
<1>5. QED
  BY <1>1, <1>3, <1>4

\* What is in a part of l is in l.
LEMMA PartsAreDeep ==
  ASSUME Written, Nested, NEW l \in Lines, NEW j \in Lines, code[j].block = l, NEW x, Deep(j, x)
  PROVE  Deep(l, x)
<1>1. l \in Nat /\ j \in Nat /\ x \in Nat /\ l < j /\ j <= x /\ x \in Lines
  BY CodeIsListed DEF Deep, Written
<1>2. ASSUME NEW y \in Lines, l < y, y <= x PROVE code[y].block >= l
  <2>1. y \in Nat /\ code[y].block \in Nat
    BY CodeIsListed DEF Nodes
  <2>2. CASE y < j
    BY <1>2, <2>2 DEF Nested
  <2>3. CASE y = j
    BY <1>1, <2>3
  <2>4. CASE j < y
    <3>1. code[y].block >= j
      BY <1>2, <2>4 DEF Deep
    <3>2. QED
      BY <1>1, <2>1, <3>1
  <2>5. QED
    BY <1>1, <2>1, <2>2, <2>3, <2>4
<1>3. QED
  BY <1>1, <1>2 DEF Deep

LEMMA AlongHere ==
  ASSUME Written, NEW l \in Lines, NEW x, Deep(l, x)
  PROVE  Along(l, x)
BY CodeIsListed DEF Along

LEMMA AlongFollows ==
  ASSUME Written, NEW l \in Lines, Following(l) \in Lines, NEW x, Along(Following(l), x)
  PROVE  Along(l, x) /\ ~Deep(l, x)
<1> DEFINE f == Following(l)
<1>1. f \in Lines /\ f > l /\ code[f].block = code[l].block /\ code[f].part = code[l].part
      /\ f \in Nat /\ l \in Nat
  BY FollowingIs, CodeIsListed
<1>2. PICK j \in Lines : f <= j /\ Deep(j, x) /\ code[j].block = code[f].block /\ code[j].part = code[f].part
  BY DEF Along
<1>3. j \in Nat /\ l <= j /\ j # l
  BY <1>1, <1>2, CodeIsListed
<1>4. QED
  BY <1>1, <1>2, <1>3, OnePlace DEF Along

\* A line is in one part of a statement, and not the statement itself.
InPart(l, p, x) == First(l, p) \in Lines /\ Along(First(l, p), x)

LEMMA PartIsDeep ==
  ASSUME Written, Nested, NEW l \in Lines, NEW p, NEW x, InPart(l, p, x)
  PROVE  Deep(l, x) /\ x # l
<1>1. First(l, p) \in Lines /\ code[First(l, p)].block = l /\ l \in Nat
  BY FirstIs, CodeIsListed DEF InPart
<1>2. PICK j \in Lines : Deep(j, x) /\ code[j].block = l
  BY <1>1 DEF Along, InPart
<1>3. l < j /\ j <= x /\ j \in Nat /\ x \in Nat
  BY <1>2, CodeIsListed DEF Written, Deep
<1>4. QED
  BY <1>1, <1>2, <1>3, PartsAreDeep

LEMMA OnePart ==
  ASSUME Written, Nested, NEW l \in Lines, NEW p, NEW q, NEW x, InPart(l, p, x), InPart(l, q, x)
  PROVE  p = q
<1>1. /\ First(l, p) \in Lines /\ code[First(l, p)].block = l /\ code[First(l, p)].part = p
      /\ First(l, q) \in Lines /\ code[First(l, q)].block = l /\ code[First(l, q)].part = q
  BY FirstIs, CodeIsListed DEF InPart
<1>2. PICK j \in Lines : Deep(j, x) /\ code[j].block = l /\ code[j].part = p
  BY <1>1 DEF Along, InPart
<1>3. PICK k \in Lines : Deep(k, x) /\ code[k].block = l /\ code[k].part = q
  BY <1>1 DEF Along, InPart
<1>4. j = k
  BY <1>2, <1>3, OnePlace
<1>5. QED
  BY <1>2, <1>3, <1>4

LEMMA SuiteRuns ==
  ASSUME Written, NEW l \in Lines, NEW p, NEW S \in SUBSET Stores, NEW run, NEW other,
         \A at \in Under(l) : run[at] \in Flows /\ other[at] = run[at]
  PROVE  Suite(run, code[l], p, S) \in Flows /\ Suite(other, code[l], p, S) = Suite(run, code[l], p, S)
<1>1. First(l, p) \in 1 .. End /\ First(l, p) > l /\ l \in Nat /\ code[l].line = l
  BY FirstIs, CodeIsListed DEF Written
<1>2. <<First(l, p), S>> \in Under(l)
  BY <1>1 DEF Under
<1>3. QED
  BY <1>1, <1>2 DEF Suite

LineFor(f, A, U, S) ==
    f.next = A /\ f.raised = S /\ f.seen = U /\ f.broke = {} /\ f.continued = {}

LEMMA LineIs ==
  ASSUME Written, NEW l \in Lines, NEW N \in SUBSET style.names, NEW A \in SUBSET Stores, NEW S \in SUBSET Stores
  PROVE  Line(code[l], N, A, S) \in Flows /\ LineFor(Line(code[l], N, A, S), A, Supplies(l, N, S), S)
<1> DEFINE U == Supplies(l, N, S)
<1>1. U \in SUBSET Uses
  BY SuppliesIs
<1>2. Line(code[l], N, A, S) = [Flow(A, U, {}) EXCEPT !.raised = S]
  BY DEF Line, Written
<1> HIDE DEF U
<1>3. QED
  BY <1>1, <1>2 DEF Flow, Flows, LineFor, U

LEMMA BrokeIs ==
  ASSUME NEW f \in Flows
  PROVE  /\ [f EXCEPT !.next = {}, !.broke = {}] \in Flows
         /\ [f EXCEPT !.next = {}, !.broke = {}].next = {} /\ [f EXCEPT !.next = {}, !.broke = {}].broke = {}
         /\ [f EXCEPT !.next = {}, !.broke = {}].seen = f.seen
         /\ [f EXCEPT !.next = {}, !.broke = {}].raised = f.raised
         /\ [f EXCEPT !.next = {}, !.broke = {}].continued = f.continued
         /\ [f EXCEPT !.next = {}, !.raised = {}] \in Flows
         /\ [f EXCEPT !.next = {}, !.raised = {}].next = {}
         /\ [f EXCEPT !.next = {}, !.raised = {}].seen = f.seen
         /\ [f EXCEPT !.next = {}, !.raised = {}].broke = f.broke
         /\ [f EXCEPT !.next = {}, !.raised = {}].continued = f.continued
BY DEF Flows

SuitesRun(l, run, other) ==
    \A p, T : T \in SUBSET Stores => /\ Suite(run, code[l], p, T) \in Flows
                                     /\ Suite(other, code[l], p, T) = Suite(run, code[l], p, T)

\* One element's turns, the loop's else after them.
TurnsFor(f, last, over) ==
    /\ f \in Flows /\ f.next = over.next \cup last.flow.broke
    /\ f.seen = last.flow.seen \cup over.seen
    /\ f.broke = over.broke /\ f.continued = over.continued

LEMMA TurnsAreFlows ==
  ASSUME InSight, Written, NEW l \in Lines, NEW v \in Holdings, NEW S \in SUBSET Stores, NEW run, NEW other,
         SuitesRun(l, run, other)
  PROVE  LET last == LastTurn(run, code[l], v, S)
         IN /\ last \in Rounds
            /\ TurnsFor(Turns(run, code[l], v, S), last, Suite(run, code[l], 2, last.stores))
            /\ Turns(other, code[l], v, S) = Turns(run, code[l], v, S)
<1> DEFINE s == code[l]
           last == LastTurn(run, s, v, S)
           turns == Iterate(run, s, v, S)
           over == Suite(run, s, 2, turns.next)
           f == [turns EXCEPT !.next = {}, !.broke = {}]
           g == Together(f, over)
           N == over.next \cup turns.broke
<1>1. last \in Rounds /\ LastTurn(other, s, v, S) = last
  BY IteratesAre DEF SuitesRun
<1>2. last.stores \in SUBSET Stores /\ last.flow \in Flows
  BY <1>1, RoundHas
<1>3. turns = [last.flow EXCEPT !.next = last.stores, !.continued = {}] /\ Iterate(other, s, v, S) = turns
  BY <1>1 DEF Iterate
<1> HIDE DEF last
<1>4. /\ turns \in Flows /\ turns.next = last.stores /\ turns.seen = last.flow.seen
      /\ turns.broke = last.flow.broke /\ turns.continued = {}
  <2> DEFINE e == last.flow
             T == last.stores
  <2>1. e \in Flows /\ T \in SUBSET Stores /\ turns = [e EXCEPT !.next = T, !.continued = {}]
    BY <1>2, <1>3
  <2> HIDE DEF e, T, turns
  <2>2. turns \in Flows /\ turns.next = T /\ turns.seen = e.seen /\ turns.broke = e.broke /\ turns.continued = {}
    BY <2>1 DEF Flows
  <2>3. QED
    BY <2>2 DEF e, T
<1>5. "test reads" \notin style.habits
  BY DEF InSight, Written
<1>6. ASSUME NEW u
      PROVE  Turns(u, s, v, S) = LET ts == Iterate(u, s, v, S)
                                     ov == Suite(u, s, 2, ts.next)
                                 IN [Together([ts EXCEPT !.next = {}, !.broke = {}], ov)
                                        EXCEPT !.next = ov.next \cup ts.broke, !.seen = @ \cup {}]
  BY <1>5 DEF Turns
<1>7. Turns(run, s, v, S) = [g EXCEPT !.next = N, !.seen = @ \cup {}]
  BY <1>6
<1>8. Turns(other, s, v, S) = Turns(run, s, v, S)
  <2>1. Suite(other, s, 2, turns.next) = over
    BY <1>2, <1>4 DEF SuitesRun
  <2> HIDE DEF turns, over
  <2>2. QED
    BY <1>3, <1>6, <2>1 DEF turns, over
<1>9. over \in Flows /\ over = Suite(run, s, 2, last.stores)
  BY <1>2, <1>4 DEF SuitesRun
<1>10. N \in SUBSET Stores
  BY <1>4, <1>9, FlowHas
<1> HIDE DEF turns
<1>11. f \in Flows /\ f.next = {} /\ f.broke = {} /\ f.seen = last.flow.seen /\ f.continued = {}
  BY <1>4, BrokeIs
<1> HIDE DEF f, over
<1>12. /\ g \in Flows /\ g.seen = last.flow.seen \cup over.seen /\ g.broke = {} \cup over.broke
       /\ g.continued = {} \cup over.continued
  <2>1. /\ Together(f, over) \in Flows /\ Together(f, over).seen = f.seen \cup over.seen
        /\ Together(f, over).broke = f.broke \cup over.broke
        /\ Together(f, over).continued = f.continued \cup over.continued
    <3>1. over \in Flows
      BY <1>9
    <3>2. QED
      BY <1>11, <3>1, TogetherIs
  <2>2. QED
    BY <1>11, <2>1
<1> HIDE DEF g
<1>13. TurnsFor(Turns(run, s, v, S), last, over)
  <2>1. N = over.next \cup last.flow.broke
    BY <1>4
  <2> HIDE DEF N
  <2> DEFINE h == [g EXCEPT !.next = N, !.seen = @ \cup {}]
  <2>2. h \in Flows /\ h.next = N /\ h.seen = g.seen \cup {} /\ h.broke = g.broke /\ h.continued = g.continued
    BY <1>10, <1>12 DEF Flows
  <2> HIDE DEF h
  <2>3. h = Turns(run, s, v, S)
    BY <1>7 DEF h
  <2>4. QED
    BY <1>12, <2>1, <2>2, <2>3 DEF TurnsFor
<1>14. QED
  BY <1>1, <1>8, <1>9, <1>13 DEF last

TurnsOf(run, l, e, S) == Turns(run, code[l], e, Alike(code[l], e, S))
LoopFor(f, run, l, S) ==
    /\ f \in Flows
    /\ f.next = UNION {TurnsOf(run, l, e, S).next : e \in Evaluated(code[l], S)}
    /\ f.seen = (UNION {TurnsOf(run, l, e, S).seen : e \in Evaluated(code[l], S)})
                \cup Supplies(l, NamesIn(code[l].value), S)
    /\ f.broke = UNION {TurnsOf(run, l, e, S).broke : e \in Evaluated(code[l], S)}
    /\ f.continued = UNION {TurnsOf(run, l, e, S).continued : e \in Evaluated(code[l], S)}

LEMMA LoopRuns ==
  ASSUME InSight, Written, NEW l \in Lines, NEW S \in SUBSET Stores, NEW run, NEW other,
         SuitesRun(l, run, other)
  PROVE  /\ LoopFor(RunLoop(run, code[l], S), run, l, S)
         /\ RunLoop(other, code[l], S) = RunLoop(run, code[l], S)
<1> DEFINE s == code[l]
           V == Evaluated(s, S)
           F == {TurnsOf(run, l, e, S) : e \in V}
           U == Supplies(l, NamesIn(s.value), S)
           G == {<<l, e>> : e \in V}
           f == Either(F)
<1>1. V \in SUBSET Holdings /\ \A e \in V : Alike(s, e, S) \in SUBSET Stores
  BY AlikeIs
<1>2. ASSUME NEW e \in V
      PROVE  TurnsOf(run, l, e, S) \in Flows /\ TurnsOf(other, l, e, S) = TurnsOf(run, l, e, S)
  <2> DEFINE A == Alike(s, e, S)
  <2>1. A \in SUBSET Stores /\ e \in Holdings
    BY <1>1
  <2> HIDE DEF A, V
  <2>2. Turns(run, s, e, A) \in Flows /\ Turns(other, s, e, A) = Turns(run, s, e, A)
    BY <2>1, TurnsAreFlows DEF TurnsFor
  <2>3. QED
    BY <2>2 DEF TurnsOf, A
<1>3. F \in SUBSET Flows /\ {TurnsOf(other, l, e, S) : e \in V} = F
  BY <1>2
<1>4. U \in SUBSET Uses /\ G \in SUBSET Givens
  <2>1. NamesIn(s.value) \in SUBSET style.names
    BY NamesAreNames
  <2>2. U \in SUBSET Uses
    BY <2>1, SuppliesIs
  <2>3. QED
    BY <1>1, <2>2 DEF Givens
<1>5. \A run2 : RunLoop(run2, s, S) = [Either({TurnsOf(run2, l, e, S) : e \in V})
                                          EXCEPT !.seen = @ \cup U, !.given = @ \cup G]
  <2>1. s.line = l
    BY DEF Written
  <2>2. QED
    BY <2>1 DEF RunLoop, TurnsOf
<1>6. /\ f \in Flows /\ f.next = UNION {h.next : h \in F} /\ f.seen = UNION {h.seen : h \in F}
      /\ f.broke = UNION {h.broke : h \in F} /\ f.continued = UNION {h.continued : h \in F}
  <2> HIDE DEF F
  <2>1. QED
    BY <1>3, EitherIs
<1>7. /\ UNION {h.next : h \in F} = UNION {TurnsOf(run, l, e, S).next : e \in V}
      /\ UNION {h.seen : h \in F} = UNION {TurnsOf(run, l, e, S).seen : e \in V}
      /\ UNION {h.broke : h \in F} = UNION {TurnsOf(run, l, e, S).broke : e \in V}
      /\ UNION {h.continued : h \in F} = UNION {TurnsOf(run, l, e, S).continued : e \in V}
  <2> HIDE DEF V
  <2>1. QED
    OBVIOUS
<1> DEFINE h == [f EXCEPT !.seen = @ \cup U, !.given = @ \cup G]
<1>8. RunLoop(run, s, S) = h /\ RunLoop(other, s, S) = h
  BY <1>3, <1>5
<1> HIDE DEF f, U, G
<1>9. h \in Flows /\ h.next = f.next /\ h.seen = f.seen \cup U /\ h.broke = f.broke /\ h.continued = f.continued
  BY <1>4, <1>6 DEF Flows
<1> HIDE DEF h, F
<1>10. LoopFor(h, run, l, S)
  <2> DEFINE next == UNION {TurnsOf(run, l, e, S).next : e \in V}
             seen == UNION {TurnsOf(run, l, e, S).seen : e \in V}
             broke == UNION {TurnsOf(run, l, e, S).broke : e \in V}
             continued == UNION {TurnsOf(run, l, e, S).continued : e \in V}
  <2>1. f.next = next /\ f.seen = seen /\ f.broke = broke /\ f.continued = continued
    BY <1>6, <1>7
  <2>2. LoopFor(h, run, l, S) <=> h \in Flows /\ h.next = next /\ h.seen = seen \cup U /\ h.broke = broke
                                  /\ h.continued = continued
    BY DEF LoopFor, U
  <2> HIDE DEF next, seen, broke, continued
  <2>3. QED
    BY <1>9, <2>1, <2>2
<1>11. QED
  BY <1>8, <1>10

\* Where nothing is written in it, a finally lets every way out be taken.
LEMMA LeavingIs ==
  ASSUME NEW f \in Flows
  PROVE  \A way \in Ways : Leaving(f, way) \in Flows
<1>1. /\ f.next \in SUBSET Stores /\ f.raised \in SUBSET Stores /\ f.returned \in SUBSET Stores
      /\ f.broke \in SUBSET Stores /\ f.continued \in SUBSET Stores
  BY FlowHas
<1>2. Leaving(f, "next") \in Flows
  BY DEF Leaving
<1>3. Leaving(f, "raised") \in Flows
  BY <1>1 DEF Leaving, Flows
<1>4. Leaving(f, "returned") \in Flows
  BY <1>1 DEF Leaving, Flows
<1>5. Leaving(f, "broke") \in Flows
  BY <1>1 DEF Leaving, Flows
<1>6. Leaving(f, "continued") \in Flows
  BY <1>1 DEF Leaving, Flows
<1>7. QED
  BY <1>2, <1>3, <1>4, <1>5, <1>6 DEF Ways, Exits

LEMMA WayHas ==
  ASSUME NEW f \in Flows
  PROVE  \A way \in Ways : f[way] \in SUBSET Stores
BY FlowHas DEF Ways, Exits

LEMMA FinallyRuns ==
  ASSUME Written, NEW l \in Lines, NEW all \in Flows, NEW run, NEW other,
         SuitesRun(l, run, other)
  PROVE  Finally(run, code[l], all) \in Flows /\ Finally(other, code[l], all) = Finally(run, code[l], all)
<1> DEFINE s == code[l]
           F == {Leaving(Suite(run, s, 4, all[way]), way) : way \in Ways}
<1>1. \A way \in Ways : /\ Leaving(Suite(run, s, 4, all[way]), way) \in Flows
                        /\ Suite(other, s, 4, all[way]) = Suite(run, s, 4, all[way])
  BY LeavingIs, WayHas DEF SuitesRun
<1>2. F \in SUBSET Flows /\ {Leaving(Suite(other, s, 4, all[way]), way) : way \in Ways} = F
  BY <1>1
<1>3. \A run2 : Finally(run2, s, all) = Together(Flow({}, all.seen, all.given),
                                              Either({Leaving(Suite(run2, s, 4, all[way]), way) : way \in Ways}))
  BY DEF Finally
<1>4. Finally(run, s, all) = Together(Flow({}, all.seen, all.given), Either(F))
      /\ Finally(other, s, all) = Together(Flow({}, all.seen, all.given), Either(F))
  BY <1>2, <1>3
<1> HIDE DEF F
<1>5. Either(F) \in Flows /\ Flow({}, all.seen, all.given) \in Flows
  BY <1>2, EitherIs, FlowIs, FlowHas
<1>6. QED
  BY <1>4, <1>5, TogetherIs

LEMMA TryRuns ==
  ASSUME Written, NEW l \in Lines, NEW S \in SUBSET Stores, NEW run, NEW other,
         SuitesRun(l, run, other)
  PROVE  RunTry(run, code[l], S) \in Flows /\ RunTry(other, code[l], S) = RunTry(run, code[l], S)
<1> DEFINE s == code[l]
           body == Suite(run, s, 1, S)
           handler == Suite(run, s, 2, body.raised)
           orelse == Suite(run, s, 3, body.next)
           rest == [body EXCEPT !.next = {}, !.raised = {}]
           all == Either({rest, handler, orelse})
<1>1. body \in Flows /\ Suite(other, s, 1, S) = body
  BY DEF SuitesRun
<1>2. body.raised \in SUBSET Stores /\ body.next \in SUBSET Stores
  BY <1>1, FlowHas
<1>3. handler \in Flows /\ orelse \in Flows /\ Suite(other, s, 2, body.raised) = handler
      /\ Suite(other, s, 3, body.next) = orelse
  BY <1>2 DEF SuitesRun
<1>4. rest \in Flows
  <2> HIDE DEF body
  <2>1. QED
    BY <1>1 DEF Flows
<1>5. RunTry(run, s, S) = Finally(run, s, all)
  BY DEF RunTry
<1>6. RunTry(other, s, S) = Finally(other, s, all)
  <2>1. RunTry(other, s, S) =
           LET b == Suite(other, s, 1, S)
           IN Finally(other, s, Either({[b EXCEPT !.next = {}, !.raised = {}], Suite(other, s, 2, b.raised),
                                        Suite(other, s, 3, b.next)}))
    BY DEF RunTry
  <2> HIDE DEF body, handler, orelse
  <2>2. QED
    BY <1>1, <1>3, <2>1
<1>7. all \in Flows
  <2> HIDE DEF rest, handler, orelse
  <2>1. {rest, handler, orelse} \in SUBSET Flows
    BY <1>3, <1>4
  <2>2. QED
    BY <2>1, EitherIs
<1> HIDE DEF all
<1>8. QED
  BY <1>5, <1>6, <1>7, FinallyRuns

LEMMA StatementRuns ==
  ASSUME InSight, Written, NEW l \in Lines, NEW S \in SUBSET Stores, NEW run, NEW other,
         \A at \in Under(l) : run[at] \in Flows /\ other[at] = run[at]
  PROVE  Run(run, code[l], S) \in Flows /\ Run(other, code[l], S) = Run(run, code[l], S)
<1> DEFINE s == code[l]
<1>0. SuitesRun(l, run, other)
  BY SuiteRuns DEF SuitesRun
<1>1. \A p, T : T \in SUBSET Stores => /\ Suite(run, s, p, T) \in Flows
                                       /\ Suite(other, s, p, T) = Suite(run, s, p, T)
  BY <1>0 DEF SuitesRun
<1>2. /\ s \in Nodes /\ s.line = l /\ s.op \in Ops
      /\ s.op \in {"bind", "augment"} => s.name \in style.names
      /\ NamesIn(s.value) \in SUBSET style.names
  BY CodeIsListed, NamesAreNames DEF Written, Nodes
<1>3. CASE s.op = "bind"
  <2>1. \A u : Run(u, s, S) = Line(s, NamesIn(s.value), Assigned(s, S), S)
    BY <1>3 DEF Run, Exits
  <2>2. Assigned(s, S) \in SUBSET Stores
    BY <1>2, <1>3, AssignedIs
  <2>3. QED
    <3> DEFINE N == NamesIn(s.value)
               A == Assigned(s, S)
    <3>1. N \in SUBSET style.names /\ A \in SUBSET Stores /\ \A u : Run(u, s, S) = Line(s, N, A, S)
      BY <1>2, <2>1, <2>2
    <3> HIDE DEF N, A
    <3>2. Line(s, N, A, S) \in Flows
      BY <3>1, LineIs
    <3>3. QED
      BY <3>1, <3>2
<1>4. CASE s.op = "augment"
  <2>1. \A u : Run(u, s, S) = Line(s, NamesIn(s.value) \cup {s.name}, Assigned(s, S), S)
    BY <1>4 DEF Run, Exits
  <2>2. Assigned(s, S) \in SUBSET Stores
    BY <1>2, <1>4, AssignedIs
  <2>3. NamesIn(s.value) \cup {s.name} \in SUBSET style.names
    BY <1>2, <1>4
  <2>4. QED
    <3> DEFINE N == NamesIn(s.value) \cup {s.name}
               A == Assigned(s, S)
    <3>1. N \in SUBSET style.names /\ A \in SUBSET Stores /\ \A u : Run(u, s, S) = Line(s, N, A, S)
      BY <2>1, <2>2, <2>3
    <3> HIDE DEF N, A
    <3>2. Line(s, N, A, S) \in Flows
      BY <3>1, LineIs
    <3>3. QED
      BY <3>1, <3>2
<1>5. CASE s.op = "read"
  <2> DEFINE f == Line(s, NamesIn(s.value), S, S)
             G == {<<s.line, Evaluates(s, st)>> : st \in S}
  <2>1. \A u : Run(u, s, S) = [f EXCEPT !.given = G]
    BY <1>5 DEF Run, Exits
  <2>2. f \in Flows
    BY <1>2, LineIs
  <2>3. G \in SUBSET Givens
    BY <1>2, EvaluatesIs DEF Givens
  <2> HIDE DEF f, G
  <2>4. QED
    BY <2>1, <2>2, <2>3 DEF Flows
<1>6. CASE s.op \in {"raised", "returned"}
  <2>1. \A u : Run(u, s, S) = [Nowhere EXCEPT ![s.op] = S]
    BY <1>6 DEF Run, Exits
  <2>2. [Nowhere EXCEPT !.raised = S] \in Flows /\ [Nowhere EXCEPT !.returned = S] \in Flows
    BY NowhereIs DEF Flows
  <2>3. QED
    BY <1>6, <2>1, <2>2
<1>7. CASE s.op \in {"for", "while"}
  <2>1. \A u : Run(u, s, S) = RunLoop(u, s, S)
    BY <1>7 DEF Run, Exits
  <2>2. QED
    BY <1>0, <2>1, LoopRuns DEF LoopFor
<1>8. CASE s.op = "if"
  <2>1. \A u : Run(u, s, S) = Together(Suite(u, s, 1, S), Suite(u, s, 2, S))
    BY <1>8 DEF Run, Exits
  <2>2. QED
    BY <1>1, <2>1, TogetherIs
<1>9. CASE s.op = "match"
  <2> DEFINE T == Entered(s, Known(ValueOf(s, <<>>)), S)
  <2>1. \A u : Run(u, s, S) = Together(Flow(S, {}, {}), Suite(u, s, 1, T))
    BY <1>9 DEF Run, Exits, RunMatch
  <2>2. T \in SUBSET Stores
    BY EnteredIs, EvaluatesIs
  <2>3. Flow(S, {}, {}) \in Flows
    BY FlowIs
  <2> HIDE DEF T
  <2>4. QED
    BY <1>1, <2>1, <2>2, <2>3, TogetherIs
<1>10. CASE s.op = "try"
  <2>1. \A u : Run(u, s, S) = RunTry(u, s, S)
    BY <1>10 DEF Run, Exits
  <2>2. QED
    BY <1>0, <2>1, TryRuns
<1>11. QED
  BY <1>2, <1>3, <1>4, <1>5, <1>6, <1>7, <1>8, <1>9, <1>10 DEF Ops, Plain, Compound

LEMMA StepRuns ==
  ASSUME InSight, Written, NEW at \in (1 .. End) \X SUBSET Stores, NEW w, NEW v,
         \A q \in Under(at[1]) : w[q] \in Flows /\ v[q] = w[q]
  PROVE  RunStep(w, at) \in Flows /\ RunStep(v, at) = RunStep(w, at)
<1>1. CASE at[1] = End
  BY <1>1, FlowIs DEF RunStep
<1>2. CASE at[1] # End
  <2> DEFINE l == at[1]
             S == at[2]
             first(u) == Run(u, code[l], S)
             rest(u) == u[<<Following(l), first(u).next>>]
  <2>1. l \in Lines /\ S \in SUBSET Stores
    BY <1>2, CodeIsListed
  <2>2. first(w) \in Flows /\ first(v) = first(w)
    <3> HIDE DEF l, S
    <3>1. QED
      BY <2>1, StatementRuns DEF l
  <2>3. first(w).next \in SUBSET Stores
    BY <2>2, FlowHas
  <2>4. <<Following(l), first(w).next>> \in Under(l)
    <3>1. Following(l) \in 1 .. End /\ Following(l) > l /\ l \in Nat
      BY <2>1, FollowingIs, CodeIsListed
    <3>2. QED
      BY <2>3, <3>1 DEF Under
  <2>5. rest(w) \in Flows /\ rest(v) = rest(w)
    BY <2>2, <2>4
  <2>6. \A u : RunStep(u, at) = Then(first(u), rest(u))
    BY <1>2 DEF RunStep
  <2> HIDE DEF rest, first
  <2>7. RunStep(w, at) \in Flows
    BY <2>2, <2>5, <2>6, ThenIs
  <2>8. RunStep(v, at) = RunStep(w, at)
    BY <2>2, <2>5, <2>6
  <2>9. QED
    BY <2>7, <2>8
<1>3. QED
  BY <1>1, <1>2

IsRun(w, k) ==
    /\ w \in [(k .. End) \X SUBSET Stores -> Flows]
    /\ \A at \in (k .. End) \X SUBSET Stores : w[at] = RunStep(w, at)

LEMMA RunsExist ==
  ASSUME InSight, Written
  PROVE  \A k \in 1 .. End : \E w : IsRun(w, k)
<1> DEFINE G == {k \in 1 .. End : \E w : IsRun(w, k)}
<1>0. End \in Nat /\ End >= 1
  BY CodeIsListed
<1>1. ASSUME NEW k \in 1 .. End, \A j \in 1 .. End : j > k => j \in G
      PROVE  \E w : IsRun(w, k)
  <2>1. PICK v : \A at \in Under(k) : v[at] \in Flows /\ v[at] = RunStep(v, at)
    <3>1. CASE k = End
      BY <1>0, <3>1 DEF Under
    <3>2. CASE k # End
      <4>1. k + 1 \in 1 .. End /\ k + 1 > k
        BY <1>0, <3>2
      <4>2. k + 1 \in G
        BY <1>1, <4>1
      <4>3. PICK v : IsRun(v, k + 1)
        BY <4>2
      <4>4. QED
        BY <4>3 DEF IsRun, Under
    <3>3. QED
      BY <3>1, <3>2
  <2> DEFINE D == (k .. End) \X SUBSET Stores
             w == [at \in D |-> IF at[1] = k THEN RunStep(v, at) ELSE v[at]]
  <2>2. \A at \in D : at \in (1 .. End) \X SUBSET Stores /\ (at[1] = k \/ at \in Under(k))
    <3> SUFFICES ASSUME NEW at \in D
                 PROVE  at \in (1 .. End) \X SUBSET Stores /\ (at[1] = k \/ at \in Under(k))
      OBVIOUS
    <3>1. at = <<at[1], at[2]>> /\ at[1] \in k .. End /\ at[2] \in SUBSET Stores
      OBVIOUS
    <3>2. at[1] \in 1 .. End /\ (at[1] = k \/ at[1] \in (k + 1) .. End)
      BY <1>0, <3>1
    <3>3. QED
      BY <3>1, <3>2 DEF Under
  <2>3. \A at \in Under(k) : at \in D /\ at[1] # k /\ w[at] = v[at]
    <3>1. \A j \in (k + 1) .. End : j \in k .. End /\ j # k
      OBVIOUS
    <3>2. QED
      BY <3>1 DEF Under
  <2>4. \A at \in D : Under(at[1]) \subseteq Under(k)
    <3> SUFFICES ASSUME NEW at \in D, NEW q \in Under(at[1]) PROVE q \in Under(k)
      OBVIOUS
    <3>1. at[1] \in k .. End
      OBVIOUS
    <3>2. \A j \in (at[1] + 1) .. End : j \in (k + 1) .. End
      BY <3>1
    <3>3. QED
      BY <3>2 DEF Under
  <2>5. \A at \in D : RunStep(v, at) \in Flows /\ RunStep(w, at) = RunStep(v, at)
    <3> SUFFICES ASSUME NEW at \in D
                 PROVE  RunStep(v, at) \in Flows /\ RunStep(w, at) = RunStep(v, at)
      OBVIOUS
    <3> HIDE DEF w
    <3>1. at \in (1 .. End) \X SUBSET Stores /\ \A q \in Under(at[1]) : v[q] \in Flows /\ w[q] = v[q]
      BY <2>1, <2>2, <2>3, <2>4
    <3>2. QED
      BY <3>1, StepRuns
  <2>6. \A at \in D : w[at] = RunStep(w, at) /\ w[at] \in Flows
    <3> SUFFICES ASSUME NEW at \in D PROVE w[at] = RunStep(w, at) /\ w[at] \in Flows
      OBVIOUS
    <3>1. w[at] = IF at[1] = k THEN RunStep(v, at) ELSE v[at]
      OBVIOUS
    <3> HIDE DEF w
    <3>2. QED
      BY <2>1, <2>2, <2>5, <3>1
  <2>7. IsRun(w, k)
    <3>1. w \in [D -> Flows]
      <4>1. w = [at \in D |-> w[at]]
        OBVIOUS
      <4> HIDE DEF w, D
      <4>2. QED
        BY <2>6, <4>1
    <3> HIDE DEF w
    <3>2. QED
      BY <2>6, <3>1 DEF IsRun
  <2>8. QED
    BY <2>7
<1>2. \A k \in 1 .. End : (\A j \in 1 .. End : j > k => j \in G) => k \in G
  BY <1>1
<1> HIDE DEF G
<1>3. \A k \in 1 .. End : k \in G
  BY <1>0, <1>2, Upwards
<1>4. QED
  BY <1>3 DEF G

\* A line is run, then those that follow it.
LEMMA RunIs ==
  ASSUME InSight, Written, NEW at \in (1 .. End) \X SUBSET Stores
  PROVE  RunAll[at] \in Flows /\ RunAll[at] = RunStep(RunAll, at)
<1> DEFINE D == (1 .. End) \X SUBSET Stores
<1>1. 1 \in 1 .. End
  BY CodeIsListed
<1>2. PICK v : IsRun(v, 1)
  BY <1>1, RunsExist
<1>3. v \in [D -> Flows] /\ \A q \in D : v[q] = RunStep(v, q)
  BY <1>2 DEF IsRun
<1>4. v = [q \in D |-> RunStep(v, q)]
  BY <1>3
<1>5. RunAll = CHOOSE w : w = [q \in D |-> RunStep(w, q)]
  BY DEF RunAll, RunStep
<1>6. RunAll = [q \in D |-> RunStep(RunAll, q)]
  BY <1>4, <1>5
<1>7. \A q \in D : RunAll[q] = RunStep(RunAll, q)
  <2> HIDE DEF D
  <2>1. QED
    BY <1>6
<1> DEFINE Good == {k \in 1 .. End : \A a \in SUBSET Stores : RunAll[<<k, a>>] \in Flows}
<1>8. ASSUME NEW k \in 1 .. End, \A j \in 1 .. End : j > k => j \in Good PROVE k \in Good
  <2> SUFFICES ASSUME NEW a \in SUBSET Stores PROVE RunAll[<<k, a>>] \in Flows
    OBVIOUS
  <2>1. \A q \in Under(k) : RunAll[q] \in Flows
    <3> SUFFICES ASSUME NEW q \in Under(k) PROVE RunAll[q] \in Flows
      OBVIOUS
    <3>1. q = <<q[1], q[2]>> /\ q[1] \in (k + 1) .. End /\ q[2] \in SUBSET Stores
      BY DEF Under
    <3>2. q[1] \in 1 .. End /\ q[1] > k
      BY <3>1
    <3>3. QED
      BY <1>8, <3>1, <3>2
  <2>2. <<k, a>> \in D /\ <<k, a>>[1] = k
    OBVIOUS
  <2>3. RunStep(RunAll, <<k, a>>) \in Flows
    BY <2>1, <2>2, StepRuns
  <2>4. QED
    BY <1>7, <2>2, <2>3
<1> HIDE DEF Good
<1>9. End \in Nat /\ \A k \in 1 .. End : k \in Good
  BY <1>8, Upwards, CodeIsListed
<1>10. at = <<at[1], at[2]>> /\ at[1] \in 1 .. End /\ at[2] \in SUBSET Stores
  OBVIOUS
<1>11. QED
  BY <1>7, <1>9, <1>10 DEF Good

-----------------------------------------------------------------------------
(* What each statement runs to.                                            *)

SuiteOut(l, p, S) == RunAll[<<First(l, p), S>>]
RunOut(l, S) == Run(RunAll, code[l], S)
Body(l, v, S) == SuiteOut(l, 1, Entered(code[l], v, S))
Last(l, v, S) == LastTurn(RunAll, code[l], v, S)

LEMMA SuitesOut ==
  ASSUME InSight, Written, NEW l \in Lines, NEW p, NEW S \in SUBSET Stores
  PROVE  SuiteOut(l, p, S) \in Flows /\ Suite(RunAll, code[l], p, S) = SuiteOut(l, p, S)
<1>1. First(l, p) \in 1 .. End /\ code[l].line = l
  BY FirstIs, CodeIsListed DEF Written
<1>2. RunAll[<<First(l, p), S>>] \in Flows
  BY <1>1, RunIs
<1>3. QED
  BY <1>1, <1>2 DEF SuiteOut, Suite

LEMMA AllRun ==
  ASSUME InSight, Written, NEW l \in Lines
  PROVE  SuitesRun(l, RunAll, RunAll)
BY SuitesOut DEF SuitesRun

LEMMA BodyIs ==
  ASSUME InSight, Written, NEW l \in Lines, NEW v \in Holdings, NEW S \in SUBSET Stores
  PROVE  /\ Body(l, v, S) \in Flows
         /\ Body(l, v, S).next \in SUBSET Stores /\ Body(l, v, S).continued \in SUBSET Stores
         /\ Body(l, v, S).seen \in SUBSET Uses
         /\ Suite(RunAll, code[l], 1, Entered(code[l], v, S)) = Body(l, v, S)
<1>1. Entered(code[l], v, S) \in SUBSET Stores
  BY EnteredIs
<1>2. Body(l, v, S) \in Flows /\ Suite(RunAll, code[l], 1, Entered(code[l], v, S)) = Body(l, v, S)
  BY <1>1, SuitesOut DEF Body
<1>3. QED
  BY <1>2, FlowHas

\* One turn after another.
TurnTo(l, v, r, t) ==
    /\ t \in Rounds
    /\ r.over => t = r
    /\ ~r.over => /\ t.stores = r.stores \cup (Body(l, v, r.stores).next \cup Body(l, v, r.stores).continued)
                  /\ t.flow.seen = r.flow.seen \cup Body(l, v, r.stores).seen
                  /\ t.flow.broke = r.flow.broke \cup Body(l, v, r.stores).broke
                  /\ t.over = (Body(l, v, r.stores).next \cup Body(l, v, r.stores).continued \subseteq r.stores)

LEMMA TurnTurns ==
  ASSUME InSight, Written, NEW l \in Lines, NEW v \in Holdings, NEW r \in Rounds
  PROVE  TurnTo(l, v, r, Turn(RunAll, code[l], v, r))
<1> DEFINE body == Suite(RunAll, code[l], 1, Entered(code[l], v, r.stores))
           t == Turn(RunAll, code[l], v, r)
<1>1. r.stores \in SUBSET Stores /\ r.flow \in Flows
  BY RoundHas
<1>2. body \in Flows /\ body = Body(l, v, r.stores)
  BY <1>1, BodyIs
<1>3. /\ t \in Rounds
      /\ r.over => t = r
      /\ ~r.over => /\ t.stores = r.stores \cup (body.next \cup body.continued)
                    /\ t.flow = Together(r.flow, body)
                    /\ t.over = (body.next \cup body.continued \subseteq r.stores)
  BY <1>2, TurnIs
<1>4. Together(r.flow, body).seen = r.flow.seen \cup body.seen
      /\ Together(r.flow, body).broke = r.flow.broke \cup body.broke
  BY <1>1, <1>2, TogetherIs
<1> HIDE DEF t, body
<1>5. TurnTo(l, v, r, t)
  BY <1>2, <1>3, <1>4 DEF TurnTo
<1>6. QED
  BY <1>5 DEF t

LEMMA TurnsTurn ==
  ASSUME InSight, Written, NEW l \in Lines, NEW v \in Holdings, NEW S \in SUBSET Stores
  PROVE  \E t : /\ t[0] = NoTurn(S)
                /\ \A i \in 1 .. MaxTurns : TurnTo(l, v, t[i - 1], t[i])
                /\ \A i \in 0 .. MaxTurns : t[i] \in Rounds
                /\ Last(l, v, S) = t[MaxTurns]
<1>1. PICK t : /\ t[0] = NoTurn(S)
               /\ \A i \in 1 .. MaxTurns : t[i] = Turn(RunAll, code[l], v, t[i - 1])
               /\ LastTurn(RunAll, code[l], v, S) = t[MaxTurns]
  BY TurnsAre
<1> DEFINE G == {i \in 0 .. MaxTurns : t[i] \in Rounds}
<1>2. 0 \in G
  <2>1. NoTurn(S) \in Rounds
    BY NowhereIs DEF NoTurn, Rounds
  <2>2. QED
    BY <1>1, <2>1, LoopsTurn
<1>3. ASSUME NEW i \in 1 .. MaxTurns, i - 1 \in G PROVE i \in G /\ TurnTo(l, v, t[i - 1], t[i])
  <2> DEFINE r == t[i - 1]
  <2>1. r \in Rounds /\ t[i] = Turn(RunAll, code[l], v, r) /\ i \in 0 .. MaxTurns
    BY <1>1, <1>3, LoopsTurn
  <2> HIDE DEF r
  <2>2. TurnTo(l, v, r, t[i])
    BY <2>1, TurnTurns
  <2>3. QED
    BY <2>1, <2>2 DEF TurnTo, r
<1>4. \A i \in 0 .. MaxTurns : i \in G
  <2> HIDE DEF G
  <2>1. QED
    BY <1>2, <1>3, Climb, LoopsTurn
<1>5. \A i \in 1 .. MaxTurns : i - 1 \in 0 .. MaxTurns
  BY LoopsTurn
<1>6. QED
  BY <1>1, <1>3, <1>4, <1>5 DEF Last

\* What a loop keeps to when every turn of it does.
LEMMA LastKeepsTo ==
  ASSUME InSight, Written, NEW l \in Lines, NEW v \in Holdings, NEW S \in SUBSET Stores,
         NEW P, NEW U, NEW B, S \subseteq P,
         \A T \in SUBSET Stores :
            T \subseteq P => /\ Body(l, v, T).next \subseteq P /\ Body(l, v, T).continued \subseteq P
                             /\ Body(l, v, T).seen \subseteq U /\ Body(l, v, T).broke \subseteq B
  PROVE  /\ Last(l, v, S) \in Rounds
         /\ Last(l, v, S).stores \subseteq P
         /\ Last(l, v, S).flow.seen \subseteq U /\ Last(l, v, S).flow.broke \subseteq B
<1>1. PICK t : /\ t[0] = NoTurn(S)
               /\ \A i \in 1 .. MaxTurns : TurnTo(l, v, t[i - 1], t[i])
               /\ \A i \in 0 .. MaxTurns : t[i] \in Rounds
               /\ Last(l, v, S) = t[MaxTurns]
  BY TurnsTurn
<1> DEFINE G == {i \in 0 .. MaxTurns : /\ t[i].stores \subseteq P
                                       /\ t[i].flow.seen \subseteq U /\ t[i].flow.broke \subseteq B}
<1>2. 0 \in G
  BY <1>1, NowhereIs, LoopsTurn DEF NoTurn
<1>3. ASSUME NEW i \in 1 .. MaxTurns, i - 1 \in G PROVE i \in G
  <2> DEFINE r == t[i - 1]
             u == t[i]
  <2>1. /\ r \in Rounds /\ r.stores \subseteq P /\ r.flow.seen \subseteq U /\ r.flow.broke \subseteq B
        /\ TurnTo(l, v, r, u)
    BY <1>1, <1>3
  <2>2. r.stores \in SUBSET Stores
    BY <2>1, RoundHas
  <2> HIDE DEF r, u
  <2>3. /\ Body(l, v, r.stores).next \subseteq P /\ Body(l, v, r.stores).continued \subseteq P
        /\ Body(l, v, r.stores).seen \subseteq U /\ Body(l, v, r.stores).broke \subseteq B
    BY <2>1, <2>2
  <2>4. u.stores \subseteq P /\ u.flow.seen \subseteq U /\ u.flow.broke \subseteq B
    BY <2>1, <2>3 DEF TurnTo
  <2>5. i \in 0 .. MaxTurns
    BY LoopsTurn
  <2>6. QED
    BY <2>4, <2>5 DEF u
<1> HIDE DEF G
<1>4. MaxTurns \in G
  <2>1. \A i \in 0 .. MaxTurns : i \in G
    BY <1>2, <1>3, Climb, LoopsTurn
  <2>2. QED
    BY <2>1, LoopsTurn
<1>5. Last(l, v, S) \in Rounds
  BY <1>1, LoopsTurn
<1>6. QED
  BY <1>1, <1>4, <1>5 DEF G

\* What a loop has from its first turn, and from its second.
Again(l, v, S) == S \cup (Body(l, v, S).next \cup Body(l, v, S).continued)

LEMMA LastHas ==
  ASSUME InSight, Written, NEW l \in Lines, NEW v \in Holdings, NEW S \in SUBSET Stores
  PROVE  /\ Last(l, v, S) \in Rounds
         /\ S \subseteq Last(l, v, S).stores /\ Body(l, v, S).next \subseteq Last(l, v, S).stores
         /\ Body(l, v, S).seen \subseteq Last(l, v, S).flow.seen
         /\ Body(l, v, Again(l, v, S)).seen \subseteq Last(l, v, S).flow.seen
         /\ Body(l, v, Again(l, v, S)).next \subseteq Last(l, v, S).stores
<1>1. PICK t : /\ t[0] = NoTurn(S)
               /\ \A i \in 1 .. MaxTurns : TurnTo(l, v, t[i - 1], t[i])
               /\ \A i \in 0 .. MaxTurns : t[i] \in Rounds
               /\ Last(l, v, S) = t[MaxTurns]
  BY TurnsTurn
<1> DEFINE zero == t[0]
           one == t[1]
           two == t[2]
           body == Body(l, v, S)
           again == Body(l, v, Again(l, v, S))
<1>2. TurnTo(l, v, zero, one) /\ TurnTo(l, v, one, two)
  <2>1. 1 \in 1 .. MaxTurns /\ 2 \in 1 .. MaxTurns /\ 1 - 1 = 0 /\ 2 - 1 = 1
    BY LoopsTurn
  <2>2. QED
    BY <1>1, <2>1
<1>3. zero.stores = S /\ ~zero.over /\ zero.flow.seen = {}
  BY <1>1, NowhereIs DEF NoTurn
<1> HIDE DEF zero, one, two
<1>4. /\ one.stores = Again(l, v, S) /\ one.flow.seen = body.seen
      /\ one.over = (body.next \cup body.continued \subseteq S)
  BY <1>2, <1>3 DEF TurnTo, Again
<1>5. S \subseteq one.stores /\ body.next \subseteq one.stores
  BY <1>4 DEF Again
<1>6. S \subseteq two.stores /\ body.next \subseteq two.stores /\ body.seen \subseteq two.flow.seen
      /\ again.seen \subseteq two.flow.seen /\ again.next \subseteq two.stores
  <2>1. CASE one.over
    <3>1. Again(l, v, S) = S
      BY <1>4, <2>1 DEF Again
    <3>2. two = one
      BY <1>2, <2>1 DEF TurnTo
    <3>3. QED
      BY <1>4, <1>5, <3>1, <3>2
  <2>2. CASE ~one.over
    <3>1. /\ two.stores = one.stores \cup (Body(l, v, one.stores).next \cup Body(l, v, one.stores).continued)
          /\ two.flow.seen = one.flow.seen \cup Body(l, v, one.stores).seen
      BY <1>2, <2>2 DEF TurnTo
    <3>2. QED
      BY <1>4, <1>5, <3>1
  <2>3. QED
    BY <2>1, <2>2
<1> DEFINE Had(r) == /\ S \subseteq r.stores /\ body.next \subseteq r.stores
                     /\ body.seen \subseteq r.flow.seen /\ again.seen \subseteq r.flow.seen
                     /\ again.next \subseteq r.stores
           G == {i \in 0 .. MaxTurns : i < 2 \/ Had(t[i])}
<1>7. ASSUME NEW i \in 1 .. MaxTurns, i - 1 \in G PROVE i \in G
  <2>1. CASE i < 2
    BY <2>1
  <2>2. CASE i = 2
    BY <1>6, <2>2 DEF two
  <2>3. CASE i > 2
    <3> DEFINE r == t[i - 1]
               u == t[i]
    <3>1. TurnTo(l, v, r, u) /\ Had(r)
      BY <1>1, <1>7, <2>3
    <3> HIDE DEF r, u
    <3>2. Had(u)
      BY <3>1 DEF TurnTo
    <3>3. QED
      BY <3>2 DEF u
  <2>4. QED
    BY <2>1, <2>2, <2>3
<1> HIDE DEF G
<1>8. MaxTurns \in G
  <2>1. 0 \in G
    BY LoopsTurn DEF G
  <2>2. \A i \in 0 .. MaxTurns : i \in G
    BY <1>7, <2>1, Climb, LoopsTurn
  <2>3. QED
    BY <2>2, LoopsTurn
<1>9. Had(t[MaxTurns])
  BY <1>8, LoopsTurn DEF G
<1>10. QED
  BY <1>1, <1>9, LoopsTurn

Group(l, e, S) == Alike(code[l], e, S)
Turned(l, e, S) == Last(l, e, Group(l, e, S))
After(l, e, S) == SuiteOut(l, 2, Turned(l, e, S).stores)
CaseOf(l, S) == SuiteOut(l, 1, Entered(code[l], Known(ValueOf(code[l], <<>>)), S))
TryRun(l, p, S) ==
    CASE p = 1 -> SuiteOut(l, 1, S)
      [] p = 2 -> SuiteOut(l, 2, SuiteOut(l, 1, S).raised)
      [] p = 3 -> SuiteOut(l, 3, SuiteOut(l, 1, S).next)

\* What a statement runs to, by its kind.
RunFor(l, S) ==
    /\ code[l].op \in {"bind", "augment"} => RunOut(l, S).next = Assigned(code[l], S)
    /\ code[l].op = "read" => RunOut(l, S).next = S
    /\ code[l].op \in Plain =>
          /\ RunOut(l, S).seen = Supplies(l, Read(l), S) /\ RunOut(l, S).raised = S
          /\ RunOut(l, S).broke = {} /\ RunOut(l, S).continued = {}
    /\ code[l].op \in {"raised", "returned"} =>
          /\ RunOut(l, S).next = {} /\ RunOut(l, S).seen = {}
          /\ RunOut(l, S).broke = {} /\ RunOut(l, S).continued = {}
    /\ code[l].op = "if" =>
          /\ RunOut(l, S).next = SuiteOut(l, 1, S).next \cup SuiteOut(l, 2, S).next
          /\ RunOut(l, S).seen = SuiteOut(l, 1, S).seen \cup SuiteOut(l, 2, S).seen
          /\ RunOut(l, S).broke = SuiteOut(l, 1, S).broke \cup SuiteOut(l, 2, S).broke
          /\ RunOut(l, S).continued = SuiteOut(l, 1, S).continued \cup SuiteOut(l, 2, S).continued
    /\ code[l].op = "match" =>
          /\ RunOut(l, S).next = S \cup CaseOf(l, S).next
          /\ RunOut(l, S).seen = CaseOf(l, S).seen
          /\ RunOut(l, S).broke = CaseOf(l, S).broke
          /\ RunOut(l, S).continued = CaseOf(l, S).continued
    /\ code[l].op = "try" =>
          /\ RunOut(l, S).next = TryRun(l, 2, S).next \cup TryRun(l, 3, S).next
          /\ RunOut(l, S).seen = TryRun(l, 1, S).seen \cup TryRun(l, 2, S).seen \cup TryRun(l, 3, S).seen
          /\ RunOut(l, S).broke = TryRun(l, 1, S).broke \cup TryRun(l, 2, S).broke \cup TryRun(l, 3, S).broke
          /\ RunOut(l, S).continued
             = TryRun(l, 1, S).continued \cup TryRun(l, 2, S).continued \cup TryRun(l, 3, S).continued
\* The runs of a loop, one for each thing that its iterable may be.
LoopRunsTo(l, S) ==
    /\ \A st : st \in RunOut(l, S).next <=>
          \E e \in Evaluated(code[l], S) : st \in After(l, e, S).next \/ st \in Turned(l, e, S).flow.broke
    /\ \A u : u \in RunOut(l, S).seen <=>
          \/ u \in Supplies(l, Read(l), S)
          \/ \E e \in Evaluated(code[l], S) : u \in Turned(l, e, S).flow.seen \/ u \in After(l, e, S).seen
    /\ \A st : st \in RunOut(l, S).broke => \E e \in Evaluated(code[l], S) : st \in After(l, e, S).broke
    /\ \A st : st \in RunOut(l, S).continued => \E e \in Evaluated(code[l], S) : st \in After(l, e, S).continued

LEMMA RunsOut ==
  ASSUME InSight, Written, NEW l \in Lines, NEW S \in SUBSET Stores
  PROVE  RunOut(l, S) \in Flows
<1>1. ASSUME NEW at \in Under(l) PROVE RunAll[at] \in Flows
  <2>1. at = <<at[1], at[2]>> /\ at[1] \in (l + 1) .. End /\ at[2] \in SUBSET Stores /\ l \in Nat
    BY CodeIsListed DEF Under
  <2>2. at[1] \in 1 .. End
    BY <2>1
  <2>3. at \in (1 .. End) \X SUBSET Stores
    BY <2>1, <2>2
  <2>4. QED
    BY <2>3, RunIs
<1>2. QED
  BY <1>1, StatementRuns DEF RunOut

LEMMA PlainRuns ==
  ASSUME InSight, Written, NEW l \in Lines, NEW S \in SUBSET Stores, code[l].op \in Plain \cup {"raised", "returned"}
  PROVE  RunFor(l, S)
<1> DEFINE s == code[l]
           N == Read(l)
           A == IF s.op = "read" THEN S ELSE Assigned(s, S)
           f == Line(s, N, A, S)
<1>1. N \in SUBSET style.names
  BY ReadIsNames
<1>2. s.op \in {"bind", "augment"} => Assigned(s, S) \in SUBSET Stores
  BY AssignedIs DEF Written
<1>3. CASE s.op \in Plain
  <2>1. A \in SUBSET Stores
    BY <1>2, <1>3 DEF Plain
  <2> HIDE DEF A, N
  <2>2. /\ f \in Flows /\ f.next = A /\ f.raised = S /\ f.seen = Supplies(l, N, S)
        /\ f.broke = {} /\ f.continued = {}
    <3>1. N \in SUBSET style.names /\ A \in SUBSET Stores
      BY <1>1, <2>1
    <3>2. f \in Flows
      BY <3>1, LineIs
    <3>3. LineFor(f, A, Supplies(l, N, S), S)
      BY <3>1, LineIs
    <3>4. QED
      BY <3>2, <3>3 DEF LineFor
  <2>3. CASE s.op \in {"bind", "augment"}
    <3>1. RunOut(l, S) = f
      BY <2>3 DEF RunOut, Run, Exits, A, N, Read
    <3> HIDE DEF f
    <3>2. QED
      BY <2>2, <2>3, <3>1 DEF RunFor, A, N, Plain
  <2>4. CASE s.op = "read"
    <3> DEFINE G == {<<s.line, Evaluates(s, st)>> : st \in S}
    <3>1. RunOut(l, S) = [f EXCEPT !.given = G]
      BY <2>4 DEF RunOut, Run, Exits, A, N, Read
    <3> HIDE DEF f, G
    <3>2. /\ RunOut(l, S).next = f.next /\ RunOut(l, S).raised = f.raised /\ RunOut(l, S).seen = f.seen
          /\ RunOut(l, S).broke = f.broke /\ RunOut(l, S).continued = f.continued
      BY <2>2, <3>1 DEF Flows
    <3>3. QED
      BY <2>2, <2>4, <3>2 DEF RunFor, A, N, Plain
  <2>5. QED
    BY <1>3, <2>3, <2>4 DEF Plain
<1>4. CASE s.op \in {"raised", "returned"}
  <2>1. RunOut(l, S) = [Nowhere EXCEPT ![s.op] = S]
    BY <1>4 DEF RunOut, Run, Exits
  <2>2. /\ RunOut(l, S).next = {} /\ RunOut(l, S).seen = {}
        /\ RunOut(l, S).broke = {} /\ RunOut(l, S).continued = {}
    BY <1>4, <2>1 DEF Nowhere, Flow
  <2>3. QED
    BY <1>4, <2>2 DEF RunFor, Plain
<1>5. QED
  BY <1>3, <1>4

LEMMA FlowOut ==
  ASSUME NEW N \in SUBSET Stores
  PROVE  /\ Flow(N, {}, {}) \in Flows /\ Flow(N, {}, {}).next = N /\ Flow(N, {}, {}).seen = {}
         /\ Flow(N, {}, {}).broke = {} /\ Flow(N, {}, {}).continued = {}
BY DEF Flow, Flows

LEMMA BranchRuns ==
  ASSUME InSight, Written, NEW l \in Lines, NEW S \in SUBSET Stores, code[l].op \in {"if", "match"}
  PROVE  RunFor(l, S)
<1> DEFINE s == code[l]
<1>1. CASE s.op = "if"
  <2> DEFINE f == SuiteOut(l, 1, S)
             g == SuiteOut(l, 2, S)
  <2>1. f \in Flows /\ g \in Flows /\ Suite(RunAll, s, 1, S) = f /\ Suite(RunAll, s, 2, S) = g
    BY SuitesOut
  <2>2. RunOut(l, S) = Together(f, g)
    BY <1>1, <2>1 DEF RunOut, Run, Exits
  <2> HIDE DEF f, g
  <2>3. /\ RunOut(l, S).next = f.next \cup g.next /\ RunOut(l, S).seen = f.seen \cup g.seen
        /\ RunOut(l, S).broke = f.broke \cup g.broke /\ RunOut(l, S).continued = f.continued \cup g.continued
    BY <2>1, <2>2, TogetherIs
  <2>4. QED
    BY <1>1, <2>3 DEF RunFor, Plain, f, g
<1>2. CASE s.op = "match"
  <2> DEFINE T == Entered(s, Known(ValueOf(s, <<>>)), S)
             f == Flow(S, {}, {})
             g == SuiteOut(l, 1, T)
  <2>1. T \in SUBSET Stores
    BY EnteredIs, EvaluatesIs
  <2>2. g \in Flows /\ Suite(RunAll, s, 1, T) = g
    BY <2>1, SuitesOut
  <2>3. f \in Flows /\ f.next = S /\ f.seen = {} /\ f.broke = {} /\ f.continued = {}
    BY FlowOut
  <2>4. RunOut(l, S) = Together(f, g)
    BY <1>2, <2>2 DEF RunOut, Run, Exits, RunMatch
  <2>5. CaseOf(l, S) = g
    BY DEF CaseOf
  <2> HIDE DEF f, g
  <2>6. /\ RunOut(l, S).next = f.next \cup g.next /\ RunOut(l, S).seen = f.seen \cup g.seen
        /\ RunOut(l, S).broke = f.broke \cup g.broke /\ RunOut(l, S).continued = f.continued \cup g.continued
    <3>1. f \in Flows /\ g \in Flows
      BY <2>2, <2>3
    <3>2. QED
      BY <2>4, <3>1, TogetherIs
  <2>7. QED
    BY <1>2, <2>3, <2>5, <2>6 DEF RunFor, Plain
<1>3. QED
  BY <1>1, <1>2

LEMMA EndRun ==
  ASSUME InSight, Written, NEW S \in SUBSET Stores
  PROVE  RunAll[<<End, S>>] = Flow(S, {}, {})
<1>1. End \in 1 .. End
  BY CodeIsListed
<1>2. RunAll[<<End, S>>] = RunStep(RunAll, <<End, S>>)
  BY <1>1, RunIs
<1>3. QED
  BY <1>2 DEF RunStep

\* Nothing is written in a finally: it lets every way out be taken.
Left(f, N, B, C) == f.next = N /\ f.broke = B /\ f.continued = C /\ f.seen = {}

LEMMA LeavesAsItCame ==
  ASSUME NEW T
  PROVE  /\ Left(Leaving(Flow(T, {}, {}), "next"), T, {}, {})
         /\ Left(Leaving(Flow(T, {}, {}), "raised"), {}, {}, {})
         /\ Left(Leaving(Flow(T, {}, {}), "returned"), {}, {}, {})
         /\ Left(Leaving(Flow(T, {}, {}), "broke"), {}, T, {})
         /\ Left(Leaving(Flow(T, {}, {}), "continued"), {}, {}, T)
<1>1. Left(Leaving(Flow(T, {}, {}), "next"), T, {}, {})
  <2>1. Leaving(Flow(T, {}, {}), "next").next = T
    BY DEF Leaving, Flow
  <2>2. Leaving(Flow(T, {}, {}), "next").broke = {}
    BY DEF Leaving, Flow
  <2>3. Leaving(Flow(T, {}, {}), "next").continued = {}
    BY DEF Leaving, Flow
  <2>4. Leaving(Flow(T, {}, {}), "next").seen = {}
    BY DEF Leaving, Flow
  <2>5. QED
    BY <2>1, <2>2, <2>3, <2>4 DEF Left
<1>2. Left(Leaving(Flow(T, {}, {}), "raised"), {}, {}, {})
  <2>1. Leaving(Flow(T, {}, {}), "raised").next = {}
    BY DEF Leaving, Flow
  <2>2. Leaving(Flow(T, {}, {}), "raised").broke = {}
    BY DEF Leaving, Flow
  <2>3. Leaving(Flow(T, {}, {}), "raised").continued = {}
    BY DEF Leaving, Flow
  <2>4. Leaving(Flow(T, {}, {}), "raised").seen = {}
    BY DEF Leaving, Flow
  <2>5. QED
    BY <2>1, <2>2, <2>3, <2>4 DEF Left
<1>3. Left(Leaving(Flow(T, {}, {}), "returned"), {}, {}, {})
  <2>1. Leaving(Flow(T, {}, {}), "returned").next = {}
    BY DEF Leaving, Flow
  <2>2. Leaving(Flow(T, {}, {}), "returned").broke = {}
    BY DEF Leaving, Flow
  <2>3. Leaving(Flow(T, {}, {}), "returned").continued = {}
    BY DEF Leaving, Flow
  <2>4. Leaving(Flow(T, {}, {}), "returned").seen = {}
    BY DEF Leaving, Flow
  <2>5. QED
    BY <2>1, <2>2, <2>3, <2>4 DEF Left
<1>4. Left(Leaving(Flow(T, {}, {}), "broke"), {}, T, {})
  <2>1. Leaving(Flow(T, {}, {}), "broke").next = {}
    BY DEF Leaving, Flow
  <2>2. Leaving(Flow(T, {}, {}), "broke").broke = T
    BY DEF Leaving, Flow
  <2>3. Leaving(Flow(T, {}, {}), "broke").continued = {}
    BY DEF Leaving, Flow
  <2>4. Leaving(Flow(T, {}, {}), "broke").seen = {}
    BY DEF Leaving, Flow
  <2>5. QED
    BY <2>1, <2>2, <2>3, <2>4 DEF Left
<1>5. Left(Leaving(Flow(T, {}, {}), "continued"), {}, {}, T)
  <2>1. Leaving(Flow(T, {}, {}), "continued").next = {}
    BY DEF Leaving, Flow
  <2>2. Leaving(Flow(T, {}, {}), "continued").broke = {}
    BY DEF Leaving, Flow
  <2>3. Leaving(Flow(T, {}, {}), "continued").continued = T
    BY DEF Leaving, Flow
  <2>4. Leaving(Flow(T, {}, {}), "continued").seen = {}
    BY DEF Leaving, Flow
  <2>5. QED
    BY <2>1, <2>2, <2>3, <2>4 DEF Left
<1>6. QED
  BY <1>1, <1>2, <1>3, <1>4, <1>5

LEMMA FinallyOut ==
  ASSUME InSight, Written, NEW l \in Lines, code[l].op = "try", NEW all \in Flows
  PROVE  LET f == Finally(RunAll, code[l], all)
         IN f.next = all.next /\ f.seen = all.seen /\ f.broke = all.broke /\ f.continued = all.continued
<1> DEFINE s == code[l]
           Way(way) == Leaving(Suite(RunAll, s, 4, all[way]), way)
           F == {Way(way) : way \in Ways}
           f == Finally(RunAll, s, all)
<1>1. First(l, 4) = End
  BY FirstIs, CodeIsListed DEF Written
<1>2. \A way \in Ways : all[way] \in SUBSET Stores
  BY WayHas
<1>3. \A T \in SUBSET Stores : Suite(RunAll, s, 4, T) = Flow(T, {}, {})
  BY <1>1, SuitesOut, EndRun DEF SuiteOut
<1>4. /\ "next" \in Ways /\ "raised" \in Ways /\ "returned" \in Ways /\ "broke" \in Ways /\ "continued" \in Ways
      /\ \A way \in Ways : way \in {"next", "raised", "returned", "broke", "continued"}
  BY DEF Ways, Exits
<1>5. \A way \in Ways : Way(way) = Leaving(Flow(all[way], {}, {}), way)
  BY <1>2, <1>3
<1>6. /\ Left(Way("next"), all.next, {}, {}) /\ Left(Way("raised"), {}, {}, {})
      /\ Left(Way("returned"), {}, {}, {}) /\ Left(Way("broke"), {}, all.broke, {})
      /\ Left(Way("continued"), {}, {}, all.continued)
  <2> HIDE DEF Way
  <2>1. QED
    BY <1>4, <1>5, LeavesAsItCame
<1>10. F \in SUBSET Flows
  <2>1. \A T \in SUBSET Stores : Flow(T, {}, {}) \in Flows
    BY FlowOut
  <2>2. \A way \in Ways : Flow(all[way], {}, {}) \in Flows
    BY <1>2, <2>1
  <2> HIDE DEF Way
  <2>3. QED
    BY <1>5, <2>2, LeavingIs
<1>11. f = Together(Flow({}, all.seen, all.given), Either(F))
  BY DEF Finally
<1> HIDE DEF Way
<1>12. /\ UNION {g.next : g \in F} = all.next /\ UNION {g.seen : g \in F} = {}
       /\ UNION {g.broke : g \in F} = all.broke /\ UNION {g.continued : g \in F} = all.continued
  <2>1. UNION {g.next : g \in F} = all.next
    BY <1>4, <1>6 DEF Left
  <2>2. UNION {g.seen : g \in F} = {}
    BY <1>4, <1>6 DEF Left
  <2>3. UNION {g.broke : g \in F} = all.broke
    BY <1>4, <1>6 DEF Left
  <2>4. UNION {g.continued : g \in F} = all.continued
    BY <1>4, <1>6 DEF Left
  <2>5. QED
    BY <2>1, <2>2, <2>3, <2>4
<1> HIDE DEF F
<1> DEFINE g == Flow({}, all.seen, all.given)
           h == Either(F)
<1>13. /\ h \in Flows /\ h.next = all.next /\ h.seen = {} /\ h.broke = all.broke /\ h.continued = all.continued
  BY <1>10, <1>12, EitherIs
<1>14. g \in Flows /\ g.next = {} /\ g.seen = all.seen /\ g.broke = {} /\ g.continued = {}
  <2> DEFINE U == all.seen
             G == all.given
             N == {}
  <2>1. U \in SUBSET Uses /\ G \in SUBSET Givens /\ N \in SUBSET Stores
    BY FlowHas
  <2>2. N = {}
    OBVIOUS
  <2> HIDE DEF U, G, N
  <2>3. /\ Flow(N, U, G) \in Flows /\ Flow(N, U, G).next = N /\ Flow(N, U, G).seen = U
        /\ Flow(N, U, G).broke = {} /\ Flow(N, U, G).continued = {}
    BY <2>1 DEF Flow, Flows
  <2>4. QED
    BY <2>2, <2>3 DEF U, G
<1> HIDE DEF g, h, f
<1>15. /\ f.next = g.next \cup h.next /\ f.seen = g.seen \cup h.seen
       /\ f.broke = g.broke \cup h.broke /\ f.continued = g.continued \cup h.continued
  <2>1. f = Together(g, h)
    BY <1>11 DEF g, h
  <2>2. QED
    BY <1>13, <1>14, <2>1, TogetherIs
<1>16. f.next = all.next /\ f.seen = all.seen /\ f.broke = all.broke /\ f.continued = all.continued
  BY <1>13, <1>14, <1>15
<1>17. QED
  BY <1>16 DEF f

LEMMA TryRunsOut ==
  ASSUME InSight, Written, NEW l \in Lines, NEW S \in SUBSET Stores, code[l].op = "try"
  PROVE  RunFor(l, S)
<1> DEFINE s == code[l]
           body == SuiteOut(l, 1, S)
           handler == SuiteOut(l, 2, body.raised)
           orelse == SuiteOut(l, 3, body.next)
           rest == [body EXCEPT !.next = {}, !.raised = {}]
           all == Either({rest, handler, orelse})
<1>1. body \in Flows /\ Suite(RunAll, s, 1, S) = body
  BY SuitesOut
<1>2. body.raised \in SUBSET Stores /\ body.next \in SUBSET Stores
  BY <1>1, FlowHas
<1>3. handler \in Flows /\ orelse \in Flows /\ Suite(RunAll, s, 2, body.raised) = handler
      /\ Suite(RunAll, s, 3, body.next) = orelse
  BY <1>2, SuitesOut
<1>4. rest \in Flows /\ rest.next = {} /\ rest.seen = body.seen /\ rest.broke = body.broke
      /\ rest.continued = body.continued
  <2> HIDE DEF body
  <2>1. QED
    BY <1>1 DEF Flows
<1>5. RunOut(l, S) = Finally(RunAll, s, all)
  <2>1. RunOut(l, S) = RunTry(RunAll, s, S)
    BY DEF RunOut, Run, Exits
  <2>2. RunTry(RunAll, s, S) =
           LET b == Suite(RunAll, s, 1, S)
           IN Finally(RunAll, s, Either({[b EXCEPT !.next = {}, !.raised = {}], Suite(RunAll, s, 2, b.raised),
                                         Suite(RunAll, s, 3, b.next)}))
    BY DEF RunTry
  <2> HIDE DEF body, handler, orelse
  <2>3. QED
    BY <1>1, <1>3, <2>1, <2>2
<1>6. TryRun(l, 1, S) = body /\ TryRun(l, 2, S) = handler /\ TryRun(l, 3, S) = orelse
  BY DEF TryRun
<1>7. /\ all \in Flows /\ all.next = handler.next \cup orelse.next
      /\ all.seen = body.seen \cup handler.seen \cup orelse.seen
      /\ all.broke = body.broke \cup handler.broke \cup orelse.broke
      /\ all.continued = body.continued \cup handler.continued \cup orelse.continued
  <2> HIDE DEF rest, handler, orelse, body
  <2> DEFINE F == {rest, handler, orelse}
  <2>1. F \in SUBSET Flows
    BY <1>3, <1>4
  <2>2. /\ UNION {f.next : f \in F} = rest.next \cup handler.next \cup orelse.next
        /\ UNION {f.seen : f \in F} = rest.seen \cup handler.seen \cup orelse.seen
        /\ UNION {f.broke : f \in F} = rest.broke \cup handler.broke \cup orelse.broke
        /\ UNION {f.continued : f \in F} = rest.continued \cup handler.continued \cup orelse.continued
    OBVIOUS
  <2> HIDE DEF F
  <2>3. /\ Either(F) \in Flows /\ Either(F).next = UNION {f.next : f \in F}
        /\ Either(F).seen = UNION {f.seen : f \in F} /\ Either(F).broke = UNION {f.broke : f \in F}
        /\ Either(F).continued = UNION {f.continued : f \in F}
    BY <2>1, EitherIs
  <2>4. all = Either(F)
    BY DEF F
  <2> HIDE DEF all
  <2>5. QED
    BY <1>4, <2>2, <2>3, <2>4
<1> HIDE DEF all, body, handler, orelse
<1>8. /\ RunOut(l, S).next = all.next /\ RunOut(l, S).seen = all.seen /\ RunOut(l, S).broke = all.broke
      /\ RunOut(l, S).continued = all.continued
  BY <1>5, <1>7, FinallyOut
<1>9. QED
  BY <1>6, <1>7, <1>8 DEF RunFor, Plain

LEMMA LoopRunsOut ==
  ASSUME InSight, Written, NEW l \in Lines, NEW S \in SUBSET Stores, code[l].op \in {"for", "while"}
  PROVE  LoopRunsTo(l, S)
<1> DEFINE s == code[l]
           V == Evaluated(s, S)
           f == RunOut(l, S)
<1>1. f = RunLoop(RunAll, s, S)
  BY DEF RunOut, Run, Exits
<1>2. LoopFor(f, RunAll, l, S)
  BY <1>1, AllRun, LoopRuns
<1>3. NamesIn(s.value) = Read(l)
  BY DEF Read, Written, NamesIn, NoValue
<1>4. ASSUME NEW e \in V
      PROVE  TurnsFor(TurnsOf(RunAll, l, e, S), Turned(l, e, S), After(l, e, S))
  <2> DEFINE A == Alike(s, e, S)
  <2>1. A \in SUBSET Stores /\ e \in Holdings
    BY AlikeIs
  <2> HIDE DEF A
  <2>2. /\ Last(l, e, A) \in Rounds
        /\ TurnsFor(Turns(RunAll, s, e, A), Last(l, e, A), Suite(RunAll, s, 2, Last(l, e, A).stores))
    BY <2>1, AllRun, TurnsAreFlows DEF Last
  <2>3. Suite(RunAll, s, 2, Last(l, e, A).stores) = SuiteOut(l, 2, Last(l, e, A).stores)
    BY <2>2, RoundHas, SuitesOut
  <2>4. QED
    BY <2>2, <2>3 DEF TurnsOf, Turned, After, Group, A
<1> HIDE DEF V, f
<1>5. \A st : st \in f.next <=> \E e \in V : st \in After(l, e, S).next \/ st \in Turned(l, e, S).flow.broke
  BY <1>2, <1>4 DEF LoopFor, TurnsFor, V
<1>6. \A u : u \in f.seen <=>
          \/ u \in Supplies(l, Read(l), S)
          \/ \E e \in V : u \in Turned(l, e, S).flow.seen \/ u \in After(l, e, S).seen
  BY <1>2, <1>3, <1>4 DEF LoopFor, TurnsFor, V
<1>7. \A st : st \in f.broke => \E e \in V : st \in After(l, e, S).broke
  BY <1>2, <1>4 DEF LoopFor, TurnsFor, V
<1>8. \A st : st \in f.continued => \E e \in V : st \in After(l, e, S).continued
  BY <1>2, <1>4 DEF LoopFor, TurnsFor, V
<1>9. QED
  BY <1>5, <1>6, <1>7, <1>8 DEF LoopRunsTo, V, f

\* And a line with those that follow it.
LEMMA LineRun ==
  ASSUME InSight, Written, NEW l \in Lines, NEW S \in SUBSET Stores
  PROVE  /\ RunOut(l, S).next \in SUBSET Stores /\ Following(l) \in 1 .. End /\ Following(l) > l
         /\ RunAll[<<Following(l), RunOut(l, S).next>>] \in Flows
         /\ RunAll[<<l, S>>].next = RunAll[<<Following(l), RunOut(l, S).next>>].next
         /\ RunAll[<<l, S>>].seen = RunOut(l, S).seen \cup RunAll[<<Following(l), RunOut(l, S).next>>].seen
         /\ RunAll[<<l, S>>].raised = RunOut(l, S).raised \cup RunAll[<<Following(l), RunOut(l, S).next>>].raised
         /\ RunAll[<<l, S>>].broke = RunOut(l, S).broke \cup RunAll[<<Following(l), RunOut(l, S).next>>].broke
         /\ RunAll[<<l, S>>].continued
            = RunOut(l, S).continued \cup RunAll[<<Following(l), RunOut(l, S).next>>].continued
<1>1. l \in 1 .. End /\ l # End
  BY CodeIsListed
<1>2. RunAll[<<l, S>>] = RunStep(RunAll, <<l, S>>)
  BY <1>1, RunIs
<1>3. RunOut(l, S) \in Flows
  BY RunsOut
<1>4. RunOut(l, S).next \in SUBSET Stores
  BY <1>3, FlowHas
<1>5. Following(l) \in 1 .. End /\ Following(l) > l
  BY FollowingIs
<1> DEFINE f == RunOut(l, S)
           g == RunAll[<<Following(l), f.next>>]
<1>6. g \in Flows
  BY <1>4, <1>5, RunIs
<1>7. RunStep(RunAll, <<l, S>>) = Then(f, g)
  BY <1>1 DEF RunStep, RunOut
<1> HIDE DEF f, g
<1>8. /\ Then(f, g).next = g.next /\ Then(f, g).seen = f.seen \cup g.seen
      /\ Then(f, g).raised = f.raised \cup g.raised /\ Then(f, g).broke = f.broke \cup g.broke
      /\ Then(f, g).continued = f.continued \cup g.continued
  <2>1. f \in Flows
    BY <1>3 DEF f
  <2>2. QED
    BY <1>6, <2>1, ThenIs
<1>9. /\ RunAll[<<l, S>>].next = g.next /\ RunAll[<<l, S>>].seen = f.seen \cup g.seen
      /\ RunAll[<<l, S>>].raised = f.raised \cup g.raised /\ RunAll[<<l, S>>].broke = f.broke \cup g.broke
      /\ RunAll[<<l, S>>].continued = f.continued \cup g.continued
  BY <1>2, <1>7, <1>8
<1>10. QED
  BY <1>4, <1>5, <1>6, <1>9 DEF f, g

-----------------------------------------------------------------------------
(* No definition that supplies a value is missed.                          *)

Covered(S, a) == \A st \in S : a.reachable /\ \A n \in style.names : st[n].from \in a.env[n]
GoesNowhere(f) == f.next = {} /\ f.seen = {}
NoBreaks(f) == f.broke = {} /\ f.continued = {}
Follows(S, f, a, o) == Covered(S, a) => f.seen \subseteq o.seen /\ Covered(f.next, o.state)
Sound(k) ==
    \A S \in SUBSET Stores, a \in States :
       /\ Follows(S, RunAll[<<k, S>>], a, Statements[<<k, a>>])
       /\ NoBreaks(RunAll[<<k, S>>])
       /\ S = {} => GoesNowhere(RunAll[<<k, S>>])

LEMMA CoveredMerges ==
  ASSUME NEW a \in States, NEW d \in States, NEW S, Covered(S, a) \/ Covered(S, d)
  PROVE  Covered(S, Merge({a, d}))
<1> DEFINE M == Merge({a, d})
<1>1. /\ M.reachable <=> (a.reachable \/ d.reachable)
      /\ \A m \in style.names : \A b : b \in M.env[m] <=>
               \/ b \in a.env[m] /\ (a.reachable \/ ~d.reachable)
               \/ b \in d.env[m] /\ (d.reachable \/ ~a.reachable)
  BY MergeHas
<1> HIDE DEF M
<1>2. Covered(S, M)
  BY <1>1 DEF Covered
<1>3. QED
  BY <1>2 DEF M

LEMMA EnteredHas ==
  ASSUME NEW l \in Lines, NEW v \in Holdings, NEW S \in SUBSET Stores
  PROVE  \A st \in Entered(code[l], v, S) : \E before \in S : \A m \in style.names :
            st[m].from = IF m = code[l].name THEN code[l] ELSE before[m].from
<1>1. CASE code[l].name \notin style.names
  BY <1>1 DEF Entered
<1>2. CASE code[l].name \in style.names
  <2>1. code[l] \in Bindings
    BY DEF Bindings
  <2> SUFFICES ASSUME NEW st \in Entered(code[l], v, S)
               PROVE  \E before \in S : \A m \in style.names :
                         st[m].from = IF m = code[l].name THEN code[l] ELSE before[m].from
    OBVIOUS
  <2>2. PICK before \in S : st = [before EXCEPT ![code[l].name] = [from |-> code[l], holds |-> v]]
    BY <1>2 DEF Entered
  <2>3. \A m \in style.names : st[m] = IF m = code[l].name THEN [from |-> code[l], holds |-> v] ELSE before[m]
    BY <1>2, <2>1, <2>2, Bound
  <2>4. QED
    BY <2>3
<1>3. QED
  BY <1>1, <1>2

\* And of what was held before, something is held on to.
LEMMA EnteredKeeps ==
  ASSUME NEW l \in Lines, NEW v \in Holdings, NEW S \in SUBSET Stores, NEW before \in S
  PROVE  \E st \in Entered(code[l], v, S) : \A m \in style.names :
            st[m].from = IF m = code[l].name THEN code[l] ELSE before[m].from
<1>1. CASE code[l].name \notin style.names
  BY <1>1 DEF Entered
<1>2. CASE code[l].name \in style.names
  <2>1. code[l] \in Bindings
    BY DEF Bindings
  <2>0. PICK st : st = [before EXCEPT ![code[l].name] = [from |-> code[l], holds |-> v]]
    OBVIOUS
  <2>2. st \in Entered(code[l], v, S)
    BY <1>2, <2>0 DEF Entered
  <2>3. \A m \in style.names : st[m] = IF m = code[l].name THEN [from |-> code[l], holds |-> v] ELSE before[m]
    BY <1>2, <2>0, <2>1, Bound
  <2>4. QED
    BY <2>2, <2>3
<1>3. QED
  BY <1>1, <1>2

LEMMA AssignedHas ==
  ASSUME NEW l \in Lines, code[l].name \in style.names, NEW S \in SUBSET Stores
  PROVE  /\ \A st \in Assigned(code[l], S) : \E before \in S : \A m \in style.names :
               st[m].from = IF m = code[l].name THEN code[l] ELSE before[m].from
         /\ \A before \in S : \E st \in Assigned(code[l], S) : \A m \in style.names :
               st[m].from = IF m = code[l].name THEN code[l] ELSE before[m].from
<1>1. code[l] \in Bindings
  BY DEF Bindings
<1> DEFINE Made(before) == [before EXCEPT ![code[l].name] = [from |-> code[l], holds |-> Evaluates(code[l], before)]]
<1>2. \A before \in S : \A m \in style.names :
         Made(before)[m].from = IF m = code[l].name THEN code[l] ELSE before[m].from
  <2> SUFFICES ASSUME NEW before \in S, NEW m \in style.names
               PROVE  Made(before)[m].from = IF m = code[l].name THEN code[l] ELSE before[m].from
    OBVIOUS
  <2> DEFINE v == Evaluates(code[l], before)
  <2>1. v \in Holdings
    BY EvaluatesIs
  <2>2. Made(before) = [before EXCEPT ![code[l].name] = [from |-> code[l], holds |-> v]]
    OBVIOUS
  <2> HIDE DEF v, Made
  <2>3. Made(before)[m] = IF m = code[l].name THEN [from |-> code[l], holds |-> v] ELSE before[m]
    BY <1>1, <2>1, <2>2, Bound
  <2>4. QED
    BY <2>3
<1>3. Assigned(code[l], S) = {Made(before) : before \in S}
  BY DEF Assigned
<1> HIDE DEF Made
<1>4. QED
  BY <1>2, <1>3

LEMMA CoveredEnters ==
  ASSUME NEW l \in Lines, NEW v \in Holdings, NEW S \in SUBSET Stores, NEW a \in States, Covered(S, a)
  PROVE  Covered(Entered(code[l], v, S), Enter(code[l], a))
<1> DEFINE E == Enter(code[l], a)
<1>1. /\ E.reachable <=> a.reachable
      /\ \A m \in style.names : \A b : b \in E.env[m] <=> IF m = code[l].name THEN b = code[l] ELSE b \in a.env[m]
  BY EnterHas
<1> HIDE DEF E
<1>2. Covered(Entered(code[l], v, S), E)
  BY <1>1, EnteredHas DEF Covered
<1>3. QED
  BY <1>2 DEF E

LEMMA CoveredBinds ==
  ASSUME NEW l \in Lines, code[l].name \in style.names, NEW S \in SUBSET Stores, NEW a \in States, Covered(S, a)
  PROVE  Covered(Assigned(code[l], S), BindNode(code[l], a))
<1> DEFINE E == BindNode(code[l], a)
<1>1. code[l] \in Bindings
  BY DEF Bindings
<1>2. /\ E.reachable <=> a.reachable
      /\ \A m \in style.names : \A b : b \in E.env[m] <=> IF m = code[l].name THEN b = code[l] ELSE b \in a.env[m]
  BY <1>1, BindHas
<1> HIDE DEF E
<1>3. Covered(Assigned(code[l], S), E)
  <2>1. \A st \in Assigned(code[l], S) : \E before \in S : \A m \in style.names :
           st[m].from = IF m = code[l].name THEN code[l] ELSE before[m].from
    BY AssignedHas
  <2>2. QED
    BY <1>2, <2>1 DEF Covered
<1>4. QED
  BY <1>3 DEF E

LEMMA CoveredLoads ==
  ASSUME Written, NEW l \in Lines, NEW S \in SUBSET Stores, NEW a \in States
  PROVE  /\ Covered(S, a) => Supplies(l, Read(l), S) \subseteq Load(l, Read(l), a)
         /\ S = {} => Supplies(l, Read(l), S) = {}
<1>1. Read(l) \in SUBSET style.names
  BY ReadIsNames
<1>2. Supplies(l, Read(l), S) \in SUBSET Uses
  BY <1>1, SuppliesIs
<1>3. \A u \in Uses : u = <<u[1], u[2], u[3]>>
  BY DEF Uses
<1>4. \A x, m, b : <<x, m, b>> \in Supplies(l, Read(l), S) <=> x = l /\ m \in Read(l) /\ \E st \in S : st[m].from = b
  <2>1. SuppliedFrom(l, Read(l), S)
    BY <1>1, SuppliesIs
  <2>2. QED
    BY <2>1 DEF SuppliedFrom
<1>5. \A x, m, b : <<x, m, b>> \in Load(l, Read(l), a) <=> x = l /\ m \in Read(l) /\ b \in a.env[m]
  BY <1>1, LoadIs
<1>6. ASSUME Covered(S, a), NEW u \in Supplies(l, Read(l), S) PROVE u \in Load(l, Read(l), a)
  <2>1. u = <<u[1], u[2], u[3]>>
    BY <1>2, <1>3
  <2>2. u[1] = l /\ u[2] \in Read(l) /\ \E st \in S : st[u[2]].from = u[3]
    BY <1>4, <2>1
  <2>3. u[3] \in a.env[u[2]]
    BY <1>1, <1>6, <2>2 DEF Covered
  <2>4. <<u[1], u[2], u[3]>> \in Load(l, Read(l), a)
    BY <1>5, <2>2, <2>3
  <2>5. QED
    BY <2>1, <2>4
<1>7. ASSUME S = {}, NEW u \in Supplies(l, Read(l), S) PROVE FALSE
  BY <1>2, <1>3, <1>4, <1>7
<1>8. QED
  BY <1>6, <1>7

StatementSound(l, S, a) ==
    /\ Follows(S, RunOut(l, S), a, Out(l, a))
    /\ NoBreaks(RunOut(l, S))
    /\ S = {} => GoesNowhere(RunOut(l, S))

LEMMA PartsSound ==
  ASSUME Written, NEW l \in Lines, \A k \in 1 .. End : k > l => Sound(k), NEW p, NEW S \in SUBSET Stores
  PROVE  /\ NoBreaks(SuiteOut(l, p, S))
         /\ S = {} => GoesNowhere(SuiteOut(l, p, S))
         /\ \A a \in States : Follows(S, SuiteOut(l, p, S), a, PartOut(l, p, a))
<1>1. First(l, p) \in 1 .. End /\ First(l, p) > l
  BY FirstIs, CodeIsListed
<1>2. Sound(First(l, p))
  BY <1>1
<1>3. \E a : a \in States
  <2>1. State([n \in style.names |-> {}], TRUE) \in States
    BY StateIs
  <2>2. QED
    BY <2>1
<1>4. QED
  BY <1>2, <1>3 DEF Sound, SuiteOut, PartOut

LEMMA PlainSound ==
  ASSUME InSight, Written, NEW l \in Lines, NEW S \in SUBSET Stores, NEW a \in States,
         code[l].op \in Plain \cup {"raised", "returned"}
  PROVE  StatementSound(l, S, a)
<1>1. RunFor(l, S) /\ OutFor(l, a)
  BY PlainRuns, OutIs
<1>2. Covered(S, a) => Supplies(l, Read(l), S) \subseteq Load(l, Read(l), a)
  BY CoveredLoads
<1>3. S = {} => Supplies(l, Read(l), S) = {}
  BY CoveredLoads
<1>4. CASE code[l].op \in {"bind", "augment"}
  <2>1. code[l].name \in style.names
    BY <1>4 DEF Written
  <2>2. Covered(S, a) => Covered(Assigned(code[l], S), BindNode(code[l], a))
    BY <2>1, CoveredBinds
  <2>3. S = {} => Assigned(code[l], S) = {}
    BY <2>1, AssignedIs
  <2>4. /\ RunOut(l, S).next = Assigned(code[l], S) /\ RunOut(l, S).seen = Supplies(l, Read(l), S)
        /\ RunOut(l, S).broke = {} /\ RunOut(l, S).continued = {}
        /\ Out(l, a).state = BindNode(code[l], a) /\ Out(l, a).seen = Load(l, Read(l), a)
    BY <1>1, <1>4 DEF RunFor, OutFor, Plain
  <2>5. QED
    BY <1>2, <1>3, <2>2, <2>3, <2>4 DEF StatementSound, Follows, NoBreaks, GoesNowhere
<1>5. CASE code[l].op = "read"
  <2>1. /\ RunOut(l, S).next = S /\ RunOut(l, S).seen = Supplies(l, Read(l), S)
        /\ RunOut(l, S).broke = {} /\ RunOut(l, S).continued = {}
        /\ Out(l, a).state = a /\ Out(l, a).seen = Load(l, Read(l), a)
    BY <1>1, <1>5 DEF RunFor, OutFor, Plain
  <2>2. QED
    BY <1>2, <1>3, <2>1 DEF StatementSound, Follows, NoBreaks, GoesNowhere
<1>6. CASE code[l].op \in {"raised", "returned"}
  <2>1. /\ RunOut(l, S).next = {} /\ RunOut(l, S).seen = {}
        /\ RunOut(l, S).broke = {} /\ RunOut(l, S).continued = {}
    BY <1>1, <1>6 DEF RunFor
  <2>2. QED
    BY <2>1 DEF StatementSound, Follows, NoBreaks, GoesNowhere, Covered
<1>7. QED
  BY <1>4, <1>5, <1>6 DEF Plain

LEMMA BranchSound ==
  ASSUME InSight, Written, NEW l \in Lines, \A k \in 1 .. End : k > l => Sound(k),
         NEW S \in SUBSET Stores, NEW a \in States, code[l].op \in {"if", "match"}
  PROVE  StatementSound(l, S, a)
<1>1. RunFor(l, S) /\ OutFor(l, a)
  BY BranchRuns, OutIs
<1>2. CASE code[l].op = "if"
  <2> DEFINE f == SuiteOut(l, 1, S)
             g == SuiteOut(l, 2, S)
             o == PartOut(l, 1, a)
             q == PartOut(l, 2, a)
  <2>1. NoBreaks(f) /\ NoBreaks(g) /\ (S = {} => GoesNowhere(f) /\ GoesNowhere(g))
        /\ Follows(S, f, a, o) /\ Follows(S, g, a, q)
    BY PartsSound
  <2>2. o.state \in States /\ q.state \in States
    BY PartsOut
  <2>3. /\ RunOut(l, S).next = f.next \cup g.next /\ RunOut(l, S).seen = f.seen \cup g.seen
        /\ RunOut(l, S).broke = f.broke \cup g.broke /\ RunOut(l, S).continued = f.continued \cup g.continued
        /\ Out(l, a).state = Merge({o.state, q.state}) /\ Out(l, a).seen = o.seen \cup q.seen
    BY <1>1, <1>2 DEF RunFor, OutFor
  <2> HIDE DEF f, g, o, q
  <2>4. ASSUME Covered(S, a) PROVE Covered(f.next \cup g.next, Merge({o.state, q.state}))
    <3>1. Covered(f.next, Merge({o.state, q.state})) /\ Covered(g.next, Merge({o.state, q.state}))
      BY <2>1, <2>2, <2>4, CoveredMerges DEF Follows
    <3>2. QED
      BY <3>1 DEF Covered
  <2>5. QED
    BY <2>1, <2>3, <2>4 DEF StatementSound, Follows, NoBreaks, GoesNowhere
<1>3. CASE code[l].op = "match"
  <2> DEFINE T == Entered(code[l], Known(ValueOf(code[l], <<>>)), S)
             e == Enter(code[l], a)
             f == CaseOf(l, S)
             o == FirstTurn(l, a)
  <2>1. T \in SUBSET Stores /\ (S = {} => T = {}) /\ e \in States
    BY EnteredIs, EvaluatesIs, EnterIs
  <2>2. Covered(S, a) => Covered(T, e)
    BY CoveredEnters, EvaluatesIs
  <2>3. f = SuiteOut(l, 1, T) /\ o = PartOut(l, 1, e)
    BY DEF CaseOf, FirstTurn
  <2> HIDE DEF T, e, f, o
  <2>4. NoBreaks(f) /\ (T = {} => GoesNowhere(f)) /\ Follows(T, f, e, o)
    BY <2>1, <2>3, PartsSound
  <2>5. /\ RunOut(l, S).next = S \cup f.next /\ RunOut(l, S).seen = f.seen
        /\ RunOut(l, S).broke = f.broke /\ RunOut(l, S).continued = f.continued
        /\ Out(l, a).state = Merge({a, o.state}) /\ Out(l, a).seen = o.seen
    BY <1>1, <1>3 DEF RunFor, OutFor, f, o
  <2>6. o.state \in States
    BY StatesOut DEF o
  <2>7. ASSUME Covered(S, a) PROVE Covered(S \cup f.next, Merge({a, o.state}))
    <3>1. Covered(S, Merge({a, o.state})) /\ Covered(f.next, Merge({a, o.state}))
      BY <2>2, <2>4, <2>6, <2>7, CoveredMerges DEF Follows
    <3>2. QED
      BY <3>1 DEF Covered
  <2>8. QED
    BY <2>1, <2>2, <2>4, <2>5, <2>7 DEF StatementSound, Follows, NoBreaks, GoesNowhere
<1>4. QED
  BY <1>2, <1>3

LEMMA CoveredParts ==
  ASSUME NEW S, NEW T, NEW a, Covered(S, a)
  PROVE  /\ T \subseteq S => Covered(T, a)
         /\ Covered(T, a) => Covered(S \cup T, a)
BY DEF Covered

LEMMA GroupHas ==
  ASSUME NEW l \in Lines, NEW S \in SUBSET Stores, NEW e \in Evaluated(code[l], S)
  PROVE  Group(l, e, S) \in SUBSET Stores /\ Group(l, e, S) \subseteq S /\ Group(l, e, S) # {} /\ S # {} /\ e \in Holdings
<1>1. Group(l, e, S) \in SUBSET Stores /\ Group(l, e, S) \subseteq S /\ Group(l, e, S) # {} /\ e \in Holdings
  BY AlikeIs DEF Group
<1>2. QED
  BY <1>1

\* One group's turns, after those that were walked twice.
LEMMA TurnsSound ==
  ASSUME InSight, Written, NEW l \in Lines, \A k \in 1 .. End : k > l => Sound(k),
         NEW S \in SUBSET Stores, NEW a \in States, Covered(S, a), NEW e \in Evaluated(code[l], S)
  PROVE  /\ Turned(l, e, S) \in Rounds
         /\ Covered(Turned(l, e, S).stores, Merge({a, SecondTurn(l, a).state}))
         /\ Turned(l, e, S).flow.seen \subseteq SecondTurn(l, a).seen
         /\ Turned(l, e, S).flow.broke = {}
<1> DEFINE G == Group(l, e, S)
           d == SecondTurn(l, a).state
           M == Merge({a, FirstTurn(l, a).state})
           N == Merge({a, d})
           P == {st \in Stores : Covered({st}, M) /\ Covered({st}, N)}
           U == SecondTurn(l, a).seen
           B == {}
<1>1. G \in SUBSET Stores /\ G \subseteq S /\ S # {} /\ e \in Holdings
  BY GroupHas
<1>2. a.reachable
  BY <1>1 DEF Covered
<1>3. /\ d \in States /\ M \in States /\ N \in States /\ Enter(code[l], M) \in States
      /\ FirstTurn(l, a).state \in States
  BY StatesOut
<1>4. SecondTurn(l, a) = PartOut(l, 1, Enter(code[l], M))
  BY DEF SecondTurn
<1>5. \A m \in style.names : d.env[m] \subseteq M.env[m] \/ ~d.reachable
  BY <1>2, TurnsAdd
<1>6. M.reachable
  BY <1>2, <1>3, MergeHas
<1>7. Covered(G, M) /\ Covered(G, N)
  <2>1. Covered(G, a)
    BY <1>1, CoveredParts
  <2>2. QED
    BY <1>3, <2>1, CoveredMerges
<1>8. \A T \in SUBSET Stores : T \subseteq P <=> Covered(T, M) /\ Covered(T, N)
  <2> HIDE DEF M, N
  <2>1. QED
    BY DEF Covered
<1>9. ASSUME NEW T \in SUBSET Stores, T \subseteq P
      PROVE  /\ Body(l, e, T).next \subseteq P /\ Body(l, e, T).continued \subseteq P
             /\ Body(l, e, T).seen \subseteq U /\ Body(l, e, T).broke \subseteq B
  <2> DEFINE D == Entered(code[l], e, T)
             f == Body(l, e, T)
             E == Enter(code[l], M)
  <2> HIDE DEF P, M, N
  <2>1. D \in SUBSET Stores /\ Covered(D, E)
    BY <1>1, <1>3, <1>8, <1>9, EnteredIs, CoveredEnters
  <2>2. f \in Flows /\ f.next \in SUBSET Stores
    BY <1>1, BodyIs
  <2>3. f = SuiteOut(l, 1, D)
    BY DEF Body
  <2> HIDE DEF D, E, f, d
  <2>4. NoBreaks(f) /\ Follows(D, f, E, SecondTurn(l, a))
    BY <1>3, <1>4, <2>1, <2>3, PartsSound DEF E
  <2>5. f.seen \subseteq U /\ Covered(f.next, d) /\ f.broke = {} /\ f.continued = {}
    BY <2>1, <2>4 DEF Follows, NoBreaks, d
  <2>6. Covered(f.next, N)
    BY <1>3, <2>5, CoveredMerges DEF N
  <2>7. Covered(f.next, M)
    BY <1>5, <1>6, <2>5 DEF Covered
  <2>8. f.next \subseteq P
    BY <1>8, <2>2, <2>6, <2>7
  <2>9. QED
    BY <2>5, <2>8 DEF f
<1>10. G \subseteq P
  BY <1>1, <1>7, <1>8
<1>11. /\ Last(l, e, G) \in Rounds /\ Last(l, e, G).stores \subseteq P
       /\ Last(l, e, G).flow.seen \subseteq U /\ Last(l, e, G).flow.broke \subseteq B
  <2> HIDE DEF P, G, U, B
  <2>1. QED
    BY <1>1, <1>9, <1>10, LastKeepsTo
<1>12. Last(l, e, G).stores \in SUBSET Stores
  BY <1>11, RoundHas
<1>13. Covered(Last(l, e, G).stores, N)
  BY <1>8, <1>11, <1>12
<1>14. QED
  BY <1>11, <1>13 DEF Turned

LEMMA TurnedIs ==
  ASSUME InSight, Written, NEW l \in Lines, NEW S \in SUBSET Stores, NEW e \in Evaluated(code[l], S)
  PROVE  Turned(l, e, S) \in Rounds /\ Turned(l, e, S).stores \in SUBSET Stores
<1> DEFINE G == Group(l, e, S)
<1>1. G \in SUBSET Stores /\ e \in Holdings
  BY GroupHas
<1> HIDE DEF G
<1>2. Last(l, e, G) \in Rounds
  BY <1>1, LastHas
<1>3. Turned(l, e, S) \in Rounds
  BY <1>2 DEF Turned, G
<1>4. QED
  BY <1>3, RoundHas

LEMMA LoopSound ==
  ASSUME InSight, Written, NEW l \in Lines, \A k \in 1 .. End : k > l => Sound(k),
         NEW S \in SUBSET Stores, NEW a \in States, code[l].op \in {"for", "while"}
  PROVE  StatementSound(l, S, a)
<1>1. LoopRunsTo(l, S) /\ OutFor(l, a)
  BY LoopRunsOut, OutIs
<1> DEFINE f == RunOut(l, S)
           V == Evaluated(code[l], S)
           N == Merge({a, SecondTurn(l, a).state})
<1>2. /\ Out(l, a).state = AfterTurns(l, a).state
      /\ Out(l, a).seen = Load(l, Read(l), a) \cup (FirstTurn(l, a).seen \cup SecondTurn(l, a).seen)
                          \cup AfterTurns(l, a).seen
  BY <1>1 DEF OutFor
<1>3. /\ \A st : st \in f.next <=>
            \E e \in V : st \in After(l, e, S).next \/ st \in Turned(l, e, S).flow.broke
      /\ \A u : u \in f.seen <=>
            \/ u \in Supplies(l, Read(l), S)
            \/ \E e \in V : u \in Turned(l, e, S).flow.seen \/ u \in After(l, e, S).seen
      /\ \A st : st \in f.broke => \E e \in V : st \in After(l, e, S).broke
      /\ \A st : st \in f.continued => \E e \in V : st \in After(l, e, S).continued
  BY <1>1 DEF LoopRunsTo
<1>4. \A e \in V : NoBreaks(After(l, e, S))
  <2> SUFFICES ASSUME NEW e \in V PROVE NoBreaks(After(l, e, S))
    OBVIOUS
  <2>1. Turned(l, e, S).stores \in SUBSET Stores
    BY TurnedIs
  <2>2. QED
    BY <2>1, PartsSound DEF After
<1>5. S = {} => V = {}
  BY DEF Evaluated
<1>6. N \in States /\ AfterTurns(l, a) = PartOut(l, 2, N)
  BY StatesOut DEF AfterTurns
<1>7. ASSUME Covered(S, a), NEW e \in V
      PROVE  /\ Covered(After(l, e, S).next, AfterTurns(l, a).state) /\ Turned(l, e, S).flow.broke = {}
             /\ Turned(l, e, S).flow.seen \subseteq SecondTurn(l, a).seen
             /\ After(l, e, S).seen \subseteq AfterTurns(l, a).seen
  <2>1. /\ Covered(Turned(l, e, S).stores, N) /\ Turned(l, e, S).flow.broke = {}
        /\ Turned(l, e, S).flow.seen \subseteq SecondTurn(l, a).seen
    BY <1>7, TurnsSound
  <2>2. Turned(l, e, S).stores \in SUBSET Stores
    BY TurnedIs
  <2> HIDE DEF N
  <2>3. Follows(Turned(l, e, S).stores, After(l, e, S), N, AfterTurns(l, a))
    BY <1>6, <2>2, PartsSound DEF After
  <2>4. QED
    BY <2>1, <2>3 DEF Follows
<1>8. Covered(S, a) => Supplies(l, Read(l), S) \subseteq Load(l, Read(l), a)
  BY CoveredLoads
<1>9. S = {} => Supplies(l, Read(l), S) = {}
  BY CoveredLoads
<1> HIDE DEF f, V, N
<1>10. NoBreaks(f)
  BY <1>3, <1>4 DEF NoBreaks
<1>11. S = {} => GoesNowhere(f)
  BY <1>3, <1>5, <1>9 DEF GoesNowhere
<1>12. ASSUME Covered(S, a) PROVE f.seen \subseteq Out(l, a).seen /\ Covered(f.next, Out(l, a).state)
  <2>1. f.seen \subseteq Out(l, a).seen
    BY <1>2, <1>3, <1>7, <1>8, <1>12
  <2>2. \A st \in f.next : \E e \in V : st \in After(l, e, S).next
    BY <1>3, <1>7, <1>12
  <2>3. \A e \in V : Covered(After(l, e, S).next, AfterTurns(l, a).state)
    BY <1>7, <1>12
  <2>4. Covered(f.next, AfterTurns(l, a).state)
    BY <2>2, <2>3 DEF Covered
  <2>5. QED
    BY <1>2, <2>1, <2>4
<1>13. QED
  BY <1>10, <1>11, <1>12 DEF StatementSound, Follows, f

\* A try's body does one thing, and raises what it was given.
LEMMA TryBodyRaises ==
  ASSUME InSight, Written, NEW l \in Lines, NEW S \in SUBSET Stores, code[l].op = "try"
  PROVE  SuiteOut(l, 1, S).raised \subseteq S
<1> DEFINE k == First(l, 1)
<1>1. k \in 1 .. End /\ (k # End => k \in Lines /\ code[k].block = l /\ code[k].part = 1)
  BY FirstIs, CodeIsListed
<1>2. CASE k = End
  <2>1. SuiteOut(l, 1, S) = Flow(S, {}, {})
    BY <1>2, EndRun DEF SuiteOut
  <2>2. QED
    BY <2>1 DEF Flow
<1>3. CASE k # End
  <2>1. k \in Lines /\ code[k].block = l /\ code[k].part = 1 /\ code[k].op \in Plain
    BY <1>1, <1>3 DEF Written
  <2>2. Following(k) = End
    <3>1. /\ Following(k) \in 1 .. End /\ Following(k) > k
          /\ Following(k) # End => /\ Following(k) \in Lines /\ code[Following(k)].block = code[k].block
                                   /\ code[Following(k)].part = code[k].part
      BY <2>1, FollowingIs
    <3>2. ASSUME Following(k) # End PROVE FALSE
      <4>1. Following(k) = k
        BY <2>1, <3>1, <3>2 DEF Written
      <4>2. k \in Nat
        BY <2>1, CodeIsListed
      <4>3. QED
        BY <3>1, <4>1, <4>2
    <3>3. QED
      BY <3>2
  <2> HIDE DEF k
  <2>3. RunFor(k, S)
    BY <2>1, PlainRuns
  <2>4. RunOut(k, S).raised = S
    BY <2>1, <2>3 DEF RunFor
  <2>5. RunOut(k, S).next \in SUBSET Stores
        /\ RunAll[<<k, S>>].raised = RunOut(k, S).raised \cup RunAll[<<Following(k), RunOut(k, S).next>>].raised
    BY <2>1, LineRun
  <2>6. RunAll[<<End, RunOut(k, S).next>>] = Flow(RunOut(k, S).next, {}, {})
    BY <2>5, EndRun
  <2>7. RunAll[<<Following(k), RunOut(k, S).next>>].raised = {}
    BY <2>2, <2>6 DEF Flow
  <2>8. QED
    BY <2>4, <2>5, <2>7 DEF SuiteOut, k
<1>4. QED
  BY <1>2, <1>3

LEMMA TrySound ==
  ASSUME InSight, Written, NEW l \in Lines, \A k \in 1 .. End : k > l => Sound(k),
         NEW S \in SUBSET Stores, NEW a \in States, code[l].op = "try"
  PROVE  StatementSound(l, S, a)
<1>1. RunFor(l, S) /\ OutFor(l, a)
  BY TryRunsOut, OutIs
<1> DEFINE body == SuiteOut(l, 1, S)
           handler == SuiteOut(l, 2, body.raised)
           orelse == SuiteOut(l, 3, body.next)
           f == RunOut(l, S)
           tried == TryBody(l, a)
           begun == Merge({a, tried.state})
           handled == TryHandler(l, a)
           passed == TryElse(l, a)
           end == Merge({passed.state, handled.state})
<1>2. body \in Flows /\ body.raised \in SUBSET Stores /\ body.next \in SUBSET Stores /\ body.raised \subseteq S
  <2>1. body \in Flows
    BY SuitesOut
  <2>2. QED
    BY <2>1, FlowHas, TryBodyRaises
<1>3. TryRun(l, 1, S) = body /\ TryRun(l, 2, S) = handler /\ TryRun(l, 3, S) = orelse
  BY DEF TryRun
<1>4. /\ f.next = handler.next \cup orelse.next
      /\ f.seen = body.seen \cup handler.seen \cup orelse.seen
      /\ f.broke = body.broke \cup handler.broke \cup orelse.broke
      /\ f.continued = body.continued \cup handler.continued \cup orelse.continued
  BY <1>1, <1>3 DEF RunFor
<1>5. /\ begun \in States /\ tried.state \in States /\ handled.state \in States /\ passed.state \in States
      /\ end \in States
  BY StatesOut
<1>6. /\ Out(l, a).state = TryFinal(l, a).state
      /\ Out(l, a).seen = tried.seen \cup handled.seen \cup passed.seen \cup TryFinal(l, a).seen
  BY <1>1 DEF OutFor
<1>7. TryFinal(l, a).state = end
  <2>1. First(l, 4) = End
    BY FirstIs, CodeIsListed DEF Written
  <2>2. TryFinal(l, a) = Statements[<<End, end>>]
    BY <2>1 DEF TryFinal, PartOut
  <2> HIDE DEF end
  <2>3. QED
    BY <1>5, <2>2, EndOut
<1>8. tried = PartOut(l, 1, a) /\ handled = PartOut(l, 2, begun) /\ passed = PartOut(l, 3, tried.state)
  BY DEF TryBody, TryHandler, TryElse
<1> HIDE DEF body, tried
<1>9. NoBreaks(body) /\ (S = {} => GoesNowhere(body)) /\ Follows(S, body, a, tried)
  BY <1>8, PartsSound DEF body
<1> HIDE DEF begun
<1>10. NoBreaks(handler) /\ (body.raised = {} => GoesNowhere(handler)) /\ Follows(body.raised, handler, begun, handled)
  BY <1>2, <1>5, <1>8, PartsSound
<1>11. NoBreaks(orelse) /\ (body.next = {} => GoesNowhere(orelse)) /\ Follows(body.next, orelse, tried.state, passed)
  BY <1>2, <1>5, <1>8, PartsSound
<1> HIDE DEF handler, orelse, handled, passed, f
<1>12. ASSUME Covered(S, a)
       PROVE  f.seen \subseteq Out(l, a).seen /\ Covered(f.next, end)
  <2>1. body.seen \subseteq tried.seen /\ Covered(body.next, tried.state)
    BY <1>9, <1>12 DEF Follows
  <2>2. Covered(body.raised, begun)
    <3>1. Covered(body.raised, a)
      BY <1>2, <1>12, CoveredParts
    <3>2. QED
      BY <1>5, <3>1, CoveredMerges DEF begun
  <2>3. handler.seen \subseteq handled.seen /\ Covered(handler.next, handled.state)
    BY <1>10, <2>2 DEF Follows
  <2>4. orelse.seen \subseteq passed.seen /\ Covered(orelse.next, passed.state)
    BY <1>11, <2>1 DEF Follows
  <2>5. Covered(handler.next, end) /\ Covered(orelse.next, end)
    BY <1>5, <2>3, <2>4, CoveredMerges
  <2> HIDE DEF end
  <2>6. Covered(f.next, end)
    BY <1>4, <2>5, CoveredParts
  <2>7. QED
    BY <1>4, <1>6, <2>1, <2>3, <2>4, <2>6
<1>13. NoBreaks(f)
  BY <1>4, <1>9, <1>10, <1>11 DEF NoBreaks
<1>14. S = {} => GoesNowhere(f)
  BY <1>2, <1>4, <1>9, <1>10, <1>11 DEF GoesNowhere
<1> HIDE DEF end
<1>15. QED
  BY <1>6, <1>7, <1>12, <1>13, <1>14 DEF StatementSound, Follows, f

LEMMA AllSound ==
  ASSUME InSight, Written
  PROVE  \A k \in 1 .. End : Sound(k)
<1> DEFINE G == {k \in 1 .. End : Sound(k)}
<1>1. ASSUME NEW k \in 1 .. End, \A j \in 1 .. End : j > k => j \in G PROVE Sound(k)
  <2> SUFFICES ASSUME NEW S \in SUBSET Stores, NEW a \in States
               PROVE  /\ Follows(S, RunAll[<<k, S>>], a, Statements[<<k, a>>])
                      /\ NoBreaks(RunAll[<<k, S>>])
                      /\ S = {} => GoesNowhere(RunAll[<<k, S>>])
    BY DEF Sound
  <2>1. CASE k = End
    <3>1. RunAll[<<k, S>>] = Flow(S, {}, {})
      BY <2>1, EndRun
    <3>2. /\ Flow(S, {}, {}).next = S /\ Flow(S, {}, {}).seen = {}
          /\ Flow(S, {}, {}).broke = {} /\ Flow(S, {}, {}).continued = {}
      BY FlowOut
    <3>3. Statements[<<k, a>>].state = a
      BY <2>1, EndOut
    <3>4. QED
      BY <3>1, <3>2, <3>3 DEF Follows, NoBreaks, GoesNowhere
  <2>2. CASE k # End
    <3>1. k \in Lines /\ \A j \in 1 .. End : j > k => Sound(j)
      BY <1>1, <2>2, CodeIsListed
    <3>2. StatementSound(k, S, a)
      <4>1. code[k].op \in Ops
        BY <3>1, CodeIsListed DEF Nodes
      <4>2. QED
        BY <3>1, <4>1, PlainSound, BranchSound, LoopSound, TrySound DEF Ops, Plain, Compound
    <3> DEFINE f == RunOut(k, S)
               o == Out(k, a)
               T == f.next
               d == o.state
               j == Following(k)
               g == RunAll[<<j, T>>]
               q == Statements[<<j, d>>]
    <3>3. T \in SUBSET Stores /\ j \in 1 .. End /\ j > k /\ d \in States
      BY <3>1, LineRun, LineOut
    <3>4. /\ RunAll[<<k, S>>].next = g.next /\ RunAll[<<k, S>>].seen = f.seen \cup g.seen
          /\ RunAll[<<k, S>>].broke = f.broke \cup g.broke
          /\ RunAll[<<k, S>>].continued = f.continued \cup g.continued
      BY <3>1, LineRun
    <3>5. Statements[<<k, a>>].state = q.state /\ Statements[<<k, a>>].seen = o.seen \cup q.seen
      BY <3>1, LineOut
    <3>6. Follows(T, g, d, q) /\ NoBreaks(g) /\ (T = {} => GoesNowhere(g))
      <4> HIDE DEF T, d, j
      <4>1. QED
        BY <3>1, <3>3 DEF Sound
    <3> HIDE DEF g, q, j
    <3>7. QED
      BY <3>2, <3>4, <3>5, <3>6 DEF StatementSound, Follows, NoBreaks, GoesNowhere
  <2>3. QED
    BY <2>1, <2>2
<1> HIDE DEF G
<1>2. \A k \in 1 .. End : k \in G
  <2>1. \A k \in 1 .. End : (\A j \in 1 .. End : j > k => j \in G) => k \in G
    BY <1>1 DEF G
  <2>2. End \in Nat
    BY CodeIsListed
  <2>3. QED
    BY <2>1, <2>2, Upwards
<1>3. QED
  BY <1>2 DEF G

LEMMA StatementsSound ==
  ASSUME InSight, Written, NEW l \in Lines, NEW S \in SUBSET Stores, NEW a \in States
  PROVE  StatementSound(l, S, a)
<1>1. \A k \in 1 .. End : k > l => Sound(k)
  BY AllSound
<1>2. code[l].op \in Ops
  BY CodeIsListed DEF Nodes
<1>3. QED
  BY <1>1, <1>2, PlainSound, BranchSound, LoopSound, TrySound DEF Ops, Plain, Compound

\* Where the analysis is past a statement that stops, Python is too.
LEMMA NothingComes ==
  ASSUME InSight, Written, NEW l \in Lines, NEW S \in SUBSET Stores, NEW a \in States, a.reachable,
         ~Out(l, a).state.reachable, style.names # {}
  PROVE  RunOut(l, S).next = {}
<1> DEFINE env == [n \in style.names |-> Bindings]
           c == State(env, TRUE)
<1>1. c \in States /\ c.env = env /\ c.reachable
  <2>1. env \in [style.names -> SUBSET Bindings]
    OBVIOUS
  <2> HIDE DEF env
  <2>2. QED
    BY <2>1, StateIs
<1>2. Covered(S, c)
  <2>1. \A st \in S : \A n \in style.names : st[n].from \in Bindings
    BY StoreHas
  <2>2. \A n \in style.names : c.env[n] = Bindings
    BY <1>1
  <2> HIDE DEF c
  <2>3. QED
    BY <1>1, <2>1, <2>2 DEF Covered
<1>3. PICK m \in style.names : TRUE
  OBVIOUS
<1>4. code[l] \in Bindings
  BY DEF Bindings
<1>5. Carried(a, c, m, code[l])
  <2>1. code[l] \in c.env[m]
    BY <1>1, <1>4
  <2> HIDE DEF c
  <2>2. QED
    BY <1>1, <2>1 DEF Carried
<1> HIDE DEF c
<1>6. \A k \in 1 .. End : k > l => Separate(k)
  BY AllSeparate
<1>7. Alone(Out(l, a), Out(l, c), m, code[l])
  BY <1>1, <1>3, <1>4, <1>5, <1>6, StatementCarries
<1>8. ~Out(l, c).state.reachable
  BY <1>7 DEF Alone, Carried
<1>9. StatementSound(l, S, c)
  BY <1>1, StatementsSound
<1>10. Covered(RunOut(l, S).next, Out(l, c).state)
  BY <1>2, <1>9 DEF StatementSound, Follows
<1>11. QED
  BY <1>8, <1>10 DEF Covered

-----------------------------------------------------------------------------
(* Where the uses are that a line sees.                                    *)

NoTry == \A l \in Lines : code[l].op # "try"

Lies(k) ==
    /\ \A a \in States, u \in Uses : u \in Statements[<<k, a>>].seen => k \in Lines /\ Along(k, u[1])
    /\ \A S \in SUBSET Stores, u \in Uses : u \in RunAll[<<k, S>>].seen => k \in Lines /\ Along(k, u[1])

LEMMA PartsLie ==
  ASSUME Written, NEW l \in Lines, \A k \in 1 .. End : k > l => Lies(k), NEW p
  PROVE  /\ \A a \in States, u \in Uses : u \in PartOut(l, p, a).seen => InPart(l, p, u[1])
         /\ \A S \in SUBSET Stores, u \in Uses : u \in SuiteOut(l, p, S).seen => InPart(l, p, u[1])
<1>1. First(l, p) \in 1 .. End /\ First(l, p) > l
  BY FirstIs, CodeIsListed
<1>2. Lies(First(l, p))
  BY <1>1
<1>3. QED
  BY <1>2 DEF Lies, InPart, PartOut, SuiteOut

\* What a loop saw, some turn of it saw.
LEMMA TurnedFrom ==
  ASSUME InSight, Written, NEW l \in Lines, NEW S \in SUBSET Stores, NEW e \in Evaluated(code[l], S)
  PROVE  \A u \in Turned(l, e, S).flow.seen : u \in Uses /\ \E T \in SUBSET Stores : u \in SuiteOut(l, 1, T).seen
<1> DEFINE G == Group(l, e, S)
           P == Stores
           U == {u \in Uses : \E T \in SUBSET Stores : u \in SuiteOut(l, 1, T).seen}
           B == Stores
<1>1. G \in SUBSET Stores /\ e \in Holdings /\ G \subseteq P
  BY GroupHas
<1>2. ASSUME NEW T \in SUBSET Stores
      PROVE  /\ Body(l, e, T).next \subseteq P /\ Body(l, e, T).continued \subseteq P
             /\ Body(l, e, T).seen \subseteq U /\ Body(l, e, T).broke \subseteq B
  <2>1. /\ Body(l, e, T) \in Flows /\ Entered(code[l], e, T) \in SUBSET Stores
        /\ Body(l, e, T).seen \in SUBSET Uses
    BY <1>1, BodyIs, EnteredIs
  <2>2. Body(l, e, T).seen \subseteq U
    BY <2>1 DEF Body
  <2>3. QED
    BY <2>1, <2>2, FlowHas
<1> HIDE DEF G, P, U, B
<1>3. Last(l, e, G).flow.seen \subseteq U
  BY <1>1, <1>2, LastKeepsTo
<1>4. QED
  BY <1>3 DEF Turned, G, U

LEMMA DeepHere ==
  ASSUME Written, NEW l \in Lines
  PROVE  Deep(l, l)
BY CodeIsListed DEF Deep

LEMMA StatementLies ==
  ASSUME InSight, Written, Nested, NoTry, NEW l \in Lines, \A k \in 1 .. End : k > l => Lies(k)
  PROVE  /\ \A a \in States, u \in Uses : u \in Out(l, a).seen => Deep(l, u[1])
         /\ \A S \in SUBSET Stores, u \in Uses : u \in RunOut(l, S).seen => Deep(l, u[1])
<1>0. code[l].op \in {"bind", "augment", "read", "raised", "returned", "if", "match", "for", "while"}
  BY CodeIsListed DEF Nodes, Ops, Plain, Compound, NoTry
<1>1. \A p, x : InPart(l, p, x) => Deep(l, x)
  BY PartIsDeep
<1>2. Deep(l, l)
  BY DeepHere
<1>3. \A p : \A a \in States, u \in Uses : u \in PartOut(l, p, a).seen => Deep(l, u[1])
  BY <1>1, PartsLie
<1>4. \A p : \A S \in SUBSET Stores, u \in Uses : u \in SuiteOut(l, p, S).seen => Deep(l, u[1])
  BY <1>1, PartsLie
<1>5. \A u \in Uses : u = <<u[1], u[2], u[3]>>
  BY DEF Uses
<1>6. ASSUME NEW a \in States, NEW u \in Uses, u \in Out(l, a).seen PROVE Deep(l, u[1])
  <2>1. OutFor(l, a)
    BY OutIs
  <2>2. ASSUME u \in Load(l, Read(l), a) PROVE u[1] = l
    BY <1>5, <2>2, LoadIs, ReadIsNames
  <2>3. /\ Enter(code[l], a) \in States
        /\ Enter(code[l], Merge({a, FirstTurn(l, a).state})) \in States
        /\ Merge({a, SecondTurn(l, a).state}) \in States
    BY StatesOut
  <2>4. CASE code[l].op \in {"bind", "augment", "read"}
    <3>1. Out(l, a).seen = Load(l, Read(l), a)
      BY <2>1, <2>4 DEF OutFor
    <3>2. QED
      BY <1>2, <1>6, <2>2, <3>1
  <2>5. CASE code[l].op \in {"raised", "returned"}
    BY <1>6, <2>1, <2>5 DEF OutFor
  <2>6. CASE code[l].op = "if"
    <3>1. Out(l, a).seen = PartOut(l, 1, a).seen \cup PartOut(l, 2, a).seen
      BY <2>1, <2>6 DEF OutFor
    <3>2. QED
      BY <1>3, <1>6, <3>1
  <2>7. u \in FirstTurn(l, a).seen => Deep(l, u[1])
    BY <1>3, <2>3 DEF FirstTurn
  <2>8. u \in SecondTurn(l, a).seen => Deep(l, u[1])
    BY <1>3, <2>3 DEF SecondTurn
  <2>9. u \in AfterTurns(l, a).seen => Deep(l, u[1])
    BY <1>3, <2>3 DEF AfterTurns
  <2>10. CASE code[l].op = "match"
    <3>1. Out(l, a).seen = FirstTurn(l, a).seen
      BY <2>1, <2>10 DEF OutFor
    <3>2. QED
      BY <1>6, <2>7, <3>1
  <2>11. CASE code[l].op \in {"for", "while"}
    <3>1. Out(l, a).seen = Load(l, Read(l), a) \cup (FirstTurn(l, a).seen \cup SecondTurn(l, a).seen)
                           \cup AfterTurns(l, a).seen
      BY <2>1, <2>11 DEF OutFor
    <3>2. QED
      BY <1>2, <1>6, <2>2, <2>7, <2>8, <2>9, <3>1
  <2>12. QED
    BY <1>0, <2>4, <2>5, <2>6, <2>10, <2>11
<1>7. ASSUME NEW S \in SUBSET Stores, NEW u \in Uses, u \in RunOut(l, S).seen PROVE Deep(l, u[1])
  <2>1. ASSUME u \in Supplies(l, Read(l), S) PROVE u[1] = l
    <3>1. Read(l) \in SUBSET style.names
      BY ReadIsNames
    <3>2. SuppliedFrom(l, Read(l), S)
      BY <3>1, SuppliesIs
    <3>3. QED
      BY <1>5, <2>1, <3>2 DEF SuppliedFrom
  <2>2. CASE code[l].op \in {"bind", "augment", "read"}
    <3>1. RunOut(l, S).seen = Supplies(l, Read(l), S)
      BY <2>2, PlainRuns DEF RunFor, Plain
    <3>2. QED
      BY <1>2, <1>7, <2>1, <3>1
  <2>3. CASE code[l].op \in {"raised", "returned"}
    BY <1>7, <2>3, PlainRuns DEF RunFor
  <2>4. CASE code[l].op = "if"
    <3>1. RunOut(l, S).seen = SuiteOut(l, 1, S).seen \cup SuiteOut(l, 2, S).seen
      BY <2>4, BranchRuns DEF RunFor
    <3>2. QED
      BY <1>4, <1>7, <3>1
  <2>5. CASE code[l].op = "match"
    <3>1. RunOut(l, S).seen = CaseOf(l, S).seen
      BY <2>5, BranchRuns DEF RunFor
    <3>2. Entered(code[l], Known(ValueOf(code[l], <<>>)), S) \in SUBSET Stores
      BY EnteredIs, EvaluatesIs
    <3>3. QED
      BY <1>4, <1>7, <3>1, <3>2 DEF CaseOf
  <2>6. CASE code[l].op \in {"for", "while"}
    <3>1. LoopRunsTo(l, S)
      BY <2>6, LoopRunsOut
    <3>2. CASE u \in Supplies(l, Read(l), S)
      BY <1>2, <2>1, <3>2
    <3>3. ASSUME NEW e \in Evaluated(code[l], S), u \in Turned(l, e, S).flow.seen PROVE Deep(l, u[1])
      BY <1>4, <3>3, TurnedFrom
    <3>4. ASSUME NEW e \in Evaluated(code[l], S), u \in After(l, e, S).seen PROVE Deep(l, u[1])
      <4>1. Turned(l, e, S).stores \in SUBSET Stores
        BY TurnedIs
      <4>2. QED
        BY <1>4, <3>4, <4>1 DEF After
    <3>5. QED
      BY <1>7, <3>1, <3>2, <3>3, <3>4 DEF LoopRunsTo
  <2>7. QED
    BY <1>0, <2>2, <2>3, <2>4, <2>5, <2>6
<1>8. QED
  BY <1>6, <1>7

LEMMA AllLie ==
  ASSUME InSight, Written, Nested, NoTry
  PROVE  \A k \in 1 .. End : Lies(k)
<1> DEFINE G == {k \in 1 .. End : Lies(k)}
<1>1. ASSUME NEW k \in 1 .. End, \A j \in 1 .. End : j > k => j \in G PROVE Lies(k)
  <2>1. CASE k = End
    <3>1. \A S \in SUBSET Stores : RunAll[<<k, S>>].seen = {}
      BY <2>1, EndRun, FlowOut
    <3>2. \A a \in States : Statements[<<k, a>>].seen = {}
      BY <2>1, EndOut
    <3>3. QED
      BY <3>1, <3>2 DEF Lies
  <2>2. CASE k # End
    <3>1. k \in Lines /\ \A j \in 1 .. End : j > k => Lies(j)
      BY <1>1, <2>2, CodeIsListed
    <3> DEFINE j == Following(k)
    <3>2. j \in 1 .. End /\ j > k
      BY <3>1, FollowingIs
    <3>3. Lies(j)
      BY <3>1, <3>2
    <3>4. \A x : j \in Lines /\ Along(j, x) => Along(k, x)
      BY <3>1, AlongFollows
    <3>5. \A x : Deep(k, x) => Along(k, x)
      BY <3>1, AlongHere
    <3> HIDE DEF j
    <3>6. ASSUME NEW a \in States, NEW u \in Uses, u \in Statements[<<k, a>>].seen PROVE Along(k, u[1])
      <4>1. Out(k, a).state \in States
            /\ Statements[<<k, a>>].seen = Out(k, a).seen \cup Statements[<<j, Out(k, a).state>>].seen
        BY <3>1, LineOut DEF j
      <4>2. CASE u \in Out(k, a).seen
        BY <3>1, <3>5, <4>2, StatementLies
      <4>3. CASE u \in Statements[<<j, Out(k, a).state>>].seen
        BY <3>3, <3>4, <4>1, <4>3 DEF Lies
      <4>4. QED
        BY <3>6, <4>1, <4>2, <4>3
    <3>7. ASSUME NEW S \in SUBSET Stores, NEW u \in Uses, u \in RunAll[<<k, S>>].seen PROVE Along(k, u[1])
      <4>1. RunOut(k, S).next \in SUBSET Stores
            /\ RunAll[<<k, S>>].seen = RunOut(k, S).seen \cup RunAll[<<j, RunOut(k, S).next>>].seen
        BY <3>1, LineRun DEF j
      <4>2. CASE u \in RunOut(k, S).seen
        BY <3>1, <3>5, <4>2, StatementLies
      <4>3. CASE u \in RunAll[<<j, RunOut(k, S).next>>].seen
        BY <3>3, <3>4, <4>1, <4>3 DEF Lies
      <4>4. QED
        BY <3>7, <4>1, <4>2, <4>3
    <3>8. QED
      BY <3>1, <3>6, <3>7 DEF Lies
  <2>3. QED
    BY <2>1, <2>2
<1> HIDE DEF G
<1>2. \A k \in 1 .. End : k \in G
  <2>1. \A k \in 1 .. End : (\A j \in 1 .. End : j > k => j \in G) => k \in G
    BY <1>1 DEF G
  <2>2. End \in Nat
    BY CodeIsListed
  <2>3. QED
    BY <2>1, <2>2, Upwards
<1>3. QED
  BY <1>2 DEF G

-----------------------------------------------------------------------------
(* Of the definitions that are said to reach a name, some run reads each.  *)

Precisely(S, a, m, b) == a.reachable /\ S # {} /\ (b \in a.env[m] => \E st \in S : st[m].from = b)
Keeps(f, o, m, b) == o.state.reachable => Precisely(f.next, o.state, m, b)
Finds(f, o, m, b, x) == <<x, m, b>> \in o.seen => <<x, m, b>> \in f.seen

\* The lines at which some run reads a name, from k on, and in l.
Met(k, m) == {x \in Lines : \E T \in SUBSET Stores, c \in Bindings : <<x, m, c>> \in RunAll[<<k, T>>].seen}
MetIn(l, m) == {x \in Lines : \E T \in SUBSET Stores, c \in Bindings : <<x, m, c>> \in RunOut(l, T).seen}

Exact(f, o, m, b, X) == Keeps(f, o, m, b) /\ \A x \in X : Finds(f, o, m, b, x)
Precise(k) ==
    \A S \in SUBSET Stores, a \in States, m \in style.names, b \in Bindings :
       Precisely(S, a, m, b) => Exact(RunAll[<<k, S>>], Statements[<<k, a>>], m, b, Met(k, m))
StatementPrecise(l, S, a, m, b) == Precisely(S, a, m, b) => Exact(RunOut(l, S), Out(l, a), m, b, MetIn(l, m))

LEMMA PreciseMore ==
  ASSUME NEW S, NEW T, S \subseteq T, NEW a, NEW m, NEW b, Precisely(S, a, m, b)
  PROVE  Precisely(T, a, m, b)
BY DEF Precisely

LEMMA EnterPrecise ==
  ASSUME NEW l \in Lines, NEW v \in Holdings, NEW S \in SUBSET Stores, NEW a \in States,
         NEW m \in style.names, NEW b \in Bindings, Precisely(S, a, m, b)
  PROVE  Precisely(Entered(code[l], v, S), Enter(code[l], a), m, b)
<1> DEFINE E == Enter(code[l], a)
           T == Entered(code[l], v, S)
<1>1. /\ E.reachable <=> a.reachable
      /\ \A n \in style.names : \A c : c \in E.env[n] <=> IF n = code[l].name THEN c = code[l] ELSE c \in a.env[n]
  BY EnterHas
<1>2. \A before \in S : \E st \in T : \A n \in style.names :
         st[n].from = IF n = code[l].name THEN code[l] ELSE before[n].from
  BY EnteredKeeps
<1> HIDE DEF E, T
<1>3. Precisely(T, E, m, b)
  BY <1>1, <1>2 DEF Precisely
<1>4. QED
  BY <1>3 DEF E, T

LEMMA BindPrecise ==
  ASSUME NEW l \in Lines, code[l].name \in style.names, NEW S \in SUBSET Stores, NEW a \in States,
         NEW m \in style.names, NEW b \in Bindings, Precisely(S, a, m, b)
  PROVE  Precisely(Assigned(code[l], S), BindNode(code[l], a), m, b)
<1> DEFINE E == BindNode(code[l], a)
           T == Assigned(code[l], S)
<1>1. code[l] \in Bindings
  BY DEF Bindings
<1>2. /\ E.reachable <=> a.reachable
      /\ \A n \in style.names : \A c : c \in E.env[n] <=> IF n = code[l].name THEN c = code[l] ELSE c \in a.env[n]
  BY <1>1, BindHas
<1>3. \A before \in S : \E st \in T : \A n \in style.names :
         st[n].from = IF n = code[l].name THEN code[l] ELSE before[n].from
  BY AssignedHas
<1> HIDE DEF E, T
<1>4. Precisely(T, E, m, b)
  BY <1>2, <1>3 DEF Precisely
<1>5. QED
  BY <1>4 DEF E, T

LEMMA GroupPrecise ==
  ASSUME NEW l \in Lines, NEW S \in SUBSET Stores, NEW a \in States,
         NEW m \in style.names, NEW b \in Bindings, Precisely(S, a, m, b)
  PROVE  \E e \in Evaluated(code[l], S) : Precisely(Group(l, e, S), a, m, b)
<1>1. PICK st \in S : b \in a.env[m] => st[m].from = b
  BY DEF Precisely
<1>2. Evaluates(code[l], st) \in Evaluated(code[l], S) /\ st \in Group(l, Evaluates(code[l], st), S)
  BY AlikeIs DEF Group
<1>3. Precisely(Group(l, Evaluates(code[l], st), S), a, m, b)
  BY <1>1, <1>2 DEF Precisely
<1>4. QED
  BY <1>2, <1>3

LEMMA MergePrecise ==
  ASSUME NEW a \in States, NEW d \in States, NEW S, NEW T, NEW m \in style.names, NEW b \in Bindings,
         a.reachable => Precisely(S, a, m, b), d.reachable => Precisely(T, d, m, b),
         a.reachable \/ d.reachable
  PROVE  Precisely(S \cup T, Merge({a, d}), m, b)
<1> DEFINE M == Merge({a, d})
<1>1. /\ M.reachable <=> (a.reachable \/ d.reachable)
      /\ \A n \in style.names : \A c : c \in M.env[n] <=>
               \/ c \in a.env[n] /\ (a.reachable \/ ~d.reachable)
               \/ c \in d.env[n] /\ (d.reachable \/ ~a.reachable)
  BY MergeHas
<1> HIDE DEF M
<1>2. Precisely(S \cup T, M, m, b)
  BY <1>1 DEF Precisely
<1>3. QED
  BY <1>2 DEF M

LEMMA PartPrecise ==
  ASSUME Written, NEW l \in Lines, \A k \in 1 .. End : k > l => Precise(k), NEW p,
         NEW S \in SUBSET Stores, NEW a \in States, NEW m \in style.names, NEW b \in Bindings,
         Precisely(S, a, m, b)
  PROVE  Exact(SuiteOut(l, p, S), PartOut(l, p, a), m, b, Met(First(l, p), m))
<1>1. First(l, p) \in 1 .. End /\ First(l, p) > l
  BY FirstIs, CodeIsListed
<1>2. Precise(First(l, p))
  BY <1>1
<1>3. QED
  BY <1>2 DEF Precise, SuiteOut, PartOut

\* What is read in one part of a statement, that part reads.
LEMMA ReadsInAPart ==
  ASSUME InSight, Written, Nested, NoTry, NEW l \in Lines, NEW p, NEW m \in style.names, NEW x \in MetIn(l, m),
         InPart(l, p, x)
  PROVE  x \in Met(First(l, p), m)
<1>0. x \in Lines /\ x # l
  BY PartIsDeep DEF MetIn
<1>1. PICK T \in SUBSET Stores, c \in Bindings : <<x, m, c>> \in RunOut(l, T).seen
  BY DEF MetIn
<1> DEFINE u == <<x, m, c>>
<1>2. u \in Uses /\ u[1] = x
  BY <1>0 DEF Uses
<1>3. \A q : \A S \in SUBSET Stores : u \in SuiteOut(l, q, S).seen => q = p
  <2>1. \A k \in 1 .. End : k > l => Lies(k)
    BY AllLie
  <2>2. ASSUME NEW q, NEW S \in SUBSET Stores, u \in SuiteOut(l, q, S).seen PROVE q = p
    <3>1. InPart(l, q, x)
      BY <1>2, <2>1, <2>2, PartsLie
    <3>2. QED
      BY <3>1, OnePart
  <2>3. QED
    BY <2>2
<1>4. ASSUME NEW q, NEW S \in SUBSET Stores, u \in SuiteOut(l, q, S).seen PROVE x \in Met(First(l, p), m)
  <2>1. u \in RunAll[<<First(l, p), S>>].seen
    BY <1>3, <1>4 DEF SuiteOut
  <2>2. QED
    BY <1>0, <2>1 DEF Met
<1>5. u \notin Supplies(l, Read(l), T)
  <2>1. SuppliedFrom(l, Read(l), T)
    BY ReadIsNames, SuppliesIs
  <2>2. QED
    BY <1>0, <2>1 DEF SuppliedFrom
<1>6. u \in RunOut(l, T).seen
  BY <1>1
<1>7. code[l].op \in {"bind", "augment", "read", "raised", "returned", "if", "match", "for", "while"}
  BY CodeIsListed DEF Nodes, Ops, Plain, Compound, NoTry
<1> HIDE DEF u
<1>8. CASE code[l].op \in {"bind", "augment", "read", "raised", "returned"}
  <2>1. RunFor(l, T)
    BY <1>8, PlainRuns DEF Plain
  <2>2. RunOut(l, T).seen = Supplies(l, Read(l), T) \/ RunOut(l, T).seen = {}
    BY <1>8, <2>1 DEF RunFor, Plain
  <2>3. QED
    BY <1>5, <1>6, <2>2
<1>9. CASE code[l].op = "if"
  <2>1. RunOut(l, T).seen = SuiteOut(l, 1, T).seen \cup SuiteOut(l, 2, T).seen
    BY <1>9, BranchRuns DEF RunFor
  <2>2. QED
    BY <1>4, <1>6, <2>1
<1>10. CASE code[l].op = "match"
  <2>1. RunOut(l, T).seen = CaseOf(l, T).seen
    BY <1>10, BranchRuns DEF RunFor
  <2>2. Entered(code[l], Known(ValueOf(code[l], <<>>)), T) \in SUBSET Stores
    BY EnteredIs, EvaluatesIs
  <2>3. QED
    BY <1>4, <1>6, <2>1, <2>2 DEF CaseOf
<1>11. CASE code[l].op \in {"for", "while"}
  <2>1. LoopRunsTo(l, T)
    BY <1>11, LoopRunsOut
  <2>2. PICK e \in Evaluated(code[l], T) : u \in Turned(l, e, T).flow.seen \/ u \in After(l, e, T).seen
    BY <1>5, <1>6, <2>1 DEF LoopRunsTo
  <2>3. CASE u \in Turned(l, e, T).flow.seen
    <3>1. \E S \in SUBSET Stores : u \in SuiteOut(l, 1, S).seen
      BY <2>3, TurnedFrom
    <3>2. QED
      BY <1>4, <3>1
  <2>4. CASE u \in After(l, e, T).seen
    <3>1. Turned(l, e, T).stores \in SUBSET Stores
      BY TurnedIs
    <3>2. QED
      BY <1>4, <2>4, <3>1 DEF After
  <2>5. QED
    BY <2>2, <2>3, <2>4
<1>12. QED
  BY <1>7, <1>8, <1>9, <1>10, <1>11

\* What the analysis sees in a part and some run reads, that part's run finds.
LEMMA PartFinds ==
  ASSUME InSight, Written, Nested, NoTry, NEW l \in Lines, NEW p, NEW m \in style.names, NEW b \in Bindings,
         NEW a \in States, NEW f, Exact(f, PartOut(l, p, a), m, b, Met(First(l, p), m)), NEW x \in MetIn(l, m),
         <<x, m, b>> \in PartOut(l, p, a).seen
  PROVE  <<x, m, b>> \in f.seen
<1> DEFINE u == <<x, m, b>>
<1>1. u \in Uses /\ u[1] = x
  BY DEF Uses, MetIn
<1>2. \A k \in 1 .. End : k > l => Lies(k)
  BY AllLie
<1>3. InPart(l, p, x)
  BY <1>1, <1>2, PartsLie
<1>4. x \in Met(First(l, p), m)
  BY <1>3, ReadsInAPart
<1>5. QED
  BY <1>4 DEF Exact, Finds

LEMMA PlainPrecise ==
  ASSUME InSight, Written, NEW l \in Lines, NEW S \in SUBSET Stores, NEW a \in States,
         NEW m \in style.names, NEW b \in Bindings, code[l].op \in Plain \cup {"raised", "returned"}
  PROVE  StatementPrecise(l, S, a, m, b)
<1> SUFFICES ASSUME Precisely(S, a, m, b)
             PROVE  Exact(RunOut(l, S), Out(l, a), m, b, MetIn(l, m))
  BY DEF StatementPrecise
<1>1. RunFor(l, S) /\ OutFor(l, a)
  BY PlainRuns, OutIs
<1>2. \A x : <<x, m, b>> \in Load(l, Read(l), a) => <<x, m, b>> \in Supplies(l, Read(l), S)
  <2>1. Read(l) \in SUBSET style.names
    BY ReadIsNames
  <2>2. \A x : <<x, m, b>> \in Load(l, Read(l), a) <=> x = l /\ m \in Read(l) /\ b \in a.env[m]
    BY <2>1, LoadIs
  <2>3. SuppliedFrom(l, Read(l), S)
    BY <2>1, SuppliesIs
  <2>4. b \in a.env[m] => \E st \in S : st[m].from = b
    BY DEF Precisely
  <2>5. QED
    BY <2>2, <2>3, <2>4 DEF SuppliedFrom
<1>3. CASE code[l].op \in {"bind", "augment"}
  <2>1. code[l].name \in style.names
    BY <1>3 DEF Written
  <2>2. Precisely(Assigned(code[l], S), BindNode(code[l], a), m, b)
    BY <2>1, BindPrecise
  <2>3. /\ RunOut(l, S).next = Assigned(code[l], S) /\ RunOut(l, S).seen = Supplies(l, Read(l), S)
        /\ Out(l, a).state = BindNode(code[l], a) /\ Out(l, a).seen = Load(l, Read(l), a)
    BY <1>1, <1>3 DEF RunFor, OutFor, Plain
  <2>4. QED
    BY <1>2, <2>2, <2>3 DEF Exact, Keeps, Finds
<1>4. CASE code[l].op = "read"
  <2>1. /\ RunOut(l, S).next = S /\ RunOut(l, S).seen = Supplies(l, Read(l), S)
        /\ Out(l, a).state = a /\ Out(l, a).seen = Load(l, Read(l), a)
    BY <1>1, <1>4 DEF RunFor, OutFor, Plain
  <2>2. QED
    BY <1>2, <2>1 DEF Exact, Keeps, Finds
<1>5. CASE code[l].op \in {"raised", "returned"}
  <2>1. ~Out(l, a).state.reachable /\ Out(l, a).seen = {}
    <3>1. Out(l, a).state = StopAt(a) /\ Out(l, a).seen = {}
      BY <1>1, <1>5 DEF OutFor
    <3>2. QED
      BY <3>1 DEF StopAt, State
  <2>2. QED
    BY <2>1 DEF Exact, Keeps, Finds
<1>6. QED
  BY <1>3, <1>4, <1>5 DEF Plain

LEMMA BranchPrecise ==
  ASSUME InSight, Written, Nested, NoTry, NEW l \in Lines, \A k \in 1 .. End : k > l => Precise(k),
         NEW S \in SUBSET Stores, NEW a \in States, NEW m \in style.names, NEW b \in Bindings,
         code[l].op \in {"if", "match"}
  PROVE  StatementPrecise(l, S, a, m, b)
<1> SUFFICES ASSUME Precisely(S, a, m, b)
             PROVE  Exact(RunOut(l, S), Out(l, a), m, b, MetIn(l, m))
  BY DEF StatementPrecise
<1>1. RunFor(l, S) /\ OutFor(l, a)
  BY BranchRuns, OutIs
<1>2. CASE code[l].op = "if"
  <2> DEFINE f == SuiteOut(l, 1, S)
             g == SuiteOut(l, 2, S)
             o == PartOut(l, 1, a)
             q == PartOut(l, 2, a)
  <2>1. Exact(f, o, m, b, Met(First(l, 1), m)) /\ Exact(g, q, m, b, Met(First(l, 2), m))
    BY PartPrecise
  <2>2. o.state \in States /\ q.state \in States
    BY PartsOut
  <2>3. /\ RunOut(l, S).next = f.next \cup g.next /\ RunOut(l, S).seen = f.seen \cup g.seen
        /\ Out(l, a).state = Merge({o.state, q.state}) /\ Out(l, a).seen = o.seen \cup q.seen
    BY <1>1, <1>2 DEF RunFor, OutFor
  <2>4. ASSUME NEW x \in MetIn(l, m)
        PROVE  /\ <<x, m, b>> \in o.seen => <<x, m, b>> \in f.seen
               /\ <<x, m, b>> \in q.seen => <<x, m, b>> \in g.seen
    BY <2>1, PartFinds
  <2> HIDE DEF f, g, o, q
  <2>5. Merge({o.state, q.state}).reachable => Precisely(f.next \cup g.next, Merge({o.state, q.state}), m, b)
    BY <2>1, <2>2, MergeHas, MergePrecise DEF Exact, Keeps
  <2>6. QED
    BY <2>3, <2>4, <2>5 DEF Exact, Keeps, Finds
<1>3. CASE code[l].op = "match"
  <2> DEFINE T == Entered(code[l], Known(ValueOf(code[l], <<>>)), S)
             e == Enter(code[l], a)
             f == CaseOf(l, S)
             o == FirstTurn(l, a)
  <2>1. T \in SUBSET Stores /\ e \in States
    BY EnteredIs, EvaluatesIs, EnterIs
  <2>2. Precisely(T, e, m, b)
    BY EnterPrecise, EvaluatesIs
  <2>3. f = SuiteOut(l, 1, T) /\ o = PartOut(l, 1, e)
    BY DEF CaseOf, FirstTurn
  <2> HIDE DEF T, e, f, o
  <2>4. Exact(f, o, m, b, Met(First(l, 1), m))
    BY <2>1, <2>2, <2>3, PartPrecise
  <2>5. /\ RunOut(l, S).next = S \cup f.next /\ RunOut(l, S).seen = f.seen
        /\ Out(l, a).state = Merge({a, o.state}) /\ Out(l, a).seen = o.seen
    BY <1>1, <1>3 DEF RunFor, OutFor, f, o
  <2>6. o.state \in States
    BY StatesOut DEF o
  <2>7. ASSUME NEW x \in MetIn(l, m)
        PROVE  <<x, m, b>> \in o.seen => <<x, m, b>> \in f.seen
    BY <2>1, <2>3, <2>4, PartFinds
  <2>8. Precisely(S \cup f.next, Merge({a, o.state}), m, b)
    <3>1. a.reachable
      BY DEF Precisely
    <3>2. QED
      BY <2>4, <2>6, <3>1, MergePrecise DEF Exact, Keeps
  <2>9. QED
    BY <2>5, <2>7, <2>8 DEF Exact, Keeps, Finds
<1>4. QED
  BY <1>2, <1>3

\* One group of a loop's stores goes round as the analysis does.
LEMMA GroupTurns ==
  ASSUME InSight, Written, Nested, NoTry, NEW l \in Lines, \A k \in 1 .. End : k > l => Precise(k),
         NEW S \in SUBSET Stores, NEW a \in States, NEW m \in style.names, NEW b \in Bindings,
         NEW e \in Evaluated(code[l], S), Precisely(Group(l, e, S), a, m, b)
  PROVE  /\ Precisely(Turned(l, e, S).stores, Merge({a, SecondTurn(l, a).state}), m, b)
         /\ \A x \in MetIn(l, m) : <<x, m, b>> \in FirstTurn(l, a).seen \cup SecondTurn(l, a).seen
                                   => <<x, m, b>> \in Turned(l, e, S).flow.seen
<1> DEFINE G == Group(l, e, S)
           H == Again(l, e, G)
           f == Body(l, e, G)
           g == Body(l, e, H)
           o == FirstTurn(l, a)
           M == Merge({a, o.state})
           q == SecondTurn(l, a)
           N == Merge({a, q.state})
           R == Turned(l, e, S)
<1>1. G \in SUBSET Stores /\ e \in Holdings
  BY GroupHas
<1>2. /\ o.state \in States /\ q.state \in States /\ M \in States
      /\ Enter(code[l], a) \in States /\ Enter(code[l], M) \in States
  BY StatesOut
<1>3. /\ o = PartOut(l, 1, Enter(code[l], a)) /\ q = PartOut(l, 1, Enter(code[l], M))
  BY DEF FirstTurn, SecondTurn
<1>4. /\ f = SuiteOut(l, 1, Entered(code[l], e, G)) /\ g = SuiteOut(l, 1, Entered(code[l], e, H))
  BY DEF Body
<1>5. f \in Flows /\ f.next \in SUBSET Stores /\ f.continued \in SUBSET Stores
  BY <1>1, BodyIs
<1>6. H \in SUBSET Stores /\ G \cup f.next \subseteq H
  BY <1>1, <1>5 DEF Again
<1>7. /\ G \subseteq R.stores /\ f.seen \subseteq R.flow.seen
      /\ g.seen \subseteq R.flow.seen /\ g.next \subseteq R.stores
  BY <1>1, LastHas DEF Turned
<1>8. a.reachable
  BY DEF Precisely
<1>9. Entered(code[l], e, G) \in SUBSET Stores /\ Precisely(Entered(code[l], e, G), Enter(code[l], a), m, b)
  BY <1>1, EnteredIs, EnterPrecise
<1> HIDE DEF f, o
<1>10. Exact(f, o, m, b, Met(First(l, 1), m))
  BY <1>2, <1>3, <1>4, <1>9, PartPrecise
<1> HIDE DEF G
<1>11. Precisely(G \cup f.next, M, m, b)
  <2>1. Precisely(G, a, m, b)
    BY DEF G
  <2>2. QED
    BY <1>2, <1>8, <1>10, <2>1, MergePrecise DEF Exact, Keeps
<1> HIDE DEF H
<1>12. Precisely(H, M, m, b)
  BY <1>6, <1>11, PreciseMore
<1> HIDE DEF M
<1>13. Entered(code[l], e, H) \in SUBSET Stores /\ Precisely(Entered(code[l], e, H), Enter(code[l], M), m, b)
  BY <1>1, <1>2, <1>6, <1>12, EnteredIs, EnterPrecise
<1> HIDE DEF g, q
<1>14. Exact(g, q, m, b, Met(First(l, 1), m))
  BY <1>2, <1>3, <1>4, <1>13, PartPrecise
<1>15. Precisely(G \cup g.next, N, m, b)
  <2>1. Precisely(G, a, m, b)
    BY DEF G
  <2>2. QED
    BY <1>2, <1>8, <1>14, <2>1, MergePrecise DEF Exact, Keeps
<1> HIDE DEF N, R
<1>16. Precisely(R.stores, N, m, b)
  BY <1>7, <1>15, PreciseMore
<1>17. ASSUME NEW x \in MetIn(l, m), <<x, m, b>> \in o.seen \cup q.seen
       PROVE  <<x, m, b>> \in R.flow.seen
  <2>1. CASE <<x, m, b>> \in o.seen
    <3>1. <<x, m, b>> \in f.seen
      BY <1>2, <1>3, <1>10, <2>1, PartFinds
    <3>2. QED
      BY <1>7, <3>1
  <2>2. CASE <<x, m, b>> \in q.seen
    <3>1. <<x, m, b>> \in g.seen
      BY <1>2, <1>3, <1>14, <2>2, PartFinds
    <3>2. QED
      BY <1>7, <3>1
  <2>3. QED
    BY <1>17, <2>1, <2>2
<1>18. QED
  BY <1>16, <1>17 DEF N, R, o, q

LEMMA LoopPrecise ==
  ASSUME InSight, Written, Nested, NoTry, NEW l \in Lines, \A k \in 1 .. End : k > l => Precise(k),
         NEW S \in SUBSET Stores, NEW a \in States, NEW m \in style.names, NEW b \in Bindings,
         code[l].op \in {"for", "while"}
  PROVE  StatementPrecise(l, S, a, m, b)
<1> SUFFICES ASSUME Precisely(S, a, m, b)
             PROVE  Exact(RunOut(l, S), Out(l, a), m, b, MetIn(l, m))
  BY DEF StatementPrecise
<1>1. LoopRunsTo(l, S) /\ OutFor(l, a)
  BY LoopRunsOut, OutIs
<1>2. PICK e \in Evaluated(code[l], S) : Precisely(Group(l, e, S), a, m, b)
  BY GroupPrecise
<1> DEFINE f == RunOut(l, S)
           N == Merge({a, SecondTurn(l, a).state})
           R == Turned(l, e, S)
           g == After(l, e, S)
           o == AfterTurns(l, a)
           turns == FirstTurn(l, a).seen \cup SecondTurn(l, a).seen
<1>3. Out(l, a).state = o.state /\ Out(l, a).seen = Load(l, Read(l), a) \cup turns \cup o.seen
  BY <1>1 DEF OutFor
<1>4. /\ g.next \subseteq f.next
      /\ \A u : u \in Supplies(l, Read(l), S) \/ u \in R.flow.seen \/ u \in g.seen => u \in f.seen
  BY <1>1 DEF LoopRunsTo
<1>5. /\ Precisely(R.stores, N, m, b)
      /\ \A x \in MetIn(l, m) : <<x, m, b>> \in turns => <<x, m, b>> \in R.flow.seen
  BY <1>2, GroupTurns
<1>6. N \in States /\ o = PartOut(l, 2, N) /\ R.stores \in SUBSET Stores /\ g = SuiteOut(l, 2, R.stores)
  BY StatesOut, TurnedIs DEF AfterTurns, After
<1>7. \A x : <<x, m, b>> \in Load(l, Read(l), a) => <<x, m, b>> \in Supplies(l, Read(l), S)
  <2>1. Read(l) \in SUBSET style.names
    BY ReadIsNames
  <2>2. \A x : <<x, m, b>> \in Load(l, Read(l), a) <=> x = l /\ m \in Read(l) /\ b \in a.env[m]
    BY <2>1, LoadIs
  <2>3. SuppliedFrom(l, Read(l), S)
    BY <2>1, SuppliesIs
  <2>4. b \in a.env[m] => \E st \in S : st[m].from = b
    BY DEF Precisely
  <2>5. QED
    BY <2>2, <2>3, <2>4 DEF SuppliedFrom
<1> HIDE DEF N, R, g, o, turns, f
<1>8. Exact(g, o, m, b, Met(First(l, 2), m))
  BY <1>5, <1>6, PartPrecise
<1>9. o.state.reachable => Precisely(f.next, o.state, m, b)
  BY <1>4, <1>8, PreciseMore DEF Exact, Keeps
<1>10. ASSUME NEW x \in MetIn(l, m), <<x, m, b>> \in Load(l, Read(l), a) \cup turns \cup o.seen
       PROVE  <<x, m, b>> \in f.seen
  <2>1. <<x, m, b>> \in o.seen => <<x, m, b>> \in g.seen
    BY <1>6, <1>8, PartFinds
  <2>2. QED
    BY <1>4, <1>5, <1>7, <1>10, <2>1
<1>11. QED
  BY <1>3, <1>9, <1>10 DEF Exact, Keeps, Finds, f

LEMMA StatementsPrecise ==
  ASSUME InSight, Written, Nested, NoTry, NEW l \in Lines, \A k \in 1 .. End : k > l => Precise(k),
         NEW S \in SUBSET Stores, NEW a \in States, NEW m \in style.names, NEW b \in Bindings
  PROVE  StatementPrecise(l, S, a, m, b)
<1>1. code[l].op \in {"bind", "augment", "read", "raised", "returned", "if", "match", "for", "while"}
  BY CodeIsListed DEF Nodes, Ops, Plain, Compound, NoTry
<1>2. QED
  BY <1>1, PlainPrecise, BranchPrecise, LoopPrecise DEF Plain

\* A line and those that follow it.
LEMMA LinePrecise ==
  ASSUME InSight, Written, Nested, NoTry, NEW l \in Lines, \A k \in 1 .. End : k > l => Precise(k),
         NEW S \in SUBSET Stores, NEW a \in States, NEW m \in style.names, NEW b \in Bindings,
         Precisely(S, a, m, b)
  PROVE  Exact(RunAll[<<l, S>>], Statements[<<l, a>>], m, b, Met(l, m))
<1> DEFINE f == RunOut(l, S)
           o == Out(l, a)
           T == f.next
           d == o.state
           j == Following(l)
           g == RunAll[<<j, T>>]
           q == Statements[<<j, d>>]
<1>1. T \in SUBSET Stores /\ j \in 1 .. End /\ j > l /\ d \in States
  BY LineRun, LineOut
<1>2. RunAll[<<l, S>>].next = g.next /\ RunAll[<<l, S>>].seen = f.seen \cup g.seen
  BY LineRun
<1>3. Statements[<<l, a>>].state = q.state /\ Statements[<<l, a>>].seen = o.seen \cup q.seen
  BY LineOut
<1>4. Exact(f, o, m, b, MetIn(l, m))
  BY StatementsPrecise DEF StatementPrecise
<1>5. Precise(j) /\ Lies(j)
  BY <1>1, AllLie
<1>6. d.reachable => Exact(g, q, m, b, Met(j, m))
  <2> HIDE DEF T, d, j
  <2>1. d.reachable => Precisely(T, d, m, b)
    BY <1>4 DEF Exact, Keeps, T, d
  <2>2. QED
    BY <1>1, <1>5, <2>1 DEF Precise
<1>7. q.state.reachable => d.reachable
  <2>1. Carried(d, d, m, b)
    BY DEF Carried
  <2>2. Separate(j)
    BY <1>1, AllSeparate
  <2> HIDE DEF d, j
  <2>3. Dead(d, q)
    BY <1>1, <2>1, <2>2 DEF Separate
  <2>4. d.reachable \in BOOLEAN
    BY <1>1, StateHas
  <2>5. QED
    BY <2>3, <2>4 DEF Dead
<1>8. j \in Lines => \A x : Along(j, x) => ~Deep(l, x)
  BY AlongFollows
\* A line that some run reads is read in the statement, or after it.
<1>9. ASSUME NEW x \in Met(l, m)
      PROVE  x \in MetIn(l, m) \/ (x \in Met(j, m) /\ d.reachable)
  <2>1. PICK P \in SUBSET Stores, c \in Bindings : x \in Lines /\ <<x, m, c>> \in RunAll[<<l, P>>].seen
    BY <1>9 DEF Met
  <2> DEFINE V == RunOut(l, P).next
  <2>2. V \in SUBSET Stores /\ RunAll[<<l, P>>].seen = RunOut(l, P).seen \cup RunAll[<<j, V>>].seen
    BY LineRun
  <2>3. CASE <<x, m, c>> \in RunOut(l, P).seen
    BY <2>1, <2>3 DEF MetIn
  <2>4. CASE <<x, m, c>> \in RunAll[<<j, V>>].seen
    <3>1. x \in Met(j, m)
      <4> HIDE DEF V, j
      <4>1. QED
        BY <2>1, <2>2, <2>4 DEF Met
    <3>2. ASSUME ~d.reachable PROVE FALSE
      <4>1. V = {}
        <5>1. a.reachable
          BY DEF Precisely
        <5>2. style.names # {}
          OBVIOUS
        <5>3. QED
          BY <3>2, <5>1, <5>2, NothingComes
      <4> HIDE DEF V, j
      <4>2. GoesNowhere(RunAll[<<j, V>>])
        <5>1. Sound(j) /\ a \in States
          BY <1>1, AllSound
        <5>2. QED
          BY <2>2, <4>1, <5>1 DEF Sound
      <4>3. QED
        BY <2>4, <4>2 DEF GoesNowhere
    <3>3. QED
      BY <3>1, <3>2
  <2>5. QED
    BY <2>1, <2>2, <2>3, <2>4
<1>10. ASSUME NEW x \in Met(l, m) PROVE Finds(RunAll[<<l, S>>], Statements[<<l, a>>], m, b, x)
  <2> DEFINE u == <<x, m, b>>
  <2>0. u \in Uses /\ u[1] = x
    BY <1>10 DEF Uses, Met
  <2>1. u \in o.seen => Deep(l, x)
    <3>1. \A k \in 1 .. End : k > l => Lies(k)
      BY AllLie
    <3>2. QED
      BY <2>0, <3>1, StatementLies
  <2>2. u \in q.seen => j \in Lines /\ Along(j, x)
    <3> HIDE DEF d, j, u
    <3>1. QED
      BY <1>1, <1>5, <2>0 DEF Lies
  <2>3. x \in MetIn(l, m) => Deep(l, x)
    <3>1. \A k \in 1 .. End : k > l => Lies(k)
      BY AllLie
    <3>2. ASSUME NEW P \in SUBSET Stores, NEW c \in Bindings, x \in Lines, <<x, m, c>> \in RunOut(l, P).seen
          PROVE  Deep(l, x)
      <4>1. <<x, m, c>> \in Uses
        BY <3>2 DEF Uses
      <4>2. Deep(l, <<x, m, c>>[1])
        BY <3>1, <3>2, <4>1, StatementLies
      <4>3. QED
        BY <4>2
    <3>3. QED
      BY <3>2 DEF MetIn
  <2>4. x \in Met(j, m) => j \in Lines /\ Along(j, x)
    <3> HIDE DEF j
    <3>1. ASSUME NEW P \in SUBSET Stores, NEW c \in Bindings, x \in Lines, <<x, m, c>> \in RunAll[<<j, P>>].seen
          PROVE  j \in Lines /\ Along(j, x)
      <4>1. <<x, m, c>> \in Uses
        BY <3>1 DEF Uses
      <4>2. j \in Lines /\ Along(j, <<x, m, c>>[1])
        BY <1>5, <3>1, <4>1 DEF Lies
      <4>3. QED
        BY <4>2
    <3>2. QED
      BY <3>1 DEF Met
  <2> HIDE DEF f, o, g, q, j, d
  <2>5. ASSUME u \in o.seen PROVE u \in f.seen
    <3>1. x \in MetIn(l, m)
      BY <1>8, <1>9, <2>1, <2>4, <2>5
    <3>2. QED
      BY <1>4, <2>5, <3>1 DEF Exact, Finds
  <2>6. ASSUME u \in q.seen PROVE u \in g.seen
    <3>1. x \in Met(j, m) /\ d.reachable
      BY <1>8, <1>9, <2>2, <2>3, <2>6
    <3>2. QED
      BY <1>6, <2>6, <3>1 DEF Exact, Finds
  <2>7. QED
    BY <1>2, <1>3, <2>5, <2>6 DEF Finds
<1> HIDE DEF g, q, d
<1>11. Keeps(RunAll[<<l, S>>], Statements[<<l, a>>], m, b)
  BY <1>2, <1>3, <1>6, <1>7 DEF Exact, Keeps
<1>12. QED
  BY <1>10, <1>11 DEF Exact

LEMMA AllPrecise ==
  ASSUME InSight, Written, Nested, NoTry
  PROVE  \A k \in 1 .. End : Precise(k)
<1> DEFINE G == {k \in 1 .. End : Precise(k)}
<1>1. ASSUME NEW k \in 1 .. End, \A j \in 1 .. End : j > k => j \in G PROVE Precise(k)
  <2> SUFFICES ASSUME NEW S \in SUBSET Stores, NEW a \in States, NEW m \in style.names, NEW b \in Bindings,
                      Precisely(S, a, m, b)
               PROVE  Exact(RunAll[<<k, S>>], Statements[<<k, a>>], m, b, Met(k, m))
    BY DEF Precise
  <2>1. CASE k = End
    <3>1. RunAll[<<k, S>>].next = S
      BY <2>1, EndRun, FlowOut
    <3>2. Statements[<<k, a>>].state = a /\ Statements[<<k, a>>].seen = {}
      BY <2>1, EndOut
    <3>3. QED
      BY <3>1, <3>2 DEF Exact, Keeps, Finds
  <2>2. CASE k # End
    <3>1. k \in Lines /\ \A j \in 1 .. End : j > k => Precise(j)
      BY <1>1, <2>2, CodeIsListed
    <3>2. QED
      BY <3>1, LinePrecise
  <2>3. QED
    BY <2>1, <2>2
<1> HIDE DEF G
<1>2. \A k \in 1 .. End : k \in G
  <2>1. \A k \in 1 .. End : (\A j \in 1 .. End : j > k => j \in G) => k \in G
    BY <1>1 DEF G
  <2>2. End \in Nat
    BY CodeIsListed
  <2>3. QED
    BY <2>1, <2>2, Upwards
<1>3. QED
  BY <1>2 DEF G

LEMMA StartIs ==
  ASSUME InSight, Written
  PROVE  /\ Entry \in [style.names -> SUBSET Bindings] /\ State(Entry, TRUE) \in States
         /\ Called \in Stores /\ {Called} \in SUBSET Stores
         /\ First(0, 1) \in 1 .. End
         /\ Covered({Called}, State(Entry, TRUE))
         /\ \A m \in style.names, b \in Bindings : Precisely({Called}, State(Entry, TRUE), m, b)
<1> DEFINE s == State(Entry, TRUE)
           given(n) == [from |-> Parameter(n), holds |-> Known(ValueOf(Parameter(n), <<>>))]
<1>1. \A n \in style.names : Parameter(n) \in Bindings
  BY DEF Bindings
<1>2. Entry \in [style.names -> SUBSET Bindings] /\ \A n \in style.names : Entry[n] = {Parameter(n)}
  BY <1>1 DEF Entry
<1>3. s \in States /\ s.env = Entry /\ s.reachable
  BY <1>2, StateIs
<1>4. \A n \in style.names : given(n) \in [from : Bindings, holds : Holdings] /\ given(n).from = Parameter(n)
  BY <1>1, EvaluatesIs
<1>5. Called = [n \in style.names |-> given(n)]
  BY DEF Called
<1> HIDE DEF given
<1>6. Called \in Stores /\ \A n \in style.names : Called[n].from = Parameter(n)
  BY <1>4, <1>5 DEF Stores
<1>7. First(0, 1) \in 1 .. End
  BY FirstIs
<1> HIDE DEF s
<1>8. Covered({Called}, s)
  BY <1>2, <1>3, <1>6 DEF Covered
<1>9. \A m \in style.names, b \in Bindings : Precisely({Called}, s, m, b)
  BY <1>2, <1>3, <1>6 DEF Precisely
<1>10. QED
  BY <1>2, <1>3, <1>6, <1>7, <1>8, <1>9 DEF s

\* Of a function that is written, no definition is missed and none is made up.
LEMMA RunsAreSeen ==
  ASSUME InSight, Written
  PROVE  Runs.seen \subseteq DefUse
<1> DEFINE k == First(0, 1)
           S == {Called}
           a == State(Entry, TRUE)
<1>1. k \in 1 .. End /\ S \in SUBSET Stores /\ a \in States /\ Covered(S, a)
  BY StartIs
<1>2. Runs.seen = RunAll[<<k, S>>].seen /\ DefUse = Statements[<<k, a>>].seen
  BY DEF Runs, Observed, DefUse
<1>3. Sound(k)
  BY <1>1, AllSound
<1> HIDE DEF k, S, a
<1>4. QED
  BY <1>1, <1>2, <1>3 DEF Sound, Follows

LEMMA SeenAreRun ==
  ASSUME InSight, Written, Nested, NoTry, NEW u \in DefUse,
         NEW v \in Runs.seen, v[1] = u[1], v[2] = u[2]
  PROVE  u \in Runs.seen
<1> DEFINE k == First(0, 1)
           S == {Called}
           a == State(Entry, TRUE)
<1>1. /\ k \in 1 .. End /\ S \in SUBSET Stores /\ a \in States
      /\ \A m \in style.names, b \in Bindings : Precisely(S, a, m, b)
  BY StartIs
<1>2. Runs.seen = RunAll[<<k, S>>].seen /\ DefUse = Statements[<<k, a>>].seen
  BY DEF Runs, Observed, DefUse
<1> HIDE DEF k, S, a
<1>3. Statements[<<k, a>>] \in Outcomes /\ RunAll[<<k, S>>] \in Flows
  BY <1>1, WalkIs, RunIs
<1>4. u \in Uses /\ v \in Uses
  BY <1>2, <1>3, OutcomeHas, FlowHas
<1>5. \A w \in Uses : w = <<w[1], w[2], w[3]>> /\ w[1] \in Lines /\ w[2] \in style.names /\ w[3] \in Bindings
  BY DEF Uses
<1>6. u[1] \in Met(k, u[2])
  <2>1. <<u[1], u[2], v[3]>> \in RunAll[<<k, S>>].seen
    BY <1>2, <1>4, <1>5
  <2>2. QED
    BY <1>1, <1>4, <1>5, <2>1 DEF Met
<1>7. Exact(RunAll[<<k, S>>], Statements[<<k, a>>], u[2], u[3], Met(k, u[2]))
  <2>1. Precise(k)
    BY <1>1, AllPrecise
  <2>2. QED
    BY <1>1, <1>4, <1>5, <2>1 DEF Precise
<1>8. <<u[1], u[2], u[3]>> \in RunAll[<<k, S>>].seen
  BY <1>2, <1>4, <1>5, <1>6, <1>7 DEF Exact, Finds
<1>9. QED
  BY <1>2, <1>4, <1>5, <1>8

FlowInv == Written /\ Opened /\ Nested /\ Stacked /\ DefinitionsAreTheOnesSeen

LEMMA FlowInvStep ==
  ASSUME InSight, FlowInv, FlowNext
  PROVE  FlowInv'
<1> USE DEF FlowInv
<1>1. Written' /\ Opened' /\ Nested' /\ Stacked'
  BY WritingStep, NestingStep
<1>2. CASE Finish
  <2>1. python'.seen \subseteq chains'
    BY <1>2, RunsAreSeen DEF Finish
  <2>2. NoDeadDefinitionIsSeen'
    <3>1. code' = code /\ chains' = DefUse /\ python' = Runs /\ Lines' = Lines
      BY <1>2 DEF Finish, Lines
    <3>2. NoTry => \A u \in DefUse : (\E v \in Runs.seen : v[1] = u[1] /\ v[2] = u[2]) => u \in Runs.seen
      BY SeenAreRun
    <3>3. QED
      BY <3>1, <3>2 DEF NoDeadDefinitionIsSeen, NoTry
  <2>3. QED
    BY <1>1, <2>1, <2>2 DEF DefinitionsAreTheOnesSeen, EveryDefinitionIsSeen
<1>3. CASE ~Finish
  <2>1. ~done'
    BY <1>3 DEF FlowNext, WriteBind, WriteAugment, WriteRead, WriteStop, OpenPlain, OpenFor, OpenMatch,
                OpenBlock, NextPart, CloseBlock, WriteLine, Write
  <2>2. QED
    BY <1>1, <2>1 DEF DefinitionsAreTheOnesSeen, EveryDefinitionIsSeen, NoDeadDefinitionIsSeen
<1>4. QED
  BY <1>2, <1>3

\* While the authors do what the analysis sees through, the definitions that
\* are said to reach a name (dataflow/chains.py) are those it is given its
\* value by: none is missing, whatever is written, and but for a handler none
\* is there that no run of the function reads.
THEOREM DefinitionsHold ==
  ASSUME InSight
  PROVE  FlowSpec => []DefinitionsAreTheOnesSeen
<1>1. FlowInit => FlowInv
  <2>1. FlowInit => DefinitionsAreTheOnesSeen
    BY DEF FlowInit, DefinitionsAreTheOnesSeen, EveryDefinitionIsSeen, NoDeadDefinitionIsSeen
  <2>2. QED
    BY <2>1, WritingInit, NestingInit DEF FlowInv
<1>2. FlowInv /\ [FlowNext]_flowVars => FlowInv'
  <2>1. CASE FlowNext
    BY <2>1, FlowInvStep
  <2>2. ASSUME FlowInv, UNCHANGED flowVars PROVE FlowInv'
    <3>1. style' = style /\ open' = open /\ code' = code /\ done' = done /\ chains' = chains /\ python' = python
      BY <2>2 DEF flowVars
    <3>2. Lines' = Lines /\ Nodes' = Nodes
      BY <3>1 DEF Lines, Nodes
    <3>3. Written'
      BY <2>2, <3>1, WrittenStays DEF FlowInv
    <3>4. Opened' /\ Nested' /\ Stacked'
      BY <2>2, <3>1, <3>2 DEF FlowInv, Opened, Nested, Stacked
    <3>5. DefinitionsAreTheOnesSeen'
      BY <2>2, <3>1, <3>2 DEF FlowInv, DefinitionsAreTheOnesSeen, EveryDefinitionIsSeen, NoDeadDefinitionIsSeen
    <3>6. QED
      BY <3>3, <3>4, <3>5 DEF FlowInv
  <2>3. QED
    BY <2>1, <2>2
<1>3. FlowInv => DefinitionsAreTheOnesSeen
  BY DEF FlowInv
<1>4. QED
  BY <1>1, <1>2, <1>3, PTL DEF FlowSpec

=============================================================================
