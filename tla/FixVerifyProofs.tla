-------------------------- MODULE FixVerifyProofs --------------------------
(***************************************************************************)
(* What holds of `djaudit fix --verify` for every set of fixes, every      *)
(* project and every engine: no fix goes missing, none ships that did not  *)
(* hold up in the text it was made from, and a level of assurance was      *)
(* earned by one copy that held everything it is printed over.             *)
(***************************************************************************)
EXTENDS FixVerify, WellFoundedInduction, FiniteSetTheorems, TLAPS

(* A nonempty set of fixes has a first one. *)
LEMMA FirstIsOne == ASSUME NEW S \in SUBSET Nat, S # {} PROVE First(S) \in S
<1> DEFINE Less == {p \in Nat \X Nat : p[1] < p[2]}
<1>1. IsWellFoundedOn(Less, Nat)
  BY NatLessThanWellFounded DEF OpToRel
<1>2. PICK f \in S : \A g \in S : <<g, f>> \notin Less
  BY <1>1, WFMin
<1>3. ASSUME NEW g \in S PROVE f <= g
  <2>1. f \in Nat /\ g \in Nat
    OBVIOUS
  <2>2. ~(g < f)
    BY <1>2, <2>1
  <2>3. QED
    BY <2>1, <2>2
<1>4. QED
  BY <1>3 DEF First

-----------------------------------------------------------------------------
(* A verification of a set of fixes. *)

(* The tree a set of fixes produces is a tree. *)
LEMMA PatchedIsATree ==
  ASSUME TypeOK, NEW S \in SUBSET Fix, NEW made \in SUBSET S
  PROVE  Patched(S, made) \in Tree
<1>1. ASSUME NEW file \in File, In(file, S) # {} PROVE First(In(file, S)) \in Fix
  <2>1. In(file, S) \subseteq Fix /\ Fix \subseteq Nat
    BY FixAssumption DEF In
  <2>2. QED
    BY <1>1, <2>1, FirstIsOne
<1>2. \A file \in File : In(file, made) \subseteq Fix
  BY DEF In
<1>3. 0 \in Version /\ files \in [File -> Version] /\ base \in [Fix -> Version]
  BY FixAssumption DEF TypeOK, Version
<1>4. QED
  BY <1>1, <1>2, <1>3 DEF Patched, Tree

(* A fix is made in the text it was computed from, unless it is tried with one of its *)
(* file that was made from another.                                                   *)
LEMMA MadeInItsText ==
  ASSUME NEW S \in SUBSET Fix, NEW made \in SUBSET S, NEW f \in S, ~Stale(S)
  PROVE  Patched(S, made)[FileOf[f]].version = base[f]
<1>1. f \in In(FileOf[f], S) /\ FileOf[f] \in File
  BY FixAssumption DEF In
<1>2. In(FileOf[f], S) \in SUBSET Nat
  BY FixAssumption DEF In
<1>3. First(In(FileOf[f], S)) \in In(FileOf[f], S)
  BY <1>1, <1>2, FirstIsOne
<1>4. base[First(In(FileOf[f], S))] = base[f]
  BY <1>3 DEF In, Stale
<1>5. QED
  BY <1>1, <1>4 DEF Patched

(* Fix f held up in the text it was made from, in a verification that was passed. *)
InItsText(v, f) == f \in v.fixes /\ (v.texts[FileOf[f]] = base[f] \/ Stale(v.fixes))

(* A verification is about the fixes it was asked about, tries each in its text, and has *)
(* a suite's result exactly when a suite was asked for and the copy was audited.         *)
LEMMA VerificationOfIts ==
  ASSUME TypeOK, NEW S \in SUBSET Fix, NEW v \in Verifications(S)
  PROVE  /\ v \in Verification /\ v.fixes = S
         /\ ~v.problem => (v.suite # "none" <=> command) /\ \A f \in S : InItsText(v, f)
<1>1. CASE v = Problem(S)
  <2>1. [file \in File |-> 0] \in [File -> Version]
    BY FixAssumption DEF Version
  <2>2. QED
    BY <1>1, <2>1 DEF Problem, NoVerification, Verification, Suites
<1>2. ASSUME NEW tree \in Outcomes(S), NEW crashed \in Crashes, NEW suite \in SuiteResults,
             v = Judged(S, tree, crashed, suite)
      PROVE  /\ v \in Verification /\ v.fixes = S
             /\ ~v.problem => (v.suite # "none" <=> command) /\ \A f \in S : InItsText(v, f)
  <2>1. PICK made \in SUBSET S : tree = Patched(S, made)
    BY <1>2 DEF Outcomes
  <2>2. tree \in Tree
    BY <2>1, PatchedIsATree
  <2>3. Engine(world, tree) \subseteq Finding /\ world \in Worlds
    BY <2>2, FixAssumption DEF TypeOK
  <2>4. suite \in Suites /\ (suite # "none" <=> command)
    BY <1>2 DEF SuiteResults, Suites, TypeOK
  <2>5. StillPresent(S, Engine(world, tree) \ crashed) \subseteq Fix
    BY DEF StillPresent
  <2>6. [file \in File |-> tree[file].version] \in [File -> Version]
    BY <2>2 DEF Tree
  <2>7. ASSUME NEW f \in S PROVE InItsText(v, f)
    <3>1. FileOf[f] \in File
      BY FixAssumption
    <3>2. v.texts[FileOf[f]] = tree[FileOf[f]].version /\ v.fixes = S
      BY <1>2, <3>1 DEF Judged
    <3>3. QED
      BY <2>1, <3>2, MadeInItsText DEF InItsText
  <2>8. v \in Verification /\ v.fixes = S /\ v.suite = suite
    BY <1>2, <2>3, <2>4, <2>5, <2>6 DEF Judged, Verification
  <2>9. QED
    BY <2>4, <2>7, <2>8
<1>3. QED
  BY <1>1, <1>2 DEF Verifications

-----------------------------------------------------------------------------
(* Types. *)

(* What is still to be verified alone was proposed. *)
Types == TypeOK /\ (at = "alone" => todo \subseteq proposed)

LEMMA InitTypes == Init => Types
<1> SUFFICES ASSUME Init PROVE Types
  OBVIOUS
<1>1. 0 \in Version /\ files \in [File -> Version] /\ base \in [Fix -> Version]
  BY FixAssumption DEF Init, Version
<1>2. [file \in File |-> [version |-> 0, applied |-> {}]] \in Tree
  BY <1>1 DEF Tree
<1>3. before \subseteq Finding /\ todo \subseteq Fix
  BY <1>2, FixAssumption DEF Init
<1>4. NoVerification \in Verification
  BY <1>1, FixAssumption DEF NoVerification, Verification, Suites, Version
<1>5. at = "proposing" /\ rejected = {} /\ batch \in Verification /\ cost = 0 /\ passed = {}
      /\ proposed = {} /\ accepted = {} /\ printed = {}
  BY <1>4 DEF Init
<1>6. world \in Worlds /\ check \in BOOLEAN /\ command \in BOOLEAN
  BY DEF Init
<1>7. QED
  BY <1>1, <1>3, <1>5, <1>6 DEF TypeOK, Types

LEMMA TypesKept == Types /\ [Next]_vars => Types'
<1> SUFFICES ASSUME TypeOK, at = "alone" => todo \subseteq proposed, [Next]_vars PROVE Types'
  BY DEF Types
<1> USE DEF report, run, Types
<1>1. ASSUME todo # {} PROVE First(todo) \in todo /\ First(todo) \in Fix
  <2>1. todo \subseteq Fix /\ todo \in SUBSET Nat
    BY FixAssumption DEF TypeOK
  <2>2. QED
    BY <1>1, <2>1, FirstIsOne
<1>2. ASSUME NEW S \in SUBSET Fix, NEW v \in Verifications(S), Tried(v)
      PROVE  v \in Verification /\ v.fixes = S /\ passed' \subseteq Verification /\ cost' \in Nat
  BY <1>2, VerificationOfIts DEF Tried, TypeOK
<1>3. CASE SomebodyEdits
  <2>1. PICK file \in File : files[file] < MaxEdits /\ files' = [files EXCEPT ![file] = @ + 1]
    BY <1>3 DEF SomebodyEdits
  <2>2. files[file] + 1 \in Version
    BY <2>1, FixAssumption DEF TypeOK, Version
  <2>3. files' \in [File -> Version]
    BY <2>1, <2>2 DEF TypeOK
  <2>4. QED
    BY <1>3, <2>3 DEF SomebodyEdits, TypeOK
<1>4. CASE Propose
  <2>1. files[FileOf[First(todo)]] \in Version
    BY <1>1, <1>4, FixAssumption DEF Propose, TypeOK
  <2>2. QED
    BY <1>1, <1>4, <2>1 DEF Propose, TypeOK
<1>5. CASE Refuse
  BY <1>5 DEF Refuse, TypeOK
<1>6. CASE Proposed
  BY <1>6 DEF Proposed, TypeOK
<1>7. CASE VerifyBatch
  <2>1. PICK v \in Verifications(proposed) : Tried(v) /\ batch' = v /\ Split(v)
    BY <1>7 DEF VerifyBatch
  <2>2. v \in Verification /\ passed' \subseteq Verification /\ cost' \in Nat
    BY <1>2, <2>1 DEF TypeOK
  <2>3. at' \in {"reporting", "alone"} /\ todo' \subseteq proposed /\ accepted' \subseteq proposed
    BY <2>1 DEF Split
  <2>4. QED
    BY <1>7, <2>1, <2>2, <2>3 DEF VerifyBatch, TypeOK
<1>8. CASE VerifyAlone
  <2>1. First(todo) \in todo /\ {First(todo)} \in SUBSET Fix
    BY <1>1, <1>8 DEF VerifyAlone
  <2>2. PICK v \in Verifications({First(todo)}) :
          /\ Tried(v)
          /\ IF Accepted(v) THEN accepted' = accepted \cup {First(todo)} /\ UNCHANGED rejected
             ELSE rejected' = rejected \cup {v} /\ UNCHANGED accepted
    BY <1>8 DEF VerifyAlone
  <2>3. v \in Verification /\ passed' \subseteq Verification /\ cost' \in Nat
    BY <1>2, <2>1, <2>2
  <2>4. QED
    BY <1>8, <2>1, <2>2, <2>3 DEF VerifyAlone, TypeOK
<1>9. CASE Survivors
  BY <1>9 DEF Survivors, TypeOK
<1>10. CASE VerifyTogether
  <2>1. PICK v \in Verifications(accepted) :
          /\ Tried(v) /\ batch' = v
          /\ IF Accepted(v) THEN UNCHANGED <<accepted, rejected>> ELSE Drop(v)
    BY <1>10 DEF VerifyTogether
  <2>2. v \in Verification /\ passed' \subseteq Verification /\ cost' \in Nat
    BY <1>2, <2>1 DEF TypeOK
  <2>3. QED
    BY <1>10, <2>1, <2>2 DEF VerifyTogether, Drop, TypeOK
<1>11. CASE PrintPatch
  BY <1>11 DEF PrintPatch, TypeOK
<1>12. CASE Raise
  BY <1>12 DEF Raise, TypeOK
<1>13. CASE UNCHANGED vars
  BY <1>13 DEF vars, TypeOK
<1>14. QED
  BY <1>3, <1>4, <1>5, <1>6, <1>7, <1>8, <1>9, <1>10, <1>11, <1>12, <1>13 DEF Next

(* Every variable keeps its type, whatever is edited and whatever fails. *)
THEOREM TypeCorrect == Spec => []TypeOK
<1>1. Types => TypeOK
  BY DEF Types
<1>2. QED
  BY <1>1, InitTypes, TypesKept, PTL DEF Spec

-----------------------------------------------------------------------------
(* The report. *)

Rejected == UNION {v.fixes : v \in rejected}

(* What the report says so far of the fixes it has dealt with.  Once the batch failed,   *)
(* every fix accepted passed alone and every other one was rejected, or is still to try. *)
Told ==
  /\ at \in {"proposing", "batch"} => rejected = {}
  /\ at \in {"batch", "alone", "together"} => check
  /\ at = "alone" => proposed = accepted \cup Rejected \cup todo
  /\ at \in {"together", "reporting", "over"} /\ check => proposed = accepted \cup Rejected

Held ==
  /\ at \in {"alone", "together"} => ~Accepted(batch)
  /\ at \in {"alone", "together", "reporting", "over"} /\ check =>
       \A f \in accepted : \E v \in passed : InItsText(v, f)
  /\ at \in {"reporting", "over"} /\ check /\ accepted # {} /\ Accepted(batch) =>
       batch.fixes = accepted /\ batch \in passed
  /\ at = "over" => printed = accepted \ Conditional

LEMMA RejectedGrows ==
  ASSUME NEW v, rejected' = rejected \cup {v} PROVE Rejected' = Rejected \cup v.fixes
BY DEF Rejected

LEMMA ToldKept == Types /\ Told /\ [Next]_vars => Told'
<1> SUFFICES ASSUME Types, Told, [Next]_vars PROVE Told'
  OBVIOUS
<1> USE DEF report, run
<1>1. CASE \/ SomebodyEdits \/ Refuse \/ Propose \/ PrintPatch \/ Raise \/ UNCHANGED vars
  BY <1>1 DEF SomebodyEdits, Refuse, Propose, PrintPatch, Raise, vars, Told, Rejected
<1>2. CASE Proposed
  BY <1>2 DEF Proposed, Told, Rejected
<1>3. CASE VerifyBatch
  BY <1>3 DEF VerifyBatch, Split, Told, Rejected
<1>4. CASE VerifyAlone
  <2>1. First(todo) \in todo
    <3>1. todo \in SUBSET Nat /\ todo # {}
      BY <1>4, FixAssumption DEF VerifyAlone, Types, TypeOK
    <3>2. QED
      BY <3>1, FirstIsOne
  <2>2. PICK v \in Verifications({First(todo)}) :
          \/ accepted' = accepted \cup {First(todo)} /\ rejected' = rejected
          \/ rejected' = rejected \cup {v} /\ accepted' = accepted
    BY <1>4 DEF VerifyAlone
  <2>3. v.fixes = {First(todo)}
    BY <2>1, <2>2, VerificationOfIts DEF Types, TypeOK
  <2>4. accepted' \cup Rejected' = accepted \cup Rejected \cup {First(todo)}
    BY <2>2, <2>3, RejectedGrows DEF Rejected
  <2>5. at' = "alone" /\ at = "alone" /\ check' = check /\ todo' = todo \ {First(todo)}
        /\ proposed' = proposed
    BY <1>4 DEF VerifyAlone
  <2>6. QED
    BY <2>1, <2>4, <2>5 DEF Told
<1>5. CASE Survivors
  BY <1>5 DEF Survivors, Told, Rejected
<1>6. CASE VerifyTogether
  <2>1. PICK v \in Verifications(accepted) :
          \/ accepted' = accepted /\ rejected' = rejected
          \/ rejected' = rejected \cup {v} /\ accepted' = {}
    BY <1>6 DEF VerifyTogether, Drop
  <2>2. v.fixes = accepted
    BY <2>1, VerificationOfIts DEF Types, TypeOK
  <2>3. accepted' \cup Rejected' = accepted \cup Rejected
    BY <2>1, <2>2, RejectedGrows DEF Rejected
  <2>4. at' = "reporting" /\ at = "together" /\ check' = check /\ proposed' = proposed
    BY <1>6 DEF VerifyTogether
  <2>5. QED
    BY <2>3, <2>4 DEF Told
<1>7. QED
  BY <1>1, <1>2, <1>3, <1>4, <1>5, <1>6 DEF Next

LEMMA HeldKept == Types /\ Told /\ Held /\ [Next]_vars => Held'
<1> SUFFICES ASSUME Types, Told, Held, [Next]_vars PROVE Held'
  OBVIOUS
<1> USE DEF report, run
<1>1. ASSUME NEW S \in SUBSET Fix, NEW v \in Verifications(S), Tried(v)
      PROVE  /\ passed \subseteq passed' /\ v.fixes = S
             /\ Accepted(v) => v \in passed' /\ \A f \in S : InItsText(v, f)
  <2>1. v.fixes = S /\ (~v.problem => \A f \in S : InItsText(v, f))
    BY <1>1, VerificationOfIts DEF Types
  <2>2. QED
    BY <1>1, <2>1 DEF Tried, Accepted
<1>2. ASSUME base' = base, NEW v, NEW f, InItsText(v, f) PROVE InItsText(v, f)'
  BY <1>2 DEF InItsText, Stale
<1>3. CASE \/ SomebodyEdits \/ Refuse \/ Propose \/ PrintPatch \/ Raise \/ UNCHANGED vars
  BY <1>3 DEF SomebodyEdits, Refuse, Propose, PrintPatch, Raise, vars, Held, Accepted,
              InItsText, Stale
<1>4. CASE Proposed
  BY <1>4 DEF Proposed, Held, Types, TypeOK
<1>5. CASE VerifyBatch
  <2>1. PICK v \in Verifications(proposed) : Tried(v) /\ batch' = v /\ Split(v)
    BY <1>5 DEF VerifyBatch
  <2>2. /\ v.fixes = proposed
        /\ Accepted(v) => v \in passed' /\ \A f \in proposed : InItsText(v, f)
    BY <1>1, <2>1 DEF Types, TypeOK
  <2>3. base' = base
    BY <1>5 DEF VerifyBatch
  <2>4. CASE Accepted(v)
    <3>1. at' = "reporting" /\ accepted' = proposed
      BY <2>1, <2>4 DEF Split
    <3>2. \A f \in accepted' : InItsText(v, f)'
      BY <1>2, <2>2, <2>3, <2>4, <3>1
    <3>3. QED
      BY <2>1, <2>2, <2>4, <3>1, <3>2 DEF Held
  <2>5. CASE ~Accepted(v)
    <3>1. at' = "alone" /\ accepted' = {}
      BY <2>1, <2>5 DEF Split
    <3>2. ~Accepted(batch)'
      BY <2>1, <2>5 DEF Accepted
    <3>3. QED
      BY <3>1, <3>2 DEF Held
  <2>6. QED
    BY <2>4, <2>5
<1>6. CASE VerifyAlone
  <2>1. First(todo) \in todo
    <3>1. todo \in SUBSET Nat /\ todo # {}
      BY <1>6, FixAssumption DEF VerifyAlone, Types, TypeOK
    <3>2. QED
      BY <3>1, FirstIsOne
  <2>2. PICK v \in Verifications({First(todo)}) :
          /\ Tried(v)
          /\ \/ Accepted(v) /\ accepted' = accepted \cup {First(todo)}
             \/ accepted' = accepted
    BY <1>6 DEF VerifyAlone
  <2>3. /\ passed \subseteq passed'
        /\ Accepted(v) => v \in passed' /\ InItsText(v, First(todo))
    BY <1>1, <2>1, <2>2 DEF Types, TypeOK
  <2>4. \A f \in accepted : \E w \in passed : InItsText(w, f)
    BY <1>6 DEF VerifyAlone, Held, Told
  <2>5. \A f \in accepted' : \E w \in passed' : InItsText(w, f)
    BY <2>2, <2>3, <2>4
  <2>6. at = "alone" /\ at' = "alone" /\ batch' = batch /\ base' = base
    BY <1>6 DEF VerifyAlone
  <2>7. \A f \in accepted' : \E w \in passed' : InItsText(w, f)'
    BY <1>2, <2>5, <2>6
  <2>8. ~Accepted(batch)'
    BY <2>6 DEF Held, Accepted
  <2>9. QED
    BY <2>6, <2>7, <2>8 DEF Held
<1>7. CASE Survivors
  BY <1>7 DEF Survivors, Held, Accepted, InItsText, Stale
<1>8. CASE VerifyTogether
  <2>1. PICK v \in Verifications(accepted) :
          /\ Tried(v) /\ batch' = v
          /\ Accepted(v) => accepted' = accepted
          /\ ~Accepted(v) => accepted' = {}
    BY <1>8 DEF VerifyTogether, Drop
  <2>2. /\ passed \subseteq passed' /\ v.fixes = accepted
        /\ Accepted(v) => v \in passed' /\ \A f \in accepted : InItsText(v, f)
    BY <1>1, <2>1 DEF Types, TypeOK
  <2>3. at' = "reporting" /\ base' = base
    BY <1>8 DEF VerifyTogether
  <2>4. CASE Accepted(v)
    <3>1. \A f \in accepted' : InItsText(v, f)'
      BY <1>2, <2>1, <2>2, <2>3, <2>4
    <3>2. QED
      BY <2>1, <2>2, <2>3, <2>4, <3>1 DEF Held
  <2>5. CASE ~Accepted(v)
    BY <2>1, <2>3, <2>5 DEF Held
  <2>6. QED
    BY <2>4, <2>5
<1>9. QED
  BY <1>3, <1>4, <1>5, <1>6, <1>7, <1>8 DEF Next

LEMMA ReportIsRight == Spec => [](Types /\ Told /\ Held)
<1>1. Init => Told /\ Held
  BY DEF Init, Told, Held
<1>2. QED
  BY <1>1, InitTypes, TypesKept, ToldKept, HeldKept, PTL DEF Spec

(* Every proposed fix is accepted, or rejected with a verification that names it *)
(* (NothingGoesMissing).                                                         *)
THEOREM EveryFixIsAccountedFor == Spec => []NothingGoesMissing
<1>1. Told => NothingGoesMissing
  BY DEF Told, NothingGoesMissing, Rejected
<1>2. QED
  BY <1>1, ReportIsRight, PTL

(* A fix that ships held up in the text it was made from, or was tried with one of its *)
(* file that was made from another (ShippedHeldUpInItsText).                           *)
THEOREM NoneShipsUntried == Spec => []ShippedHeldUpInItsText
<1>1. Held => ShippedHeldUpInItsText
  BY DEF Held, ShippedHeldUpInItsText, InItsText
<1>2. QED
  BY <1>1, ReportIsRight, PTL

(* "static" and "tested" were earned by one copy that was passed and held every change *)
(* that is printed, beside none but the conditional ones; and "tested" is said exactly  *)
(* when the suite passed there (LevelIsOfWhatShips).                                    *)
THEOREM AssuranceIsEarned == Spec => []LevelIsOfWhatShips
<1>1. Types /\ Held => LevelIsOfWhatShips
  <2> SUFFICES ASSUME Types, Held, at = "over", printed # {}, Level \in {"static", "tested"}
               PROVE  \E v \in passed :
                         /\ printed \subseteq v.fixes /\ v.fixes \ printed \subseteq Conditional
                         /\ Level = "tested" <=> v.suite = "passed"
    BY DEF LevelIsOfWhatShips
  <2>1. check /\ accepted # {} /\ Level = Confidence(batch)
    BY DEF Level, Types, TypeOK
  <2>2. /\ Accepted(batch)
        /\ Level = "tested" <=> batch.suite # "none"
    BY <2>1 DEF Confidence
  <2>3. batch.fixes = accepted /\ batch \in passed /\ printed = accepted \ Conditional
    BY <2>1, <2>2 DEF Held
  <2>4. batch.suite # "none" <=> batch.suite = "passed"
    BY <2>2 DEF Accepted, Types, TypeOK, Verification, Suites
  <2>5. QED
    BY <2>2, <2>3, <2>4
<1>2. QED
  BY <1>1, ReportIsRight, PTL

-----------------------------------------------------------------------------
(* The price.  Until the batch is verified nothing was paid; while fixes are tried one *)
(* by one only sets of one have passed, and each fix still to try costs one run more.  *)
Single(S) == \E f \in Fix : S = {f}

Paid ==
  /\ at \in {"proposing", "batch"} => cost = 0 /\ passed = {}
  /\ at = "alone" => cost + Cardinality(todo) <= Cardinality(proposed) + 1
  /\ at = "together" => cost <= Cardinality(proposed) + 1 /\ accepted # proposed
  /\ at \in {"alone", "together"} => \A w \in passed : Single(w.fixes)
  /\ PrecisionIsPaidForWhenNeeded

LEMMA FixesAreCounted ==
  ASSUME NEW S \in SUBSET Fix
  PROVE  /\ IsFiniteSet(S) /\ Cardinality(S) \in Nat
         /\ Single(S) => Cardinality(S) = 1
         /\ \A f \in S : Cardinality(S \ {f}) = Cardinality(S) - 1
<1>1. IsFiniteSet(S)
  BY FixAssumption, FS_Subset
<1>2. Cardinality(S) \in Nat
  BY <1>1, FS_CardinalityType
<1>3. ASSUME NEW f \in Fix, S = {f} PROVE Cardinality(S) = 1
  BY <1>3, FS_Singleton
<1>4. ASSUME NEW f \in S PROVE Cardinality(S \ {f}) = Cardinality(S) - 1
  BY <1>1, FS_RemoveElement
<1>5. QED
  BY <1>1, <1>2, <1>3, <1>4 DEF Single

(* A verification costs one run, and passes nothing but itself. *)
LEMMA OneRunEach ==
  ASSUME TypeOK, NEW S \in SUBSET Fix, NEW v \in Verifications(S), Tried(v)
  PROVE  /\ cost' \in Nat /\ cost' <= cost + 1 /\ (cost = 0 => cost' = 1)
         /\ \A w \in passed' : w \in passed \/ w.fixes = S
         /\ ~Accepted(v) => passed' = passed
<1>1. v.fixes = S
  BY VerificationOfIts
<1>2. (\A w \in passed' : w \in passed \/ w.fixes = S) /\ (~Accepted(v) => passed' = passed)
  BY <1>1 DEF Tried, Accepted
<1>3. Cardinality(Fix) \in Nat
  BY FixesAreCounted
<1>4. cost \in Nat /\ cost' = IF cost > Cardinality(Fix) + 2 THEN cost ELSE cost + 1
  BY DEF TypeOK, Tried
<1>5. cost' \in Nat /\ cost' <= cost + 1 /\ (cost = 0 => cost' = 1)
  BY <1>3, <1>4
<1>6. QED
  BY <1>2, <1>5

LEMMA PaidKept == Types /\ Paid /\ [Next]_vars => Paid'
<1> SUFFICES ASSUME Types, Paid, [Next]_vars PROVE Paid'
  OBVIOUS
<1> USE DEF report, run, PrecisionIsPaidForWhenNeeded
<1>1. cost \in Nat /\ Cardinality(proposed) \in Nat /\ Cardinality(todo) \in Nat
      /\ proposed \in SUBSET Fix /\ todo \in SUBSET Fix /\ accepted \in SUBSET Fix
  <2>1. proposed \in SUBSET Fix /\ todo \in SUBSET Fix /\ accepted \in SUBSET Fix /\ cost \in Nat
    BY DEF Types, TypeOK
  <2>2. QED
    BY <2>1, FixesAreCounted
<1>2. CASE Propose
  <2>1. First(todo) \in Fix
    <3>1. todo \in SUBSET Nat /\ todo # {}
      BY <1>1, <1>2, FixAssumption DEF Propose
    <3>2. QED
      BY <1>1, <3>1, FirstIsOne
  <2>2. Cardinality(proposed') \in Nat
    BY <1>1, <1>2, <2>1, FixesAreCounted DEF Propose
  <2>3. at = "proposing" /\ at' = "proposing" /\ cost' = cost /\ passed' = passed
    BY <1>2 DEF Propose
  <2>4. QED
    BY <2>2, <2>3 DEF Paid
<1>3. CASE SomebodyEdits \/ UNCHANGED vars
  BY <1>3 DEF SomebodyEdits, vars, Paid
<1>4. CASE Refuse
  BY <1>4 DEF Refuse, Paid
<1>5. CASE Proposed
  BY <1>5 DEF Proposed, Paid
<1>6. CASE VerifyBatch
  <2>1. PICK v \in Verifications(proposed) : Tried(v) /\ Split(v)
    BY <1>6 DEF VerifyBatch
  <2>2. cost' = 1 /\ (~Accepted(v) => passed' = {})
    BY <1>1, <1>6, <2>1, OneRunEach DEF VerifyBatch, Paid, Types
  <2>3. proposed' = proposed
    BY <1>6 DEF VerifyBatch
  <2>4. CASE Accepted(v)
    <3>1. at' = "reporting"
      BY <2>1, <2>4 DEF Split
    <3>2. QED
      BY <1>1, <2>2, <2>3, <3>1 DEF Paid
  <2>5. CASE ~Accepted(v)
    <3>1. at' = "alone" /\ todo' = proposed
      BY <2>1, <2>5 DEF Split
    <3>2. QED
      BY <1>1, <2>2, <2>3, <2>5, <3>1 DEF Paid
  <2>6. QED
    BY <2>4, <2>5
<1>7. CASE VerifyAlone
  <2>1. First(todo) \in todo
    <3>1. todo \in SUBSET Nat /\ todo # {}
      BY <1>1, <1>7, FixAssumption DEF VerifyAlone
    <3>2. QED
      BY <3>1, FirstIsOne
  <2>2. PICK v \in Verifications({First(todo)}) : Tried(v)
    BY <1>7 DEF VerifyAlone
  <2>3. cost' \in Nat /\ cost' <= cost + 1 /\ (\A w \in passed' : w \in passed \/ w.fixes = {First(todo)})
    BY <1>1, <2>1, <2>2, OneRunEach DEF Types
  <2>4. Cardinality(todo \ {First(todo)}) = Cardinality(todo) - 1 /\ Cardinality(todo) - 1 \in Nat
    <3>1. Cardinality(todo \ {First(todo)}) \in Nat
      BY <1>1, FixesAreCounted
    <3>2. QED
      BY <1>1, <2>1, <3>1, FixesAreCounted
  <2>5. at = "alone" /\ at' = "alone" /\ todo' = todo \ {First(todo)} /\ proposed' = proposed
    BY <1>7 DEF VerifyAlone
  <2>6. cost + Cardinality(todo) <= Cardinality(proposed) + 1
    BY <2>5 DEF Paid
  <2>7. cost' + Cardinality(todo') <= Cardinality(proposed') + 1
    BY <1>1, <2>3, <2>4, <2>5, <2>6
  <2>8. \A w \in passed' : Single(w.fixes)
    <3>1. Single({First(todo)})
      BY <1>1, <2>1 DEF Single
    <3>2. QED
      BY <2>3, <2>5, <3>1 DEF Paid
  <2>9. cost' <= Cardinality(proposed') + 2
    BY <1>1, <2>3, <2>4, <2>5, <2>6
  <2>10. (\E w \in passed' : w.fixes = proposed') => ~(Cardinality(proposed') > 1)
    BY <1>1, <2>5, <2>8, FixesAreCounted
  <2>11. QED
    BY <2>5, <2>7, <2>8, <2>9, <2>10 DEF Paid
<1>8. CASE Survivors
  <2>1. todo = {} /\ at = "alone" /\ Cardinality(todo) = 0
    BY <1>8, FS_EmptySet DEF Survivors
  <2>2. cost <= Cardinality(proposed) + 1 /\ \A w \in passed : Single(w.fixes)
    BY <1>1, <2>1 DEF Paid
  <2>3. at' = "together" => accepted # proposed
    BY <1>8 DEF Survivors
  <2>4. UNCHANGED <<todo, proposed, accepted, passed, cost>> /\ at' \in {"together", "reporting"}
    BY <1>8 DEF Survivors
  <2>5. QED
    BY <2>2, <2>3, <2>4 DEF Paid
<1>9. CASE VerifyTogether
  <2>1. PICK v \in Verifications(accepted) : Tried(v)
    BY <1>9 DEF VerifyTogether
  <2>2. cost' \in Nat /\ cost' <= cost + 1 /\ (\A w \in passed' : w \in passed \/ w.fixes = accepted)
    BY <1>1, <2>1, OneRunEach DEF Types
  <2>3. at = "together" /\ at' = "reporting" /\ proposed' = proposed
    BY <1>9 DEF VerifyTogether
  <2>4. cost <= Cardinality(proposed) + 1 /\ accepted # proposed /\ \A w \in passed : Single(w.fixes)
    BY <2>3 DEF Paid
  <2>5. (\E w \in passed' : w.fixes = proposed) => Cardinality(proposed) = 1
    BY <1>1, <2>2, <2>4, FixesAreCounted
  <2>6. cost' <= Cardinality(proposed) + 2
    BY <1>1, <2>2, <2>4
  <2>7. QED
    BY <2>3, <2>5, <2>6 DEF Paid
<1>10. CASE PrintPatch
  BY <1>10 DEF PrintPatch, Paid
<1>11. CASE Raise
  BY <1>11 DEF Raise, Paid
<1>12. QED
  BY <1>2, <1>3, <1>4, <1>5, <1>6, <1>7, <1>8, <1>9, <1>10, <1>11 DEF Next

(* A batch that passes costs one engine run, and one that fails at most one more per fix *)
(* and one for the survivors, whatever is edited meanwhile (PrecisionIsPaidForWhenNeeded). *)
THEOREM PrecisionCostsWhatItSays == Spec => []PrecisionIsPaidForWhenNeeded
<1>1. Init => Paid
  <2> SUFFICES ASSUME Init PROVE Paid
    OBVIOUS
  <2>1. at = "proposing" /\ cost = 0 /\ passed = {} /\ proposed = {}
    BY DEF Init
  <2>2. Cardinality(proposed) = 0
    BY <2>1, FS_EmptySet
  <2>3. QED
    BY <2>1, <2>2 DEF Paid, PrecisionIsPaidForWhenNeeded
<1>2. Paid => PrecisionIsPaidForWhenNeeded
  BY DEF Paid
<1>3. QED
  BY <1>1, <1>2, InitTypes, TypesKept, PaidKept, PTL DEF Spec
=============================================================================
