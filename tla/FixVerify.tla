----------------------------- MODULE FixVerify -----------------------------
(***************************************************************************)
(* `djaudit fix --verify`: the fixes of one run are proposed, tried        *)
(* together in a disposable copy of the project, tried one by one when     *)
(* together they fail, and what survives is printed as a patch.  Whoever   *)
(* works on the project keeps editing it meanwhile.                        *)
(*                                                                         *)
(* A fix is the finding it targets, numbered in the order of the run.  A   *)
(* tree is, for each file, the version it was read at and the fixes made   *)
(* in it; what the rules have to say of a tree is Engine(world, tree).     *)
(***************************************************************************)
EXTENDS Integers, FiniteSets

CONSTANTS
  Fix,            \* findings whose fix their rule decided, in finding order
  Other,          \* the other findings
  File, FileOf,   \* the settings files; FileOf[f]: the file fix f rewrites
  Conditional,    \* the fixes that carry a `confirm`
  Crashes,        \* the sets of findings that crashing rules may withhold from a run
  Worlds,         \* what the project is like, for Engine to depend on
  Engine(_, _),   \* the findings of a tree
  MaxEdits        \* bound: times a file is edited while djaudit works

Finding == Fix \cup Other
Version == 0..MaxEdits
Tree == [File -> [version : Version, applied : SUBSET Fix]]

ASSUME FixAssumption ==
  /\ Fix \subseteq Nat /\ IsFiniteSet(Fix) /\ Fix \cap Other = {}
  /\ FileOf \in [Fix -> File] /\ Conditional \subseteq Fix
  /\ MaxEdits \in Nat
  /\ \A w \in Worlds, t \in Tree : Engine(w, t) \subseteq Finding

VARIABLES
  at,        \* proposing, batch, alone, together, reporting, over or dead
  world,
  check,     \* --verify, or --test-command
  command,   \* --test-command
  files,     \* the version each file of the project is at
  before,    \* what the run found
  todo,      \* findings still to propose a fix for, or to verify alone
  proposed,  \* fixes()
  base,      \* base[f]: the version fix f was made from (Fix.before)
  accepted, rejected, batch,   \* Report
  passed,    \* ghost: the verifications that were passed
  cost,      \* ghost: copies made and engine runs paid for
  printed    \* the changes printed as ready to apply

report == <<accepted, rejected, batch, passed, cost>>
run == <<world, check, command, before>>
vars == <<at, run, files, todo, proposed, base, report, printed>>

Suites == {"none", "passed", "failed"}

(* texts is a ghost: the version of each file the copy was patched from. *)
Verification == [fixes : SUBSET Fix, problem : BOOLEAN, still : SUBSET Fix,
                 introduced : SUBSET Finding, suite : Suites, texts : [File -> Version]]

NoVerification == [fixes |-> {}, problem |-> FALSE, still |-> {}, introduced |-> {},
                   suite |-> "none", texts |-> [file \in File |-> 0]]

First(S) == CHOOSE f \in S : \A g \in S : f <= g

-----------------------------------------------------------------------------
(* combined() starts from the text its first fix in a file was made from, and makes *)
(* every edit for that file at the offsets of its own.                              *)
In(file, S) == {f \in S : FileOf[f] = file}

(* Mutated: the edits are made in the text the project has by then. *)
PatchedAnew(S, made) ==
  [file \in File |-> [version |-> files[file], applied |-> In(file, made)]]

Patched(S, made) ==
  [file \in File |->
     IF In(file, S) = {} THEN [version |-> files[file], applied |-> {}]
     ELSE [version |-> base[First(In(file, S))], applied |-> In(file, made)]]

Stale(S) == \E f, g \in S : FileOf[f] = FileOf[g] /\ base[f] # base[g]

(* Edits at stale offsets land elsewhere, or raise. *)
Outcomes(S) == IF Stale(S) THEN {Patched(S, made) : made \in SUBSET S} ELSE {Patched(S, S)}

StillPresent(S, seen) == S \cap seen

Judged(S, tree, crashed, suite) ==
  LET seen == Engine(world, tree) \ crashed
  IN [fixes |-> S, problem |-> FALSE, still |-> StillPresent(S, seen),
      introduced |-> seen \ before, suite |-> suite,
      texts |-> [file \in File |-> tree[file].version]]

(* The copy cannot be made, or a file in it no longer parses. *)
Problem(S) == [NoVerification EXCEPT !.fixes = S, !.problem = TRUE]

SuiteResults == IF command THEN {"passed", "failed"} ELSE {"none"}

Verifications(S) ==
  {Problem(S)} \cup
  {Judged(S, tree, crashed, suite) : tree \in Outcomes(S), crashed \in Crashes,
                                     suite \in SuiteResults}

Accepted(v) == ~v.problem /\ v.still = {} /\ v.introduced = {} /\ v.suite # "failed"

(* Mutated: the level is of what was tried, whether or not it held. *)
ConfidenceOfTheAttempt(v) == IF v.suite # "none" THEN "tested" ELSE "static"

Confidence(v) ==
  IF ~Accepted(v) THEN "failed" ELSE IF v.suite # "none" THEN "tested" ELSE "static"

Level ==
  IF ~check \/ proposed = {} THEN "unchecked"
  ELSE IF accepted = {} THEN "failed" ELSE Confidence(batch)

-----------------------------------------------------------------------------
Init ==
  /\ at = "proposing"
  /\ world \in Worlds /\ check \in BOOLEAN /\ command \in BOOLEAN /\ (command => check)
  /\ files = [file \in File |-> 0]
  /\ \E crashed \in Crashes :
        before = Engine(world, [file \in File |-> [version |-> 0, applied |-> {}]]) \ crashed
  /\ todo = before \cap Fix
  /\ proposed = {} /\ base = [f \in Fix |-> 0]
  /\ accepted = {} /\ rejected = {} /\ batch = NoVerification /\ passed = {} /\ cost = 0
  /\ printed = {}

(* Somebody saves a settings file. *)
SomebodyEdits ==
  /\ at \notin {"over", "dead"}
  /\ \E file \in File :
        files[file] < MaxEdits /\ files' = [files EXCEPT ![file] = @ + 1]
  /\ UNCHANGED <<at, run, todo, proposed, base, report, printed>>

Propose ==
  /\ at = "proposing" /\ todo # {}
  /\ proposed' = proposed \cup {First(todo)}
  /\ base' = [base EXCEPT ![First(todo)] = files[FileOf[First(todo)]]]
  /\ todo' = todo \ {First(todo)}
  /\ UNCHANGED <<at, run, files, report, printed>>

(* The file moved on, the value is already right, or it cannot be located exactly. *)
Refuse ==
  /\ at = "proposing" /\ todo # {}
  /\ todo' = todo \ {First(todo)}
  /\ UNCHANGED <<at, run, files, proposed, base, report, printed>>

Proposed ==
  /\ at = "proposing" /\ todo = {}
  /\ IF check /\ proposed # {}
     THEN at' = "batch" /\ UNCHANGED accepted
     ELSE at' = "reporting" /\ accepted' = proposed
  /\ UNCHANGED <<run, files, todo, proposed, base, rejected, batch, passed, cost, printed>>

-----------------------------------------------------------------------------
(* verify() raises nothing but EditError, out of combined(), and no caller catches it. *)
Tried(v) ==
  /\ passed' = (IF ~v.problem /\ v.still = {} /\ v.introduced = {} /\ v.suite # "failed"
                THEN passed \cup {v} ELSE passed)
  /\ cost' = IF cost > Cardinality(Fix) + 2 THEN cost ELSE cost + 1

Split(v) ==
  IF Accepted(v)
  THEN at' = "reporting" /\ todo' = {} /\ accepted' = proposed
  ELSE at' = "alone" /\ todo' = proposed /\ accepted' = {}

VerifyBatch ==
  /\ at = "batch"
  /\ \E v \in Verifications(proposed) : Tried(v) /\ batch' = v /\ Split(v)
  /\ UNCHANGED <<run, files, proposed, base, rejected, printed>>

VerifyAlone ==
  /\ at = "alone" /\ todo # {}
  /\ todo' = todo \ {First(todo)}
  /\ \E v \in Verifications({First(todo)}) :
        /\ Tried(v)
        /\ IF Accepted(v) THEN accepted' = accepted \cup {First(todo)} /\ UNCHANGED rejected
           ELSE rejected' = rejected \cup {v} /\ UNCHANGED accepted
  /\ UNCHANGED <<at, run, files, proposed, base, batch, printed>>

(* The survivors are verified as a set only when some fix was dropped. *)
Survivors ==
  /\ at = "alone" /\ todo = {}
  /\ at' = IF accepted # {} /\ accepted # proposed THEN "together" ELSE "reporting"
  /\ UNCHANGED <<run, files, todo, proposed, base, report, printed>>

Drop(v) == rejected' = rejected \cup {v} /\ accepted' = {}

VerifyTogether ==
  /\ at = "together"
  /\ \E v \in Verifications(accepted) :
        /\ Tried(v) /\ batch' = v
        /\ IF Accepted(v) THEN UNCHANGED <<accepted, rejected>> ELSE Drop(v)
  /\ at' = "reporting"
  /\ UNCHANGED <<run, files, todo, proposed, base, printed>>

PrintPatch ==
  /\ at = "reporting"
  /\ printed' = accepted \ Conditional
  /\ at' = "over"
  /\ UNCHANGED <<run, files, todo, proposed, base, report>>

(* EditError: the edits for one file overlap, or end past its end. *)
Raise ==
  /\ \/ at = "batch" /\ Stale(proposed)
     \/ at = "together" /\ Stale(accepted)
     \/ at = "reporting" /\ Stale(accepted \ Conditional)
  /\ at' = "dead"
  /\ UNCHANGED <<run, files, todo, proposed, base, report, printed>>

Next ==
  \/ SomebodyEdits \/ Propose \/ Refuse \/ Proposed
  \/ VerifyBatch \/ VerifyAlone \/ Survivors \/ VerifyTogether \/ PrintPatch \/ Raise

Spec == Init /\ [][Next]_vars

-----------------------------------------------------------------------------
(* Every variable keeps its type. *)
TypeOK ==
  /\ at \in {"proposing", "batch", "alone", "together", "reporting", "over", "dead"}
  /\ world \in Worlds /\ check \in BOOLEAN /\ command \in BOOLEAN
  /\ files \in [File -> Version] /\ base \in [Fix -> Version]
  /\ before \subseteq Finding
  /\ todo \subseteq Fix /\ proposed \subseteq Fix /\ accepted \subseteq proposed
  /\ rejected \subseteq Verification /\ batch \in Verification
  /\ passed \subseteq Verification /\ cost \in Nat /\ printed \subseteq proposed

(* Every fix that was proposed and verified is accepted, or is named in a verification *)
(* that says why it was dropped (cli.fix prints one line per rejection).               *)
NothingGoesMissing ==
  at \in {"reporting", "over"} /\ check =>
    proposed = accepted \cup UNION {v.fixes : v \in rejected}

(* A level of assurance is earned by one copy: every change printed as ready held in it *)
(* together, beside none but changes that are to be confirmed first, and the suite ran  *)
(* there if and only if the level says so (Verification.confidence, Report.confidence). *)
(* With nothing to confirm, that copy held what is printed and nothing else.            *)
LevelIsOfWhatShips ==
  at = "over" /\ printed # {} /\ Level \in {"static", "tested"} =>
    \E v \in passed :
       /\ printed \subseteq v.fixes /\ v.fixes \ printed \subseteq Conditional
       /\ Level = "tested" <=> v.suite = "passed"

(* A fix that ships held up, alone or with others, in the text it was made from, however  *)
(* the project was edited while it was tried; or it was tried with a fix of its file that *)
(* was made from another text (combined).                                                 *)
ShippedHeldUpInItsText ==
  check /\ at \in {"reporting", "over"} =>
    \A f \in accepted :
       \E v \in passed : f \in v.fixes /\ (v.texts[FileOf[f]] = base[f] \/ Stale(v.fixes))

(* A batch that passes costs one engine run, and a batch that fails at most one more per *)
(* fix and one for the survivors (verify.py, "Bisecting").                               *)
PrecisionIsPaidForWhenNeeded ==
  /\ cost <= Cardinality(proposed) + 2
  /\ Cardinality(proposed) > 1 /\ (\E v \in passed : v.fixes = proposed) => cost = 1

(* "Whatever ships is the set, so the set is what has to be checked -- and if it fails, *)
(* nothing ships."                                                                      *)
WhatShipsPassedTogether ==
  check /\ at = "over" /\ accepted # {} => \E v \in passed : v.fixes = accepted
=============================================================================
