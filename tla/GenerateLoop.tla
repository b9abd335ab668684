---------------------------- MODULE GenerateLoop ----------------------------
(***************************************************************************)
(* `djaudit generate`: a model writes an app, the engine audits it in a    *)
(* disposable copy of the project, the model repairs it, and an accepted   *)
(* result is committed to the real project, which other people use too.    *)
(* A run may be killed at any point, and another is started afterwards.    *)
(*                                                                         *)
(* A version of the app is what the loop can tell of it: whether its text  *)
(* parses as it stands, what it declares, what is wrong with it, and how   *)
(* its suppression comments, if any, are spelled.  Problems are those at   *)
(* or above the loop's thresholds and inside the app.                      *)
(***************************************************************************)
EXTENDS Integers, FiniteSets, Sequences

CONSTANTS
  Names,          \* what an app can declare: classes, fields, functions
  Problem,        \* what a rule can find in an app; one rule each
  Reply,          \* the versions of the app the model may return
  Crashes,        \* the sets of rules that may raise during an audit
  MaxIterations   \* --max-iterations

Shapes == {"plain", "fenced", "broken"}

(* A suppression comment is spelled as one of loop.SUPPRESSIONS, or otherwise: another *)
(* case, a space before the colon.  suppression.py honours both.                       *)
Spellings == {"literal", "variant"}

App == [shape : Shapes, declares : SUBSET Names, problems : SUBSET Problem,
        silenced : SUBSET Problem, spelling : Spellings]

ASSUME GenerateAssumption == Reply \subseteq App /\ MaxIterations \in Nat

VARIABLES
  at,          \* start, asking, checking, judging, decided, writing, over or dead
  write,       \* --write rather than --dry-run
  files,       \* the version in hand
  iterations,  \* the versions audited, with what each audit found
  outcome,     \* Run.outcome
  exit,        \* the exit code, once over
  project      \* the app's directory in the real project: who wrote it, and what

vars == <<at, write, files, iterations, outcome, exit, project>>

OK == 0
FINDINGS == 1
ERROR == 2

Blank == [shape |-> "plain", declares |-> {}, problems |-> {}, silenced |-> {},
          spelling |-> "variant"]
NoApp == [by |-> "nobody", whole |-> FALSE, files |-> Blank]
Theirs == [by |-> "somebody", whole |-> TRUE, files |-> Blank]
Part == [by |-> "generate", whole |-> FALSE, files |-> Blank]
Ours(app) == [by |-> "generate", whole |-> TRUE, files |-> app]

Outcomes == {"clean", "exhausted", "stalled", "regressed", "suppressed", "unparseable", "declined"}
Writable == {"clean", "exhausted", "stalled"}

-----------------------------------------------------------------------------
(* ast.parse is given the reply as it came, fence and all. *)
Parses(app) == app.shape = "plain"

ContainsMarker(app) == app.silenced # {} /\ app.spelling = "literal"

(* engine.run, then in_app: a crashed rule finds nothing, a suppressed line neither. *)
Found(app, crashed) == app.problems \ (app.silenced \cup crashed)

(* What is left after write_app has stripped a fence. *)
AsWritten(app) == IF app.shape = "fenced" THEN [app EXCEPT !.shape = "plain"] ELSE app

Final == iterations[Len(iterations)]
Before == iterations[Len(iterations) - 1]

Lost(previous, later) == previous.files.declares \ later.files.declares # {}

ClearedNothing(previous, later) == previous.findings \subseteq later.findings

Regressed == Len(iterations) > 1 /\ Lost(Before, Final)
Clean == Final.findings = {}

(* Mutated: a repair stalls only when it brings back exactly the same findings. *)
StalledOnTheSame == Len(iterations) > 1 /\ Before.findings = Final.findings

Stalled == Len(iterations) > 1 /\ ClearedNothing(Before, Final)

-----------------------------------------------------------------------------
Init ==
  /\ at = "start" /\ write \in BOOLEAN
  /\ files = Blank /\ iterations = <<>> /\ outcome = "declined"
  /\ exit = OK
  /\ project = NoApp

(* Mutated: what a killed run left is not taken for an app. *)
ExistsWhole == project.whole

(* cli.generate asks for the directory of the app, not for what is in it. *)
Exists == project # NoApp

(* generate does not start over an app that exists. *)
Refuse ==
  /\ at = "start" /\ Exists
  /\ at' = "over" /\ exit' = ERROR
  /\ UNCHANGED <<write, files, iterations, outcome, project>>

AskFirst ==
  /\ at = "start" /\ ~Exists
  /\ at' = "asking"
  /\ UNCHANGED <<write, files, iterations, outcome, exit, project>>

Decide(o) == outcome' = o /\ at' = "decided"

(* range(1, max_iterations + 1) may be empty: the reply is dropped. *)
Replied ==
  /\ at = "asking"
  /\ \E app \in Reply : files' = app
  /\ at' = (IF Len(iterations) < MaxIterations THEN "checking" ELSE "decided")
  /\ UNCHANGED <<write, iterations, outcome, exit, project>>

DeclinedFirst ==
  /\ at = "asking" /\ iterations = <<>>
  /\ Decide("declined")
  /\ UNCHANGED <<write, files, iterations, exit, project>>

StoppedAnswering ==
  /\ at = "asking" /\ iterations # <<>>
  /\ Decide("exhausted")
  /\ UNCHANGED <<write, files, iterations, exit, project>>

Unparseable ==
  /\ at = "checking" /\ ~Parses(files)
  /\ Decide("unparseable")
  /\ UNCHANGED <<write, files, iterations, exit, project>>

Suppressed ==
  /\ at = "checking" /\ Parses(files) /\ ContainsMarker(files)
  /\ Decide("suppressed")
  /\ UNCHANGED <<write, files, iterations, exit, project>>

(* Mutated: only the latest pass is kept. *)
RecordedAlone(pass) == <<pass>>

Recorded(pass) == Append(iterations, pass)

Audit ==
  /\ at = "checking" /\ Parses(files) /\ ~ContainsMarker(files)
  /\ \E crashed \in Crashes :
        iterations' = Recorded([files |-> files, findings |-> Found(files, crashed)])
  /\ at' = "judging"
  /\ UNCHANGED <<write, files, outcome, exit, project>>

-----------------------------------------------------------------------------
(* The stopping conditions, in the order the code tries them. *)

Judge ==
  IF Regressed THEN "regressed"
  ELSE IF Clean THEN "clean"
  ELSE IF Stalled THEN "stalled"
  ELSE IF Len(iterations) = MaxIterations THEN "exhausted" ELSE "go on"

Stop ==
  /\ at = "judging" /\ Judge # "go on"
  /\ Decide(Judge)
  /\ UNCHANGED <<write, files, iterations, exit, project>>

AskAgain ==
  /\ at = "judging" /\ Judge = "go on"
  /\ at' = "asking"
  /\ UNCHANGED <<write, files, iterations, outcome, exit, project>>

-----------------------------------------------------------------------------
(* cli.generate: the exit code, and commit, which writes file after file. *)

(* Mutated: whatever was audited last may be written. *)
AuditedOnce == iterations # <<>>

Accepted == outcome \in Writable /\ iterations # <<>>

ExitCode == IF outcome = "declined" THEN ERROR ELSE IF outcome = "clean" THEN OK ELSE FINDINGS

Report ==
  /\ at = "decided" /\ (~Accepted \/ ~write)
  /\ at' = "over" /\ exit' = ExitCode
  /\ UNCHANGED <<write, files, iterations, outcome, project>>

BeginCommit ==
  /\ at = "decided" /\ Accepted /\ write
  /\ at' = "writing" /\ project' = Part
  /\ UNCHANGED <<write, files, iterations, outcome, exit>>

EndCommit ==
  /\ at = "writing"
  /\ project' = Ours(AsWritten(Final.files))
  /\ at' = "over" /\ exit' = ExitCode
  /\ UNCHANGED <<write, files, iterations, outcome>>

(* Killed, or a file that cannot be written. *)
Die ==
  /\ at \notin {"over", "dead"}
  /\ at' = "dead"
  /\ UNCHANGED <<write, files, iterations, outcome, exit, project>>

(* Somebody else creates an app of that name. *)
SomebodyWrites ==
  /\ project = NoApp
  /\ project' = Theirs
  /\ UNCHANGED <<at, write, files, iterations, outcome, exit>>

(* The command is run again, on the project as it was left. *)
RunAgain ==
  /\ at \in {"over", "dead"}
  /\ at' = "start" /\ write' \in BOOLEAN
  /\ files' = Blank /\ iterations' = <<>> /\ outcome' = "declined" /\ exit' = OK
  /\ UNCHANGED project

Work ==
  \/ Refuse \/ AskFirst \/ Replied \/ DeclinedFirst \/ StoppedAnswering
  \/ Unparseable \/ Suppressed \/ Audit \/ Stop \/ AskAgain
  \/ Report \/ BeginCommit \/ EndCommit

Next == Work \/ Die \/ RunAgain \/ SomebodyWrites

Spec == Init /\ [][Next]_vars

(* One thread; every question is answered or declined in time (http.HTTPProvider). *)
FairSpec == Spec /\ WF_vars(Work)

-----------------------------------------------------------------------------
(* Every variable keeps its type. *)
TypeOK ==
  /\ at \in {"start", "asking", "checking", "judging", "decided", "writing", "over", "dead"}
  /\ write \in BOOLEAN /\ exit \in {OK, FINDINGS, ERROR}
  /\ files \in Reply \cup {Blank}
  /\ iterations \in Seq([files : Reply, findings : SUBSET Problem])
  /\ Len(iterations) <= MaxIterations
  /\ outcome \in Outcomes
  /\ project \in {NoApp, Theirs, Part} \cup {Ours(app) : app \in App}

(* An accepted app still declares everything any earlier version declared: each repair *)
(* is compared only with the one before it, and none may lose anything (Surface).      *)
NothingIsLost ==
  outcome \in Writable =>
    \A i \in DOMAIN iterations : iterations[i].files.declares \subseteq Final.files.declares

(* The model is asked again only when its last repair cleared something: a run pays for *)
(* at most one repair that cleared nothing, its last (Outcome.STALLED).                 *)
EachCallBoughtProgress ==
  \A i \in 2..(Len(iterations) - 1) : iterations[i - 1].findings \ iterations[i].findings # {}

(* What a run writes is the last version it audited, of a run that neither lost a feature *)
(* nor carried a marker, and only under --write; and no run writes over what an earlier   *)
(* one wrote (commit).                                                                    *)
OnlyAcceptedWorkIsWritten ==
  [][project' # project /\ (project'.by = "generate" \/ project.by = "generate") =>
       /\ write /\ outcome \in Writable /\ iterations # <<>>
       /\ project'.whole => project'.files = AsWritten(Final.files)
       /\ Parses(Final.files) /\ ~ContainsMarker(Final.files)
       /\ project.by = "generate" => project = Part /\ at = "writing"]_vars

(* What a run that was killed while it wrote has left is never passed off as an app: no *)
(* later run builds on it, adds to it or reports a result over it (Refuse, write_app).  *)
HalfWrittenIsNeverPassedOff ==
  project = Part =>
    at \in {"writing", "dead", "start"} \/ (at = "over" /\ exit = ERROR)

(* "Suppressions are rejected outright": no accepted version silences a rule. *)
SuppressionsAreRejected == outcome \in Writable => Final.files.silenced = {}

(* Every run ends, however the model behaves. *)
TheLoopEnds == []<>(at \in {"over", "dead"})
=============================================================================
