------------------------- MODULE GenerateLoopProofs -------------------------
(* Theorems about GenerateLoop for every vocabulary, every set of replies a *)
(* model may give, every set of rules that may crash and every ceiling.     *)
EXTENDS GenerateLoop, SequenceTheorems, TLAPS

Pass == [files : Reply, findings : SUBSET Problem]

Underway == {"start", "asking", "checking", "judging"}

(* While the loop runs nothing is decided. *)
Stages ==
  /\ at \in Underway => outcome = "declined"
  /\ at = "start" => iterations = <<>>
  /\ at \in {"asking", "checking"} => files \in Reply \cup {Blank}
  /\ at = "checking" => files \in Reply /\ Len(iterations) < MaxIterations
  /\ at \in {"judging", "writing"} => iterations # <<>>
  /\ at = "asking" => Len(iterations) < MaxIterations \/ iterations = <<>>

Types ==
  /\ at \in {"start", "asking", "checking", "judging", "decided", "writing", "over", "dead"}
  /\ write \in BOOLEAN /\ exit \in {OK, FINDINGS, ERROR}
  /\ files \in Reply \cup {Blank}
  /\ iterations \in Seq(Pass)
  /\ Len(iterations) <= MaxIterations
  /\ outcome \in Outcomes
  /\ project \in {NoApp, Theirs, Part} \cup {Ours(app) : app \in App}

LEMMA TypesAreTypeOK == TypeOK <=> Types
BY DEF TypeOK, Types, Pass

(* Stripping a fence leaves a version of the app. *)
LEMMA WrittenIsAnApp ==
  ASSUME NEW app \in App
  PROVE  AsWritten(app) \in App
BY DEF AsWritten, App, Shapes

LEMMA FinalIsAPass ==
  ASSUME Types, iterations # <<>>
  PROVE  /\ Len(iterations) \in Nat \ {0}
         /\ Final \in Pass /\ Final.files \in App
<1>1. iterations \in Seq(Pass) /\ Len(iterations) \in Nat \ {0}
  BY EmptySeq, LenProperties DEF Types
<1>2. Final \in Pass
  BY <1>1, ElementOfSeq DEF Final
<1>3. QED
  BY <1>1, <1>2, GenerateAssumption DEF Pass

LEMMA TypesKept ==
  ASSUME Types, Stages, [Next]_vars
  PROVE  Types' /\ Stages'
<1> USE DEF Underway, Outcomes, OK, FINDINGS, ERROR
<1>1. CASE Refuse
  BY <1>1 DEF Refuse, Types, Stages
<1>2. CASE AskFirst
  BY <1>2 DEF AskFirst, Types, Stages, NoApp
<1>3. CASE Replied
  <2>1. files' \in Reply /\ at' \in {"checking", "decided"}
        /\ (at' = "checking" => Len(iterations) < MaxIterations)
        /\ UNCHANGED <<write, iterations, outcome, exit, project>>
    BY <1>3 DEF Replied
  <2>2. QED
    BY <1>3, <2>1 DEF Replied, Types, Stages
<1>4. CASE DeclinedFirst
  BY <1>4 DEF DeclinedFirst, Decide, Types, Stages
<1>5. CASE StoppedAnswering
  BY <1>5 DEF StoppedAnswering, Decide, Types, Stages
<1>6. CASE Unparseable
  BY <1>6 DEF Unparseable, Decide, Types, Stages
<1>7. CASE Suppressed
  BY <1>7 DEF Suppressed, Decide, Types, Stages
<1>8. CASE Audit
  <2>1. PICK crashed \in Crashes :
          iterations' = Append(iterations, [files |-> files, findings |-> Found(files, crashed)])
    BY <1>8 DEF Audit, Recorded
  <2>2. files \in Reply /\ files \in App
    BY <1>8, GenerateAssumption DEF Audit, Stages
  <2>3. [files |-> files, findings |-> Found(files, crashed)] \in Pass
    BY <2>2 DEF Found, Pass, App
  <2>4. iterations' \in Seq(Pass) /\ Len(iterations') = Len(iterations) + 1 /\ iterations' # <<>>
    BY <2>1, <2>3, AppendProperties DEF Types
  <2>5. Len(iterations') <= MaxIterations
    <3>1. Len(iterations) < MaxIterations /\ Len(iterations) \in Nat /\ MaxIterations \in Nat
      BY <1>8, GenerateAssumption, LenProperties DEF Audit, Stages, Types
    <3>2. QED
      BY <2>4, <3>1
  <2>6. QED
    BY <1>8, <2>4, <2>5 DEF Audit, Types, Stages
<1>9. CASE Stop
  BY <1>9 DEF Stop, Judge, Decide, Types, Stages
<1>10. CASE AskAgain
  <2>1. Len(iterations) # MaxIterations
    BY <1>10 DEF AskAgain, Judge
  <2>2. Len(iterations) < MaxIterations
    BY <2>1, GenerateAssumption, LenProperties DEF Types
  <2>3. QED
    BY <1>10, <2>2 DEF AskAgain, Types, Stages
<1>11. CASE Report
  BY <1>11 DEF Report, ExitCode, Types, Stages
<1>12. CASE BeginCommit
  BY <1>12 DEF BeginCommit, Accepted, Types, Stages
<1>13. CASE EndCommit
  <2>1. AsWritten(Final.files) \in App
    BY <1>13, FinalIsAPass, WrittenIsAnApp DEF EndCommit, Stages
  <2>2. QED
    BY <1>13, <2>1 DEF EndCommit, ExitCode, Types, Stages
<1>14. CASE Die
  BY <1>14 DEF Die, Types, Stages
<1>15. CASE SomebodyWrites
  BY <1>15 DEF SomebodyWrites, Types, Stages, Theirs
<1>16. CASE RunAgain
  <2>1. iterations' \in Seq(Pass) /\ Len(iterations') = 0
    BY <1>16, EmptySeq DEF RunAgain
  <2>2. Len(iterations') <= MaxIterations
    BY <2>1, GenerateAssumption
  <2>3. QED
    BY <1>16, <2>1, <2>2 DEF RunAgain, Types, Stages
<1>17. CASE UNCHANGED vars
  BY <1>17 DEF vars, Types, Stages
<1>18. QED
  BY <1>1, <1>2, <1>3, <1>4, <1>5, <1>6, <1>7, <1>8, <1>9, <1>10, <1>11, <1>12, <1>13,
     <1>14, <1>15, <1>16, <1>17 DEF Next, Work

LEMMA InitTypes == Init => Types /\ Stages
<1> SUFFICES ASSUME Init PROVE Types /\ Stages
  OBVIOUS
<1>1. iterations = <<>> /\ Len(iterations) = 0 /\ iterations \in Seq(Pass)
  BY EmptySeq DEF Init
<1>2. Stages
  BY <1>1 DEF Init, Stages, Underway, NoApp
<1>3. Len(iterations) <= MaxIterations
  BY <1>1, GenerateAssumption
<1>4. Types
  BY <1>1, <1>3 DEF Init, Types, Outcomes
<1>5. QED
  BY <1>2, <1>4

(* Every reachable state is well typed and no run exceeds the ceiling (TypeOK). *)
THEOREM TypeCorrect == Spec => []TypeOK
<1>1. Types /\ Stages /\ [Next]_vars => (Types /\ Stages)'
  BY TypesKept
<1>2. QED
  BY <1>1, InitTypes, TypesAreTypeOK, PTL DEF Spec

-----------------------------------------------------------------------------
(* Nothing is lost.  Between passes every version audited declares no more than the *)
(* last; while a pass is judged, no more than the one before it; and once the loop  *)
(* has stopped with a result that may be written, no more than the last again.      *)
UpTo(k, bound) == \A i \in 1..k : iterations[i].files.declares \subseteq bound.files.declares

Kept ==
  /\ at \in {"asking", "checking"} /\ iterations # <<>> => UpTo(Len(iterations), Final)
  /\ at = "judging" /\ Len(iterations) > 1 => UpTo(Len(iterations) - 1, Before)
  /\ outcome \in Writable => UpTo(Len(iterations), Final)

(* A pass that did not lose anything extends the chain. *)
LEMMA ChainGrows ==
  ASSUME Types, at = "judging", iterations # <<>>, Kept, ~Regressed
  PROVE  UpTo(Len(iterations), Final)
<1>1. Len(iterations) \in Nat \ {0}
  BY FinalIsAPass
<1>2. SUFFICES ASSUME NEW i \in 1..Len(iterations)
               PROVE  iterations[i].files.declares \subseteq Final.files.declares
  BY DEF UpTo
<1>3. CASE i = Len(iterations)
  BY <1>3 DEF Final
<1>4. CASE i # Len(iterations)
  <2>1. i \in 1..(Len(iterations) - 1) /\ Len(iterations) > 1
    BY <1>1, <1>4
  <2>2. iterations[i].files.declares \subseteq Before.files.declares
    BY <2>1 DEF Kept, UpTo
  <2>3. Before.files.declares \subseteq Final.files.declares
    BY <2>1 DEF Regressed, Lost
  <2>4. QED
    BY <2>2, <2>3
<1>5. QED
  BY <1>3, <1>4

LEMMA KeptIsKept ==
  ASSUME Types, Stages, Kept, [Next]_vars
  PROVE  Kept'
<1>1. ASSUME UNCHANGED iterations,
             at' \in {"asking", "checking"} /\ iterations # <<>> => at \in {"asking", "checking"},
             at' # "judging" \/ at' = at,
             outcome' \in Writable =>
                \/ outcome \in Writable
                \/ at = "asking" /\ iterations # <<>>
      PROVE  Kept'
  BY <1>1 DEF Kept, UpTo, Final, Before
<1>2. CASE Refuse \/ AskFirst \/ Replied \/ DeclinedFirst \/ StoppedAnswering
  BY <1>1, <1>2 DEF Refuse, AskFirst, Replied, DeclinedFirst, StoppedAnswering, Decide, Stages,
                    Writable
<1>3. CASE Unparseable \/ Suppressed \/ Report \/ BeginCommit \/ EndCommit \/ Die \/ SomebodyWrites
  BY <1>1, <1>3 DEF Unparseable, Suppressed, Report, BeginCommit, EndCommit, Die, SomebodyWrites,
                    Decide, Writable
<1>4. CASE RunAgain \/ UNCHANGED vars
  BY <1>1, <1>4 DEF RunAgain, vars, Kept, Writable
<1>5. CASE Audit
  <2>1. PICK pass : iterations' = Append(iterations, pass)
    BY <1>5 DEF Audit, Recorded
  <2>2. at' = "judging" /\ outcome' = outcome /\ outcome = "declined"
    BY <1>5 DEF Audit, Stages, Underway
  <2>4. ASSUME Len(iterations') > 1 PROVE UpTo(Len(iterations) - 1, Before)'
    <3>1. iterations \in Seq(Pass) /\ Len(iterations) \in Nat
      BY LenProperties DEF Types
    <3>2. Len(iterations') = Len(iterations) + 1
          /\ \A i \in 1..Len(iterations) : iterations'[i] = iterations[i]
      BY <2>1, <3>1
    <3>3. Before' = Final /\ Len(iterations') - 1 = Len(iterations) /\ iterations # <<>>
      BY <2>4, <3>1, <3>2 DEF Before, Final
    <3>4. UpTo(Len(iterations), Final)
      BY <1>5, <3>3 DEF Audit, Kept
    <3>5. QED
      BY <3>2, <3>3, <3>4 DEF UpTo
  <2>5. QED
    BY <2>2, <2>4 DEF Kept, Writable
<1>6. CASE Stop \/ AskAgain
  <2>1. at = "judging" /\ iterations' = iterations /\ at' \in {"decided", "asking"}
    BY <1>6 DEF Stop, AskAgain, Decide
  <2>2. outcome' \in Writable \/ at' = "asking" => ~Regressed
    BY <1>6 DEF Stop, AskAgain, Decide, Judge, Writable, Stages, Underway
  <2>3. ASSUME ~Regressed PROVE UpTo(Len(iterations), Final)
    BY <2>1, <2>3, ChainGrows DEF Stages
  <2>4. ASSUME ~Regressed PROVE UpTo(Len(iterations), Final)'
    BY <2>1, <2>3, <2>4 DEF UpTo, Final
  <2>5. QED
    BY <2>1, <2>2, <2>4 DEF Kept
<1>7. QED
  BY <1>2, <1>3, <1>4, <1>5, <1>6 DEF Next, Work

(* An accepted app declares all that any version before it declared (NothingIsLost), *)
(* although each pass is compared with the one before it only.                       *)
THEOREM NoFeatureIsTradedForSilence == Spec => []NothingIsLost
<1>1. Init => Kept
  BY DEF Init, Kept, Writable
<1>2. Types /\ Stages /\ Kept /\ [Next]_vars => (Types /\ Stages /\ Kept)'
  BY TypesKept, KeptIsKept
<1>3. Types /\ Kept => NothingIsLost
  BY LenProperties DEF Types, Kept, UpTo, NothingIsLost
<1>4. QED
  BY <1>1, <1>2, <1>3, InitTypes, PTL DEF Spec

-----------------------------------------------------------------------------
(* Progress.  Every repair before the last cleared something, and while a repair is *)
(* being asked for, so did the last.                                                *)
Cleared(i) == iterations[i - 1].findings \ iterations[i].findings # {}

Progress ==
  /\ \A i \in 2..(Len(iterations) - 1) : Cleared(i)
  /\ at \in {"asking", "checking"} => \A i \in 2..Len(iterations) : Cleared(i)

LEMMA ProgressKept ==
  ASSUME Types, Stages, Progress, [Next]_vars
  PROVE  Progress'
<1>1. Len(iterations) \in Nat /\ iterations \in Seq(Pass)
  BY LenProperties DEF Types
<1>2. ASSUME UNCHANGED iterations, at' \in {"asking", "checking"} => at \in {"asking", "checking"}
      PROVE  Progress'
  BY <1>2 DEF Progress, Cleared
<1>3. CASE AskFirst
  BY <1>3 DEF AskFirst, Stages, Progress, Cleared
<1>4. CASE Refuse \/ Replied \/ DeclinedFirst \/ StoppedAnswering \/ Unparseable \/ Suppressed
           \/ Report \/ BeginCommit \/ EndCommit \/ Die \/ SomebodyWrites \/ Stop
  BY <1>2, <1>4 DEF Refuse, Replied, DeclinedFirst, StoppedAnswering, Unparseable, Suppressed,
                    Report, BeginCommit, EndCommit, Die, SomebodyWrites, Stop, Decide
<1>5. CASE RunAgain \/ UNCHANGED vars
  <2>1. CASE RunAgain
    <3>1. iterations' = <<>> /\ Len(iterations') = 0
      BY <2>1 DEF RunAgain
    <3>2. QED
      BY <3>1 DEF Progress
  <2>2. QED
    BY <1>2, <1>5, <2>1 DEF vars
<1>6. CASE Audit
  <2>1. PICK pass : iterations' = Append(iterations, pass)
    BY <1>6 DEF Audit, Recorded
  <2>2. Len(iterations') = Len(iterations) + 1
        /\ \A i \in 1..Len(iterations) : iterations'[i] = iterations[i]
    BY <1>1, <2>1
  <2>3. \A i \in 2..Len(iterations) : Cleared(i)
    BY <1>6 DEF Audit, Progress
  <2>4. \A i \in 2..(Len(iterations') - 1) : Cleared(i)'
    BY <1>1, <2>2, <2>3 DEF Cleared
  <2>5. QED
    BY <1>6, <2>4 DEF Audit, Progress
<1>7. CASE AskAgain
  <2>1. at = "judging" /\ iterations' = iterations /\ ~Stalled
    BY <1>7 DEF AskAgain, Judge
  <2>2. Len(iterations) > 1 => Cleared(Len(iterations))
    BY <2>1 DEF Stalled, ClearedNothing, Before, Final, Cleared
  <2>3. \A i \in 2..Len(iterations) : Cleared(i)
    BY <1>1, <2>2 DEF Progress
  <2>4. QED
    BY <2>1, <2>3 DEF Progress, Cleared
<1>8. QED
  BY <1>3, <1>4, <1>5, <1>6, <1>7 DEF Next, Work

(* A run pays for at most one repair that clears nothing (EachCallBoughtProgress). *)
THEOREM StalledOnce == Spec => []EachCallBoughtProgress
<1>1. Init => Progress
  BY DEF Init, Progress
<1>2. Types /\ Stages /\ Progress /\ [Next]_vars => (Types /\ Stages /\ Progress)'
  BY TypesKept, ProgressKept
<1>3. Progress => EachCallBoughtProgress
  BY DEF Progress, Cleared, EachCallBoughtProgress
<1>4. QED
  BY <1>1, <1>2, <1>3, InitTypes, PTL DEF Spec

-----------------------------------------------------------------------------
(* What is written.  Every version audited parses and carries no marker; while a run asks *)
(* and judges nothing of ours is in the project, since it would have been refused; and    *)
(* what is there in part is being written, or was left.                                   *)
Sound(i) == Parses(iterations[i].files) /\ ~ContainsMarker(iterations[i].files)

Delivery ==
  /\ \A i \in 1..Len(iterations) : Sound(i)
  /\ at = "writing" => Accepted /\ write /\ project = Part
  /\ at \in {"asking", "checking", "judging", "decided"} => project.by # "generate"
  /\ HalfWrittenIsNeverPassedOff

LEMMA DeliveryKept ==
  ASSUME Types, Stages, Delivery, [Next]_vars
  PROVE  Delivery'
<1> USE DEF HalfWrittenIsNeverPassedOff
<1>1. ASSUME UNCHANGED <<iterations, project>>, at' # "writing",
             at' \in {"asking", "checking", "judging", "decided"} =>
                at \in {"asking", "checking", "judging", "decided"} \/ project.by # "generate",
             project = Part => at' \in {"dead", "start"} \/ (at' = "over" /\ exit' = ERROR)
      PROVE  Delivery'
  BY <1>1 DEF Delivery, Sound
<1>2. CASE AskFirst \/ Refuse
  BY <1>1, <1>2 DEF AskFirst, Refuse, Exists, NoApp, Part
<1>3. CASE \/ Replied \/ DeclinedFirst \/ StoppedAnswering \/ Unparseable
           \/ Suppressed \/ Stop \/ AskAgain \/ Report
  <2>1. project # Part
    BY <1>3 DEF Replied, DeclinedFirst, StoppedAnswering, Unparseable, Suppressed, Stop,
                AskAgain, Report, Delivery, Part
  <2>2. QED
    BY <1>1, <1>3, <2>1 DEF Replied, DeclinedFirst, StoppedAnswering, Unparseable,
                    Suppressed, Stop, AskAgain, Report, Decide
<1>4. CASE Die
  BY <1>1, <1>4 DEF Die
<1>5. CASE UNCHANGED vars
  BY <1>5 DEF vars, Delivery, Sound, Accepted
<1>6. CASE RunAgain
  <2>1. iterations' = <<>> /\ at' = "start" /\ Len(iterations') = 0
    BY <1>6 DEF RunAgain
  <2>2. QED
    BY <2>1 DEF Delivery
<1>7. CASE Audit
  <2> DEFINE n == Len(iterations) + 1
  <2>1. PICK pass : pass.files = files /\ iterations' = Append(iterations, pass)
    BY <1>7 DEF Audit, Recorded
  <2>2. iterations \in Seq(Pass) /\ n \in Nat /\ n - 1 = Len(iterations)
    BY LenProperties DEF Types
  <2>3. 1..Len(iterations') = 1..n /\ iterations'[n] = pass
        /\ \A i \in 1..(n - 1) : iterations'[i] = iterations[i]
    BY <2>1, <2>2
  <2> HIDE DEF n
  <2>4. \A i \in 1..Len(iterations') : Sound(i)'
    <3>1. ASSUME NEW i \in 1..(n - 1) PROVE Sound(i)'
      BY <2>2, <2>3, <3>1 DEF Delivery, Sound
    <3>2. ASSUME NEW i, i = n PROVE Sound(i)'
      <4>1. iterations'[i].files = files
        BY <2>1, <2>3, <3>2
      <4>2. QED
        BY <1>7, <4>1 DEF Audit, Sound, Parses, ContainsMarker
    <3>3. QED
      BY <2>2, <2>3, <3>1, <3>2
  <2>5. project.by # "generate" /\ project' = project /\ at' = "judging"
    BY <1>7 DEF Audit, Delivery
  <2>6. QED
    BY <2>4, <2>5 DEF Delivery, Part
<1>8. CASE BeginCommit
  BY <1>8 DEF BeginCommit, Delivery, Sound, Accepted
<1>9. CASE EndCommit
  <2>1. project' # Part /\ at' = "over" /\ iterations' = iterations
    BY <1>9 DEF EndCommit, Ours, Part
  <2>2. QED
    BY <2>1 DEF Delivery, Sound
<1>10. CASE SomebodyWrites
  <2>1. /\ project' = Theirs /\ project = NoApp
        /\ UNCHANGED <<at, write, iterations, outcome>>
    BY <1>10 DEF SomebodyWrites
  <2>2. Theirs.by # "generate" /\ Theirs # Part /\ NoApp # Part
    BY DEF Theirs, Part, NoApp
  <2>3. QED
    BY <2>1, <2>2 DEF Delivery, Sound
<1>11. QED
  BY <1>2, <1>3, <1>4, <1>5, <1>6, <1>7, <1>8, <1>9, <1>10 DEF Next, Work

LEMMA InitDelivery == Init => Delivery
BY DEF Init, Delivery, HalfWrittenIsNeverPassedOff, NoApp, Part

LEMMA DeliveryHolds == Spec => [](Types /\ Stages /\ Delivery)
<1>1. Types /\ Stages /\ Delivery /\ [Next]_vars => (Types /\ Stages /\ Delivery)'
  BY TypesKept, DeliveryKept
<1>2. QED
  BY <1>1, InitTypes, InitDelivery, PTL DEF Spec

(* A run that is killed while it writes leaves what every later run refuses *)
(* (HalfWrittenIsNeverPassedOff).                                           *)
THEOREM TheHalfWrittenIsRefused == Spec => []HalfWrittenIsNeverPassedOff
<1>1. Delivery => HalfWrittenIsNeverPassedOff
  BY DEF Delivery
<1>2. QED
  BY <1>1, DeliveryHolds, PTL

(* What OnlyAcceptedWorkIsWritten says of one step. *)
Written ==
  project' # project /\ (project'.by = "generate" \/ project.by = "generate") =>
    /\ write /\ outcome \in Writable /\ iterations # <<>>
    /\ project'.whole => project'.files = AsWritten(Final.files)
    /\ Parses(Final.files) /\ ~ContainsMarker(Final.files)
    /\ project.by = "generate" => project = Part /\ at = "writing"

(* The project receives the last version audited, of an accepted run under --write,  *)
(* and nothing else, and only where no run wrote before (OnlyAcceptedWorkIsWritten). *)
THEOREM OnlyTheAcceptedIsCommitted == Spec => OnlyAcceptedWorkIsWritten
<1>1. Types /\ Stages /\ Delivery /\ [Next]_vars => [Written]_vars
  <2> SUFFICES ASSUME Types, Stages, Delivery, Next PROVE Written
    OBVIOUS
  <2>1. ASSUME Accepted PROVE Parses(Final.files) /\ ~ContainsMarker(Final.files)
    <3>1. Len(iterations) \in Nat \ {0}
      BY <2>1, FinalIsAPass DEF Accepted
    <3>2. Sound(Len(iterations))
      BY <3>1 DEF Delivery
    <3>3. QED
      BY <3>2 DEF Sound, Final
  <2>2. CASE BeginCommit
    <3>1. Accepted /\ write /\ project' = Part /\ project.by # "generate" /\ ~project'.whole
      BY <2>2 DEF BeginCommit, Delivery, Part
    <3>2. QED
      BY <2>1, <3>1 DEF Written, Accepted
  <2>3. CASE EndCommit
    <3>1. /\ Accepted /\ write /\ project = Part /\ at = "writing"
          /\ project'.files = AsWritten(Final.files)
      BY <2>3 DEF EndCommit, Delivery, Ours
    <3>2. QED
      BY <2>1, <3>1 DEF Written, Accepted
  <2>4. CASE SomebodyWrites
    BY <2>4 DEF SomebodyWrites, Written, Theirs, NoApp
  <2>5. ASSUME project' = project PROVE Written
    BY <2>5 DEF Written
  <2>6. QED
    BY <2>2, <2>3, <2>4, <2>5 DEF Next, Work, Refuse, AskFirst, Replied, DeclinedFirst,
       StoppedAnswering, Unparseable, Suppressed, Audit, Stop, AskAgain, Report, Die, RunAgain
<1>2. QED
  BY <1>1, DeliveryHolds, PTL DEF Spec, OnlyAcceptedWorkIsWritten, Written
=============================================================================
