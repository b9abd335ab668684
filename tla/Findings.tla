------------------------------ MODULE Findings ------------------------------
(***************************************************************************)
(* What a djaudit finding is and the operators the engine decides its      *)
(* fate with: inline suppression, path exclusion, scope demotion and the   *)
(* fingerprint that identifies it across runs.  Nothing here has state.    *)
(*                                                                         *)
(* A finding is an object (a model value).  What never changes once it is  *)
(* built is Meta[f]; what the engine rewrites on a copy (severity,         *)
(* confidence, fingerprint) is state of the modules that extend this one.  *)
(***************************************************************************)
EXTENDS Integers, FiniteSets, Sequences

CONSTANTS
  Finding,        \* the findings that rules and external tools can build
  Meta,           \* Meta[f]: rule, tool, family, file, line, end, text, at, severity, confidence
  Source,         \* Source[file]: for each line, the set of directives its comments hold
  TestNames       \* file names that start with test_ or that scope._TEST_FILES lists

INFO == 0
CRITICAL == 4
Severities == INFO..CRITICAL

TENTATIVE == 0
FIRM == 1
CERTAIN == 2
Confidences == TENTATIVE..CERTAIN

(* djaudit's own rules carry this tool; an adapter's findings carry its name. *)
Ours == "djaudit"

-----------------------------------------------------------------------------
(* Inline suppression.  A line is a set of directives; `every` is a directive *)
(* written without codes, which only `djaudit: ignore` is honoured for.       *)

HonouredBy(d, rule) ==
  \/ d.kind = "ignore" /\ (d.every \/ rule \in d.codes)
  \/ d.kind = "noqa" /\ ~d.every /\ rule \in d.codes

LineSuppresses(line, rule) == \E d \in line : HonouredBy(d, rule)

Least(m, n) == IF m <= n THEN m ELSE n

(* The whole statement is searched, clamped to the file; end = 0 is "no end". *)
IsSuppressed(lines, start, end, rule) ==
  /\ lines # <<>> /\ start >= 1
  /\ \E i \in Least(start, Len(lines))..Least(IF end = 0 THEN start ELSE end, Len(lines)) :
        LineSuppresses(lines[i], rule)

Suppressed(f) ==
  IsSuppressed(Source[Meta[f].file], Meta[f].line, Meta[f].end, Meta[f].rule)

-----------------------------------------------------------------------------
(* Paths are sequences of segments.  A pattern names a file or a directory.  *)

Beneath(path, pattern) ==
  /\ Len(pattern) <= Len(path)
  /\ \A i \in 1..Len(pattern) : path[i] = pattern[i]

Excluded(f, patterns) == \E p \in patterns : Beneath(Meta[f].file, p)

Segments(path) == {path[i] : i \in 1..Len(path)}
Directories(path) == {path[i] : i \in 1..(Len(path) - 1)}

Classify(path) ==
  IF "migrations" \in Segments(path) THEN "migrations"
  ELSE IF \/ Directories(path) \cap {"tests", "testing", "test"} # {}
          \/ path # <<>> /\ path[Len(path)] \in TestNames
       THEN "tests" ELSE "production"

(* adapters.base.is_test_path is broader: the file's own segment counts as well. *)
IsTestPath(path) ==
  \/ Segments(path) \cap {"tests", "testing", "test"} # {}
  \/ path # <<>> /\ path[Len(path)] \in TestNames

Demoted(severity) == IF severity = INFO THEN INFO ELSE severity - 1

(* A DJM finding is about its migration, so its scope does not mark it down. *)
ScopedSeverity(f) ==
  IF Classify(Meta[f].file) = "production" \/ Meta[f].family = "DJM"
  THEN Meta[f].severity
  ELSE Demoted(Meta[f].severity)

-----------------------------------------------------------------------------
(* Identity.  Meta[f].at is f's place in document order: line, column, and   *)
(* for one rule at one place the order in which the rule yielded.            *)

Key(f) == <<Meta[f].rule, Meta[f].file, Meta[f].text>>

Occurrence(f, S) == Cardinality({g \in S : Key(g) = Key(f) /\ Meta[g].at < Meta[f].at})

(* Mutated: the identity forgets which occurrence it is. *)
KeyOnly(f, S) == <<Key(f), 0>>

Fingerprint(f, S) == <<Key(f), Occurrence(f, S)>>

(* Distinct findings of one tool with one key have distinct places in the document. *)
ASSUME FindingAssumption ==
  /\ \A f \in Finding :
        /\ Meta[f].at \in Nat
        /\ Meta[f].severity \in Severities
        /\ Meta[f].confidence \in Confidences
  /\ \A f, g \in Finding :
        f # g /\ Meta[f].tool = Meta[g].tool /\ Key(f) = Key(g) => Meta[f].at # Meta[g].at
  /\ IsFiniteSet(Finding)
=============================================================================
