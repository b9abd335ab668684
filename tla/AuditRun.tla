------------------------------ MODULE AuditRun ------------------------------
(***************************************************************************)
(* One audit: engine._audit from rule selection to the sorted report, with *)
(* the calls it makes (select, assess, corroborate, DJS-028, fp.assign,    *)
(* the external tools, merge, Baseline.filter).  The function runs in one  *)
(* thread; what is not fixed is what the rules, Django and the tools give  *)
(* back, and whether they raise.  Rules of one pass are taken in any       *)
(* order, since nothing below may depend on it; the order of the report    *)
(* itself is left out.                                                     *)
(***************************************************************************)
EXTENDS Findings

CONSTANTS
  Rules,             \* the catalogue: rule ids
  TierOf, FamilyOf,  \* of each rule
  FallbackOf,        \* RuleMeta.fallback_rules
  GapRule,           \* DJS-028
  Checks,            \* Django deployment check ids
  SecurityChecks,    \* those named security.*
  CORROBORATES,      \* check id -> the rule of ours that reports the same defect
  GapFinding,        \* the finding DJS-028 yields for a check
  Adapters,          \* external tools
  Rank,              \* Rank[tool]: its place in the order they are given; Ours is first
  ClaimOf,           \* ClaimOf[f]: what the tool's claim table says of the code of f
  Options            \* the option records a run may be started with

VARIABLES
  opt,        \* the run's options
  phase,      \* the next statement of _audit
  todo,       \* rules, then adapters, not asked yet in this pass
  ran,        \* rules run (rules_run counts them)
  collected,  \* the rules' findings
  arrived,    \* the findings in the external reports
  kept,       \* findings still to be reported
  severity, confidence, fingerprint,   \* of every finding
  rule_errors,  \* rules and adapters that raised
  heard,      \* checks in Django's deployment report
  confirmed, gaps,  \* Corroboration.confirmed, ctx.deployment_gaps
  skipped,    \* Degradation.skipped
  counts      \* RunResult's counters

vars == <<opt, phase, todo, ran, collected, arrived, kept, severity, confidence,
          fingerprint, rule_errors, heard, confirmed, gaps, skipped, counts>>

AFTER_CORROBORATION == {GapRule}

(* The override of a rule id that severity_overrides does not mention. *)
Unset == CRITICAL + 1

(* No fingerprint yet.  FP is every fingerprint there can be. *)
Unassigned == <<>>
FP == {Unassigned} \cup ({Key(f) : f \in Finding} \X Nat)

Phases == {"start", "rules", "corroborate", "deferred", "filter", "assign", "tools",
           "fold", "baseline", "override", "threshold", "done"}
Counters == {"raw", "inline", "path", "duplicates", "baseline", "threshold"}

OwnFindings == {f \in Finding : Meta[f].tool = Ours}
FindingsOf(r) == {f \in OwnFindings : Meta[f].rule = r}

ASSUME AuditAssumption ==
  /\ GapRule \in Rules
  /\ Rules \cap Adapters = {}
  /\ \A c \in Checks : GapFinding[c] \in FindingsOf(GapRule)
  /\ \A f \in Finding : Meta[f].tool \in Adapters \cup {Ours}
  /\ Ours \notin Adapters
  /\ Rank \in [Adapters \cup {Ours} -> Nat]
  /\ \A a \in Adapters : Rank[Ours] < Rank[a]
  /\ \A a, b \in Adapters : a # b => Rank[a] # Rank[b]
  /\ \A o \in Options : /\ \A f \in Finding :
                              o.overrides[Meta[f].rule] \in Severities \cup {Unset}
                        /\ o.external \subseteq Adapters

\* The finding DJS-028 yields for a gap names the check.
ASSUME GapsAreToldApart ==
  \A c, d \in Checks : GapFinding[c] = GapFinding[d] => c = d

-----------------------------------------------------------------------------
(* registry.select, after _audit has taken the live tier from a run without *)
(* a live context.  No tiers, or no inclusions, is Python's None.            *)

(* Mutated: the live tier stays selectable without a live context. *)
TiersAsAsked(o) ==
  IF o.tiers # {} THEN o.tiers ELSE IF o.live THEN {"static", "live"} ELSE {"static"}

TiersOf(o) ==
  (IF o.tiers # {} THEN o.tiers ELSE IF o.live THEN {"static", "live"} ELSE {"static"})
    \ (IF o.live THEN {} ELSE {"live"})

Selected(o) ==
  LET capable == {r \in Rules : TierOf[r] \in TiersOf(o)}
  IN IF o.include # {} THEN capable \cap o.include
     ELSE {r \in capable : FamilyOf[r] \in o.families /\ r \notin o.exclude}

(* degradation.assess: every live rule not selected, with its fallbacks that were. *)
Assess(selected) ==
  {[rule |-> r, covered_by |-> FallbackOf[r] \cap selected] :
      r \in {q \in Rules : TierOf[q] = "live" /\ q \notin selected}}

Init ==
  /\ opt \in Options
  /\ phase = "start"
  /\ todo = {} /\ ran = {}
  /\ collected = {} /\ arrived = {} /\ kept = {}
  /\ severity = [f \in Finding |-> Meta[f].severity]
  /\ confidence = [f \in Finding |-> Meta[f].confidence]
  /\ fingerprint = [f \in Finding |-> Unassigned]
  /\ rule_errors = {}
  /\ heard = {} /\ confirmed = {} /\ gaps = {}
  /\ skipped = {}
  /\ counts = [c \in Counters |-> 0]

Select ==
  /\ phase = "start" /\ phase' = "rules"
  /\ todo' = Selected(opt)
  /\ skipped' = Assess(Selected(opt))
  /\ UNCHANGED <<opt, ran, collected, arrived, kept, severity, confidence, fingerprint,
                 rule_errors, heard, confirmed, gaps, counts>>

-----------------------------------------------------------------------------
(* What a rule's check may yield.  DJS-028 yields one finding for each gap. *)

GapFindings == IF opt.live THEN {GapFinding[c] : c \in gaps} ELSE {}

Yields(r, out) == IF r = GapRule THEN out = GapFindings ELSE out \subseteq FindingsOf(r)

(* A rule that raises is recorded and costs only its own findings. *)
RunRule(r) ==
  /\ \/ phase = "rules" /\ r \notin AFTER_CORROBORATION
     \/ phase = "deferred"
  /\ r \in todo
  /\ todo' = todo \ {r}
  /\ ran' = ran \cup {r}
  /\ \/ \E out \in SUBSET FindingsOf(r) :
          /\ Yields(r, out)
          /\ collected' = collected \cup out
          /\ UNCHANGED rule_errors
     \/ /\ rule_errors' = rule_errors \cup {r}
        /\ UNCHANGED collected
  /\ UNCHANGED <<opt, phase, arrived, kept, severity, confidence, fingerprint,
                 heard, confirmed, gaps, skipped, counts>>

FirstPassEnds ==
  /\ phase = "rules" /\ todo \subseteq AFTER_CORROBORATION
  /\ phase' = "corroborate"
  /\ UNCHANGED <<opt, todo, ran, collected, arrived, kept, severity, confidence, fingerprint,
                 rule_errors, heard, confirmed, gaps, skipped, counts>>

(* engine._corroborate without a report: not a live run, no interpreter to ask, *)
(* an OSError, or output that is not a finished check.                          *)
NoReport ==
  /\ phase = "corroborate" /\ phase' = "deferred"
  /\ UNCHANGED <<opt, todo, ran, collected, arrived, kept, severity, confidence, fingerprint,
                 rule_errors, heard, confirmed, gaps, skipped, counts>>

(* Mutated: a check is taken as confirmed because the table names a rule for it. *)
ConfirmedByTable(report) == report \cap DOMAIN CORROBORATES

ConfirmedBy(report) ==
  {c \in report \cap DOMAIN CORROBORATES : \E f \in collected : Meta[f].rule = CORROBORATES[c]}

Agrees(f, report) ==
  \E c \in report \cap DOMAIN CORROBORATES : CORROBORATES[c] = Meta[f].rule

Corroborated(f, report) == IF Agrees(f, report) THEN CERTAIN ELSE confidence[f]

(* corroborate: confirmed findings become certain; the rest of what Django said is a gap. *)
Corroborate(report) ==
  /\ phase = "corroborate" /\ phase' = "deferred"
  /\ opt.live /\ opt.target
  /\ heard' = report
  /\ confirmed' = ConfirmedBy(report)
  /\ gaps' = (report \cap SecurityChecks) \ ConfirmedBy(report)
  /\ confidence' =
       [f \in Finding |-> IF f \in collected THEN Corroborated(f, report) ELSE confidence[f]]
  /\ UNCHANGED <<opt, todo, ran, collected, arrived, kept, severity, fingerprint,
                 rule_errors, skipped, counts>>

SecondPassEnds ==
  /\ phase = "deferred" /\ todo = {}
  /\ phase' = "filter"
  /\ UNCHANGED <<opt, todo, ran, collected, arrived, kept, severity, confidence, fingerprint,
                 rule_errors, heard, confirmed, gaps, skipped, counts>>

-----------------------------------------------------------------------------
(* The loop over collected: inline suppression, then exclude_paths, then scope. *)

Visible == {f \in collected : ~Suppressed(f)}
ExcludedOnes == {f \in Visible : Excluded(f, opt.paths)}

Filter ==
  /\ phase = "filter" /\ phase' = "assign"
  /\ kept' = Visible \ ExcludedOnes
  /\ severity' = [f \in Finding |-> IF f \in kept' THEN ScopedSeverity(f) ELSE severity[f]]
  /\ counts' = [counts EXCEPT !["raw"] = Cardinality(collected),
                              !["inline"] = Cardinality(collected) - Cardinality(Visible),
                              !["path"] = Cardinality(ExcludedOnes)]
  /\ UNCHANGED <<opt, todo, ran, collected, arrived, confidence, fingerprint, rule_errors,
                 heard, confirmed, gaps, skipped>>

Assign ==
  /\ phase = "assign" /\ phase' = "tools"
  /\ fingerprint' =
       [f \in Finding |-> IF f \in kept THEN Fingerprint(f, kept) ELSE fingerprint[f]]
  /\ todo' = opt.external
  /\ UNCHANGED <<opt, ran, collected, arrived, kept, severity, confidence, rule_errors,
                 heard, confirmed, gaps, skipped, counts>>

(* _collect_external: a tool reports what its table adopts outside test files. *)
Adoptable(a) ==
  {f \in Finding : /\ Meta[f].tool = a /\ ClaimOf[f] = "adopt"
                   /\ ~IsTestPath(Meta[f].file)}

CollectExternal(a) ==
  /\ phase = "tools" /\ a \in todo
  /\ todo' = todo \ {a}
  /\ \/ \E report \in SUBSET Adoptable(a) : arrived' = arrived \cup report /\ UNCHANGED rule_errors
     \/ rule_errors' = rule_errors \cup {a} /\ UNCHANGED arrived
  /\ UNCHANGED <<opt, phase, ran, collected, kept, severity, confidence, fingerprint,
                 heard, confirmed, gaps, skipped, counts>>

ReportOf(a) == {f \in arrived : Meta[f].tool = a}

(* Mutated: the first adapter that raises ends the loop. *)
AskedUntilFailure == todo = {} \/ rule_errors \cap Adapters # {}

EveryToolAsked == todo = {}

ToolsEnd ==
  /\ phase = "tools" /\ EveryToolAsked
  /\ phase' = IF opt.external = {} THEN "baseline" ELSE "fold"
  /\ fingerprint' =
       [f \in Finding |->
          IF f \in arrived THEN Fingerprint(f, ReportOf(Meta[f].tool)) ELSE fingerprint[f]]
  /\ UNCHANGED <<opt, todo, ran, collected, arrived, kept, severity, confidence, rule_errors,
                 heard, confirmed, gaps, skipped, counts>>

(* merge drops an external finding whose fingerprint an earlier one already has. *)
Duplicates ==
  {f \in arrived : \E g \in kept \cup arrived :
      fingerprint[g] = fingerprint[f] /\ Rank[Meta[g].tool] < Rank[Meta[f].tool]}

Merged == kept \cup (arrived \ Duplicates)

(* _fold_external: only inline suppression is applied to what merge returns. *)
Fold ==
  /\ phase = "fold" /\ phase' = "baseline"
  /\ kept' = {f \in Merged : ~Suppressed(f)}
  /\ counts' = [counts EXCEPT !["raw"] = @ + Cardinality(arrived),
                              !["duplicates"] = Cardinality(Duplicates),
                              !["inline"] = @ + (Cardinality(Merged) - Cardinality(kept'))]
  /\ UNCHANGED <<opt, todo, ran, collected, arrived, severity, confidence, fingerprint,
                 rule_errors, heard, confirmed, gaps, skipped>>

Accepted(f) == fingerprint[f] \in opt.baseline

FilterBaseline ==
  /\ phase = "baseline" /\ phase' = "override"
  /\ kept' = {f \in kept : ~Accepted(f)}
  /\ counts' = [counts EXCEPT !["baseline"] = Cardinality(kept) - Cardinality(kept')]
  /\ UNCHANGED <<opt, todo, ran, collected, arrived, severity, confidence, fingerprint,
                 rule_errors, heard, confirmed, gaps, skipped>>

Overridden(f) == opt.overrides[Meta[f].rule] # Unset

Override ==
  /\ phase = "override" /\ phase' = "threshold"
  /\ severity' =
       [f \in Finding |-> IF f \in kept /\ Overridden(f)
                          THEN opt.overrides[Meta[f].rule] ELSE severity[f]]
  /\ UNCHANGED <<opt, todo, ran, collected, arrived, kept, confidence, fingerprint,
                 rule_errors, heard, confirmed, gaps, skipped, counts>>

(* Mutated: the threshold is applied before scope and the overrides. *)
PassesAsFound(f) ==
  Meta[f].severity >= opt.min_severity /\ confidence[f] >= opt.min_confidence

PassesThreshold(f) == severity[f] >= opt.min_severity /\ confidence[f] >= opt.min_confidence

Threshold ==
  /\ phase = "threshold" /\ phase' = "done"
  /\ kept' = {f \in kept : PassesThreshold(f)}
  /\ counts' = [counts EXCEPT !["threshold"] = Cardinality(kept) - Cardinality(kept')]
  /\ UNCHANGED <<opt, todo, ran, collected, arrived, severity, confidence, fingerprint,
                 rule_errors, heard, confirmed, gaps, skipped>>

Done == phase = "done" /\ UNCHANGED vars

Next ==
  \/ Select
  \/ \E r \in Rules : RunRule(r)
  \/ FirstPassEnds
  \/ NoReport
  \/ \E report \in SUBSET Checks : Corroborate(report)
  \/ SecondPassEnds
  \/ Filter \/ Assign
  \/ \E a \in Adapters : CollectExternal(a)
  \/ ToolsEnd \/ Fold
  \/ FilterBaseline \/ Override \/ Threshold \/ Done

Spec == Init /\ [][Next]_vars /\ WF_vars(Next)

-----------------------------------------------------------------------------
(* Every variable keeps its type. *)
TypeOK ==
  /\ opt \in Options
  /\ phase \in Phases
  /\ todo \subseteq Rules \cup Adapters
  /\ ran \subseteq Rules
  /\ collected \subseteq OwnFindings
  /\ arrived \subseteq Finding \ OwnFindings
  /\ kept \subseteq collected \cup arrived
  /\ severity \in [Finding -> Severities]
  /\ confidence \in [Finding -> Confidences]
  /\ fingerprint \in [Finding -> FP]
  /\ rule_errors \subseteq Rules \cup Adapters
  /\ heard \subseteq Checks /\ confirmed \subseteq Checks /\ gaps \subseteq Checks
  /\ counts \in [Counters -> Nat]

(* RunResult says how many findings each filter took, so that a short report *)
(* and a clean project can be told apart: the counters account for every     *)
(* finding the rules and the tools produced (engine.RunResult).              *)
Accounting ==
  phase = "done" =>
    counts["raw"] = Cardinality(kept) + counts["inline"] + counts["path"]
                      + counts["duplicates"] + counts["baseline"] + counts["threshold"]

(* What the options make of a finding, said of the whole run at once. *)
OursToReport == {f \in collected : ~Suppressed(f) /\ ~Excluded(f, opt.paths)}

IdentityOf(f) ==
  Fingerprint(f, IF f \in collected THEN OursToReport ELSE ReportOf(Meta[f].tool))

RepeatsAnEarlier(f) ==
  \E g \in OursToReport \cup arrived :
     Rank[Meta[g].tool] < Rank[Meta[f].tool] /\ IdentityOf(g) = IdentityOf(f)

FinalSeverity(f) ==
  IF Overridden(f) THEN opt.overrides[Meta[f].rule]
  ELSE IF f \in collected THEN ScopedSeverity(f) ELSE Meta[f].severity

FinalConfidence(f) ==
  IF f \in collected /\ Meta[f].rule # GapRule /\ Agrees(f, heard)
  THEN CERTAIN ELSE Meta[f].confidence

(* The report is what the user's directives, patterns, baseline, overrides and thresholds *)
(* make of what the rules and tools found, no finding more and none less: the passes over *)
(* the list come to what is said here without any order (engine._audit).                  *)
ReportIsAsAsked ==
  phase = "done" =>
    kept = {f \in OursToReport \cup arrived :
              /\ ~Suppressed(f) /\ ~RepeatsAnEarlier(f)
              /\ IdentityOf(f) \notin opt.baseline
              /\ FinalSeverity(f) >= opt.min_severity
              /\ FinalConfidence(f) >= opt.min_confidence}

(* No two findings of one report share a fingerprint, whatever the rules and *)
(* tools yielded: a baseline entry stands for one finding.                   *)
IdentityUnique ==
  phase \in {"baseline", "override", "threshold", "done"} =>
    \A f, g \in kept : f # g => fingerprint[f] # fingerprint[g]

(* A run without a live context runs no live rule, even one asked for by name, *)
(* and says so of every live rule it did not run (registry.select, assess).    *)
LiveNeedsConsent ==
  phase # "start" =>
    /\ ~opt.live => \A r \in ran : TierOf[r] # "live"
    /\ phase # "rules" /\ todo \cap Rules = {} =>
         \A r \in Rules : TierOf[r] = "live" => r \in ran \/ \E s \in skipped : s.rule = r

(* Every security check Django reported is confirmed on a finding of ours or, *)
(* when DJS-028 ran to its end, reported as a gap: never both, never neither. *)
DjangoIsHeard ==
  phase = "filter" =>
    \A c \in heard \cap SecurityChecks :
       IF c \in confirmed
       THEN /\ GapFinding[c] \notin collected
            /\ \E f \in collected : Meta[f].rule = CORROBORATES[c] /\ confidence[f] = CERTAIN
       ELSE GapRule \in ran \ rule_errors => GapFinding[c] \in collected

(* Confirmation raises confidence and silence never lowers it. *)
SilenceNeverLowers == [][\A f \in Finding : confidence'[f] >= confidence[f]]_vars

(* Isolation: whatever raises, the audit ends, and only with every selected rule *)
(* and every tool asked for tried.                                               *)
EveryoneIsTried ==
  <>(phase = "done" /\ ran = Selected(opt) /\ \A a \in opt.external : a \notin todo)
=============================================================================
