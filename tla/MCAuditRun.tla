----------------------------- MODULE MCAuditRun -----------------------------
(* A small project for AuditRun: three source files, two static rules, one *)
(* live rule and DJS-028, two Django checks and two external tools.        *)
EXTENDS AuditRun, TLC

CONSTANTS s1, s2, t1, m1, l1, g1, g2, x1, x2, y1

Views == <<"shop", "views.py">>
Tests == <<"shop", "tests", "test_views.py">>
Migration == <<"shop", "migrations", "0001.py">>

Record(rule, tool, family, file, line, text, at, sev, conf) ==
  [rule |-> rule, tool |-> tool, family |-> family, file |-> file, line |-> line,
   end |-> 0, text |-> text, at |-> at, severity |-> sev, confidence |-> conf]

MCFinding == {s1, s2, t1, m1, l1, g1, g2, x1, x2, y1}

(* s1 and s2 are one rule on one text, twice in a file; s1's line is suppressed in *)
(* MCSource.  x1 and y1 are what two tools with one rule id would report.          *)
MCMeta ==
  s1 :> Record("DJS-001", Ours, "DJS", Views, 1, "a", 1, 3, TENTATIVE) @@
  s2 :> Record("DJS-001", Ours, "DJS", Views, 2, "a", 2, 3, TENTATIVE) @@
  t1 :> Record("DJS-001", Ours, "DJS", Tests, 1, "a", 1, 3, TENTATIVE) @@
  m1 :> Record("DJM-002", Ours, "DJM", Migration, 1, "b", 1, 2, FIRM) @@
  l1 :> Record("DJM-010", Ours, "DJM", Migration, 1, "b", 1, 4, CERTAIN) @@
  g1 :> Record("DJS-028", Ours, "DJS", Views, 3, "", 1, 2, CERTAIN) @@
  g2 :> Record("DJS-028", Ours, "DJS", Views, 3, "", 2, 2, CERTAIN) @@
  x1 :> Record("RUFF-S324", "ruff", "DJX", Views, 2, "", 1, 2, FIRM) @@
  x2 :> Record("RUFF-S324", "ruff", "DJX", Tests, 2, "", 1, 2, FIRM) @@
  y1 :> Record("RUFF-S324", "ruff2", "DJX", Views, 2, "", 1, 2, FIRM)

Directive(kind, every, codes) == [kind |-> kind, every |-> every, codes |-> codes]

MCSource ==
  Views :> << {Directive("noqa", FALSE, {"DJS-001"})}, {Directive("noqa", TRUE, {})}, {} >> @@
  Tests :> << {}, {} >> @@
  Migration :> << {Directive("ignore", FALSE, {})} >>

MCRules == {"DJS-001", "DJM-002", "DJM-010", "DJS-028"}
MCTierOf == [r \in MCRules |-> IF r \in {"DJM-010", "DJS-028"} THEN "live" ELSE "static"]
MCFamilyOf == [r \in MCRules |-> IF r \in {"DJM-002", "DJM-010"} THEN "DJM" ELSE "DJS"]
MCFallbackOf == [r \in MCRules |-> IF r = "DJM-010" THEN {"DJM-002"} ELSE {}]
MCCORROBORATES == [c \in {"W018"} |-> "DJS-001"]
MCGapFinding == [c \in {"W018", "W021"} |-> IF c = "W018" THEN g1 ELSE g2]
MCRank == [a \in {Ours, "ruff", "ruff2"} |-> IF a = Ours THEN 0 ELSE IF a = "ruff" THEN 1 ELSE 2]
MCClaimOf == [f \in MCFinding |-> "adopt"]

RuleIds == MCRules \cup {"RUFF-S324"}

Default ==
  [live |-> FALSE, target |-> FALSE, tiers |-> {}, include |-> {}, exclude |-> {},
   families |-> {"DJS", "DJM", "DJX"}, min_severity |-> 0, min_confidence |-> 0,
   baseline |-> {}, paths |-> {}, overrides |-> [r \in RuleIds |-> Unset], external |-> {}]

S2Second == <<<<"DJS-001", Views, "a">>, 0>>
GapFirst == <<<<"DJS-028", Views, "">>, 0>>
RuffFirst == <<<<"RUFF-S324", Views, "">>, 0>>
DemoteAll ==
  [r \in RuleIds |-> IF r = "DJS-001" THEN 1 ELSE IF r = "RUFF-S324" THEN 4 ELSE Unset]

MCOptions ==
  { Default,
    [Default EXCEPT !.tiers = {"static", "live"}, !.include = {"DJM-010", "DJM-002"}],
    [Default EXCEPT !.exclude = {"DJM-002"}, !.families = {"DJM"}],
    [Default EXCEPT !.external = {"ruff", "ruff2"}, !.paths = {<<"shop", "migrations">>, Views}],
    [Default EXCEPT !.external = {"ruff", "ruff2"}, !.baseline = {S2Second}, !.min_severity = 2],
    [Default EXCEPT !.external = {"ruff", "ruff2"}, !.baseline = {RuffFirst}, !.overrides = DemoteAll,
                    !.min_severity = 2],
    [Default EXCEPT !.live = TRUE, !.target = TRUE, !.min_confidence = 1, !.min_severity = 2],
    [Default EXCEPT !.live = TRUE, !.target = TRUE, !.exclude = {"DJS-001"}, !.external = {"ruff"},
                    !.baseline = {GapFirst}],
    [Default EXCEPT !.live = TRUE, !.overrides = DemoteAll, !.min_severity = 3] }
=============================================================================
