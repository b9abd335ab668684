SPECIFICATION Spec
CONSTANTS
  s1 = s1  s2 = s2  t1 = t1  m1 = m1  l1 = l1  g1 = g1  g2 = g2  x1 = x1  x2 = x2  y1 = y1
  Finding <- MCFinding
  Meta <- MCMeta
  Source <- MCSource
  TestNames = {"test_views.py"}
  Rules <- MCRules
  TierOf <- MCTierOf
  FamilyOf <- MCFamilyOf
  FallbackOf <- MCFallbackOf
  GapRule = "DJS-028"
  Checks = {"W018", "W021"}
  SecurityChecks = {"W018", "W021"}
  CORROBORATES <- MCCORROBORATES
  GapFinding <- MCGapFinding
  Adapters = {"ruff", "ruff2"}
  Rank <- MCRank
  ClaimOf <- MCClaimOf
  Options <- MCOptions
INVARIANTS
  ReportIsAsAsked IdentityUnique LiveNeedsConsent DjangoIsHeard
PROPERTIES
  EveryoneIsTried
