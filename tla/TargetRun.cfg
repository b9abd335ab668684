SPECIFICATION FairSpec
CONSTANTS
  leader = leader  c1 = c1  c2 = c2  m1 = m1
  Leader = leader
  Child = {c1, c2}
  Message = {m1}
  OutputLimit = 2
  MaxWritten = 3
CHECK_DEADLOCK FALSE
INVARIANTS NobodyOutlivesTheTimeout AnExitIsAnExit AReportIsWhole
PROPERTY TheAuditGoesOn
