SPECIFICATION Spec
CONSTANTS
  p1 = p1  p2 = p2  q1 = q1
  Problem = {p1, p2, q1}
  SnippetOf <- MCSnippetOf
  MaxEdits = 4
INVARIANTS ReportsTheExcess
