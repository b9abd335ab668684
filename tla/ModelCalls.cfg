SPECIFICATION FairSpec
CONSTANTS
  r1 = r1  r2 = r2  f1 = f1  f2 = f2  c = c
  Run = {r1, r2}
  Finding = {f1, f2, c}
  Settled = {c}
  Worklist <- MCWorklist
  Name <- MCName
  Endpoint <- MCEndpoint
  Says = {"risk"}
  Usages = {0, 2}
  Estimate <- MCEstimate
  MinPrompt = 1  MaxReply = 2
  MaxTokens <- MCMaxTokens
  MaxCalls <- MCMaxCalls
INVARIANTS EveryQuestionIsBooked VerdictsWereGiven OneResponsePerQuestion
PROPERTIES KeepsTheCeiling EveryRunEnds
CHECK_DEADLOCK FALSE
