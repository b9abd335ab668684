SPECIFICATION FairSpec
CONSTANTS
  m = m  n = n  p = p  q = q
  Names = {m, n}
  Problem = {p, q}
  Reply <- MCReply
  Crashes <- MCCrashes
  MaxIterations = 3
INVARIANTS EachCallBoughtProgress HalfWrittenIsNeverPassedOff
PROPERTIES OnlyAcceptedWorkIsWritten TheLoopEnds
