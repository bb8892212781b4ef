CONSTANTS
  Callers = {scan, fit1, fit2}
  Spans <- SomeSpans
  Points <- SomePoints
  MaxRange = 2
  MaxWindows = 2
  Inflight = 2
  Retries = 1
SPECIFICATION FairSpec
INVARIANT TypeOK
INVARIANT SlotsAreHeld
INVARIANT OnePerPeriod
INVARIANT AnswerIsWhole
INVARIANT WindowsAreCounted
PROPERTY EveryQueryEnds
