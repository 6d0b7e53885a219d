SPECIFICATION FairSpec
CONSTANTS
  r1 = r1
  r2 = r2
  r3 = r3
  r4 = r4
  r5 = r5
  Requests = {r1, r2, r3, r4, r5}
  PipeCap = 1
  NoRequest = NoRequest
INVARIANTS
  RequestsSafe
  StuckNeedsMany
PROPERTIES
  EndedIsCalled
  PostedIsStarted
CHECK_DEADLOCK FALSE
