SPECIFICATION FairSpec
CONSTANTS
  Handles = {6, 7}
  FirstDelay = 1
  MaxDelay = 3
  Intervals = {1}
  MaxJobs = 2
  MaxOpens = 1
  MaxDrops = 2
  MaxEvents = 3
  MaxIds = 3
INVARIANTS
  CalledOnTime
  OneLink
PROPERTIES
  RetriesEnd
  JobsAreCalled
CHECK_DEADLOCK FALSE
