SPECIFICATION FairSpec
CONSTANTS
  w1 = w1
  w2 = w2
  j1 = j1
  j2 = j2
  j3 = j3
  x1 = x1
  x2 = x2
  x3 = x3
  NoTask = NoTask
  NoPipe = NoPipe
  NoChunk = NoChunk
  Workers = {w1}
  Tasks = {j1, j2}
  Chunks = {x1, x2}
  Capacity = 2
  MaxPipes = 2
PROPERTY EveryJobIsAnswered
CHECK_DEADLOCK FALSE
