SPECIFICATION Spec
CONSTANTS
  Floats <- convert_FFF
  Flat <- write_param
  Shape <- make_param
  Taken <- take_opt
  Calls <- MCCalls
  Numbers <- MCNumbers
  Moves = {0, 2}
  MaxEvals = 2
  MaxIter = 1
INVARIANTS
  FailuresReported
  LeaksOnlyLate
  ResultMeansWhatItSays
