SPECIFICATION Spec
CONSTANTS
  Calls <- MCCalls
  alloc_max = 32
  max_size = 20
  Nested <- convert_FFF
  Taken <- take_opt
  Answers <- PureAnswers
INVARIANTS
  AllocationsReturned
  ErrorsExplained
  
  ResultsAreRight
  ConversionsAgree
