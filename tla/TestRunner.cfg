SPECIFICATION FairSpec
CONSTANTS
  suite = suite
  example = example
  python = python
  Break = Break
  Workers <- TwoWorkers
  PyExamples <- OnePython
  Skips <- OnePython
  Suites <- OneSuite
  Examples <- OneExample
  Garbled <- OneSuite
  Codes <- AllCodes
  SpawnFails = TRUE
INVARIANTS TypeOK ExitTellsTruth JobsKept NothingLeftBehind 
PROPERTIES Ends
CHECK_DEADLOCK FALSE
