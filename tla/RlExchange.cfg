SPECIFICATION FairSpec
CONSTANTS
  n1 = n1
  n2 = n2
  i1 = i1
  i2 = i2
  None = None
  Nodes <- MCNodes
  Instances <- MCInstances
  NodeOf <- OneEach
  learning_mode = TRUE
  InitialRates <- MCRates
  MaxRate = 25
  MaxCrashes = 2
  MaxStarts = 3
  SecondModulus = 3
INVARIANTS TypeOK CleanAgentsSurvive RatesPositive RewardIsOneSecondLater
PROPERTIES ActionsAreChosen Recovers
CHECK_DEADLOCK FALSE
