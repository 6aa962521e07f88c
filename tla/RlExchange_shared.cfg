SPECIFICATION Spec
CONSTANTS
  n1 = n1
  n2 = n2
  i1 = i1
  i2 = i2
  None = None
  Nodes = {n1}
  Instances <- MCInstances
  NodeOf <- AllOnOne
  learning_mode = TRUE
  InitialRates <- MCRates
  MaxRate = 35
  MaxCrashes = 0
  MaxStarts = 1
  SecondModulus = 3
INVARIANTS RewardIsOneSecondLater
