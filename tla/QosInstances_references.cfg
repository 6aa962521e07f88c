SPECIFICATION Spec
CONSTANTS
  root = root
  typeI = typeI
  f1 = f1
  f2 = f2
  high = high
  low = low
  Prefixes <- BothPrefixes
  Faces <- OneFace
  Classes <- OneClass
  Capacity <- Burst2
  QueueSize = 2
  Again = TRUE
  Erases = FALSE
  MaxInstances = 2
  MaxArrivals = 1
INVARIANTS ReferencesExist
