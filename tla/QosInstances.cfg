SPECIFICATION FairSpec
CONSTANTS
  root = root
  typeI = typeI
  f1 = f1
  f2 = f2
  high = high
  low = low
  Prefixes <- BothPrefixes
  Faces <- TwoFaces
  Classes <- TwoClasses
  Capacity <- Bursts
  QueueSize = 2
  Again = TRUE
  Erases = TRUE
  MaxInstances = 2
  MaxArrivals = 3
INVARIANTS TypeOK SharedRate
PROPERTIES OwnerDrains
CHECK_DEADLOCK FALSE
