SPECIFICATION FairSpec
CONSTANTS
  f1 = f1
  f2 = f2
  Faces <- MCFaces
  QueueSize = 2
  Capacity <- MCCapacity
  Sizes = {7}
  MaxArrivals = 3
  MaxNow = 1
INVARIANTS TypeOK Conforms TokensAccounted NeedIsCurrent PassFrontier
PROPERTIES ImplementsLinks Drains
