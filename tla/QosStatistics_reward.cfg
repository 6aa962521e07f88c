SPECIFICATION SpecCounted
CONSTANTS
  f1 = f1
  f2 = f2
  Faces <- MCFaces
  QueueSize = 1
  Capacity <- MCCapacity
  Sizes = {7}
  MaxArrivals = 3
  MaxNow = 0
  MaxDrops = 1
SYMMETRY FaceSymmetry
PROPERTY RewardInRange
