SPECIFICATION Spec
SYMMETRY Consumers
CONSTANTS
  d1 = d1
  d2 = d2
  u1 = u1
  u2 = u2
  NoFace = NoFace
  OutOfScope <- Localhop
  Millisecond = 2
  Downs <- AlsoUp
  Ups <- TwoUps
  Initial = 2
  MaxInterval = 3
  Lifetimes = {2, 4}
  MaxLifetime = 4
  Blocked = {u1}
  MaxInterests = 2
  MaxNow = 3
INVARIANTS TypeOK TimerCoversDownstreams
PROPERTIES EndsForCause
