SPECIFICATION Spec
CONSTANTS
  d1 = d1
  d2 = d2
  u1 = u1
  u2 = u2
  NoFace = NoFace
  OutOfScope = {}
  Millisecond = 1
  Downs <- OneDown
  Ups <- TwoUps
  Initial = 1
  MaxInterval = 4
  Lifetimes = {2}
  MaxLifetime = 2
  Blocked = {}
  MaxInterests = 3
  MaxNow = 2
PROPERTY RetxSpaced
