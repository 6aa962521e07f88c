SPECIFICATION FairSpec
CONSTANTS
  c1 = c1
  c2 = c2
  Consumers <- Two
  Subscription <- Mixed
  RetransmitPackets = TRUE
  Publishes = TRUE
  SubDataSize = 1
  MaxSeq = 1
INVARIANTS TypeOK DelayTracedOnce OneSendEvent
PROPERTIES UpdatesGoOn
CHECK_DEADLOCK FALSE
