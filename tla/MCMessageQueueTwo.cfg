CONSTANTS
  Callers = {c1, c2}
  Topics = {t1}
  MaxSubscribes = 2
  MaxMessages = 1
  MaxDrops = 1
  MaxExpiries = 1
  MaxCrashes = 0
SPECIFICATION FairSpec
CHECK_DEADLOCK FALSE
INVARIANTS RegisteredOrLeaving
PROPERTIES EventuallyHeard SubscribeReturns
