CONSTANTS
  Callers = {c1}
  Topics = {t1, t2}
  MaxSubscribes = 2
  MaxMessages = 2
  MaxDrops = 1
  MaxExpiries = 1
  MaxCrashes = 1
SPECIFICATION Spec
CHECK_DEADLOCK FALSE
INVARIANTS TypeOK ExactWhenAlone BrokerKnowsHandlers NothingLost
