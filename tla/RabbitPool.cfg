CONSTANTS
  Workers = {w1, w2}
  Queues = {"access", "blacklist"}
  maxConnection = 2
  pushMaxTime = 2
  NoWorker = NoWorker
  consumeMaxConnection = 1
  consumeMaxChannel = 2
  MaxReTry = 2
  Callback = {"true", "false"}
  MaxFaults = 2
SPECIFICATION PoolSpec
INVARIANTS ReconnectFreshForOwnQueue RetriesBelowMax
PROPERTIES DropHasCause PushReturns LockReleased
CHECK_DEADLOCK FALSE
