CONSTANTS
  Groups = {"accept", "consume"}
  Workers = {w1, w2, w3, w4}
  Count <- CopyCount
  Sessions = {s1, s2}
  Keys = {1, 2}
  Shards = {1, 2}
  ShardOf <- OwnShard
  Confs = {c1, c2}
  NoCtx = NoCtx
  NoConf = NoConf
SPECIFICATION TasksSpec
INVARIANTS AtMostCount StopWaits ConfigReachesAll
PROPERTIES KeepsRunning StopReturns WalksEnd
CHECK_DEADLOCK FALSE
