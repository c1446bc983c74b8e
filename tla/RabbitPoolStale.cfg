CONSTANTS
  Workers = {w1, w2}
  Queues = {"access", "blacklist"}
  maxConnection = 2
  pushMaxTime = 2
  NoWorker = NoWorker
SPECIFICATION Spec
INVARIANTS ChannelsOfTheirConnection
