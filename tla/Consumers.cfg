CONSTANTS
  MaxSets = 2
  MaxKicks = 1
  Bodies <- OddFirst
SPECIFICATION BoundedSpec
INVARIANTS NoSetLost
PROPERTIES KickLossHasCause StaleOnlyAfterReturn Supervised QueuesSettle
