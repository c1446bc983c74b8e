CONSTANTS
  MaxSets = 1
  MaxKicks = 0
  Bodies <- OneGood
SPECIFICATION FairSpec
PROPERTIES SetsSettle
