SPECIFICATION FairSpec
CONSTANTS
  Order <- MCOrder
  Configs <- MCConfigs
  Part <- MCPart
  Version <- MCVersion
  DbType = {"vastbase", "oracle", "mysql"}
  NoNode = NoNode
  NoKey = NoKey
INVARIANTS
  MostSpecific
  FailoverInOrder
  ExecutedOnce
  NoAnswerMeansAll
  ScatterCovers
PROPERTIES
  EveryRequestAnswered
