SPECIFICATION Spec
CONSTANTS
  Mode = {"txnDDL", "direct", "ephemeral"}
  Kind = {"dml", "commits", "ddl", "ddlFound", "ddlOther", "ddlOneWay", "nonTxn"}
  Event = {"fails", "late", "reverseFails", "connectionLost"}
  MaxStatements = 4
INVARIANTS
  
  ErrorEndsBatch
  TxnLeavesNothing
  ReverseLeavesNothing
  UndoCovers
  SplitAgrees
PROPERTIES
  UndoOrder
