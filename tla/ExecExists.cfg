SPECIFICATION Spec
CONSTANTS
  Mode = {"direct"}
  Kind = {"ddl"}
  Event = {"fails"}
  MaxStatements = 2
INVARIANTS
  UndoOnlyOwn
