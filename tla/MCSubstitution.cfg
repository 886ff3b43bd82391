CONSTANTS
  Reference <- MCReference
  Env <- MCEnv
  Parts <- MCParts
  Documents <- MCDocuments
  MaxRevisits = 2
SPECIFICATION PassSpec
CHECK_DEADLOCK FALSE
INVARIANTS OrderIndependent SourcesResolved SourcesStrict
