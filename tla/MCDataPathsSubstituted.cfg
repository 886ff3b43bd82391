CONSTANTS
  Reference <- MCReference
  Env <- MCEnv
  Parts <- MCParts
  Documents <- MCDataPaths
  MaxRevisits = 0
SPECIFICATION PassSpec
CHECK_DEADLOCK FALSE
INVARIANT DataPathsSubstituted
