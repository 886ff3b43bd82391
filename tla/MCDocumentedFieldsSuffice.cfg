CONSTANTS
  NoRunner = NoRunner
  Names = {"a", "b"}
  Payloads <- MCPayloads
  Prototypes <- MCPrototypes
  EnvTypes = {"", "FS"}
  MaxCalls = 1
SPECIFICATION Spec
CHECK_DEADLOCK FALSE
INVARIANT DocumentedFieldsSuffice
