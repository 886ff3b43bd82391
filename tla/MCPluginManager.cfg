CONSTANTS
  NoRunner = NoRunner
  Names = {"a", "b"}
  Payloads <- MCPayloads
  Prototypes <- MCPrototypes
  EnvTypes = {"", "S3", "FS", "EV"}
  MaxCalls = 2
SPECIFICATION Spec
CHECK_DEADLOCK FALSE
INVARIANTS TypeOK ReadyMeansConnected ConnectedInOrder ReadyMeansSubstituted RunOutcome
PROPERTY RunsInOrder
