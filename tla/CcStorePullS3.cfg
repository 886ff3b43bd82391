CONSTANTS
  Kinds = {"S3"}
  Launcher = launcher
  Plugins = {p1}
  Names = {"o"}
  Payloads = {"v"}
  Contents = {"x"}
  MaxCalls = 2
  MaxCrashes = 0
SPECIFICATION Spec
CHECK_DEADLOCK FALSE
INVARIANT PullMissingKeepsLocal
