CONSTANTS
  Kinds = {"FSB", "S3"}
  Launcher = launcher
  Plugins = {p1, p2}
  Names = {"o"}
  Payloads = {"v", "w"}
  Contents = {"x"}
  MaxCalls = 3
  MaxCrashes = 1
SPECIFICATION Spec
SYMMETRY PluginSymmetry
CHECK_DEADLOCK FALSE
INVARIANTS  AckedPayloadStays PulledWasThere FileStoreKeepsLocal
PROPERTY ImplementsStore
