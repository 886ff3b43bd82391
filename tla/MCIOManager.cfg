CONSTANTS
  Scopes = {"pm", "act"}
  Parent <- MCParent
  Stores <- MCStores
  Inputs <- MCInputs
  Outputs <- MCOutputs
  Requests <- MCRequests
  Objects <- MCObjects
  LocalFiles <- MCLocalFiles
  WalkOrder <- MCWalkOrder
  Above <- MCAbove
  Loose <- MCLoose
  Stray <- MCStray
  Contents = {"A", "B"}
  InitialRemote <- MCInitialRemote
  InitialLocal <- MCInitialLocal
  MaxCalls = 2
  MaxChanges = 1
SPECIFICATION Spec
CHECK_DEADLOCK FALSE
INVARIANTS CopyToLocalComplete AtMostOneTruncated NilMeansStored ErrorLeavesWhole UploadIsPrefix
