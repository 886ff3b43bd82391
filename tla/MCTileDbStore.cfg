CONSTANTS
  Clients = {c1, c2}
  Keys = {"k"}
  Paths = {"p"}
  Chars = {1, 2, 3}
  Requests <- MCRequests
  MaxCalls = 5
  MaxCrashes = 1
SPECIFICATION Spec
SYMMETRY ClientSymmetry
CHECK_DEADLOCK FALSE
INVARIANTS LoserFindsIt AttributeWasThere StringsAreWhole AckedArrayStays ArraysAreWhole
