CONSTANTS
  OffersA = {"n1", "n2"}
  OffersB = {"n3"}
  MaxSteps = 2
SPECIFICATION MergeSpec
INVARIANT AutoGroupLoads
CHECK_DEADLOCK FALSE
