SPECIFICATION Spec
CONSTANTS
  Vals <- MCVals
  NaNs <- MCNaNs
  Add <- MCAdd
  Over <- MCOver
  Gt <- MCGt
  Sizes = {0, 1, 2, 3}
  Inputs <- MCInputs
INVARIANTS TypeOK ReductionIsExact MisfitsAreRefused NeverPanics GatherConcatenates
CHECK_DEADLOCK FALSE
