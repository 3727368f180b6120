SPECIFICATION Spec
CONSTANTS
  MaxU = 63
  Prec = 4
  Unit = 4096
  Dims <- MCDims
  Widths <- MCWidths
  SailCounts <- MCSails
  Bandwidths <- MCBandwidths
  MaxExp = 18
  Inf = Inf
INVARIANTS ModelParallelIsCheaper TensorParallelIsNoWorse DegenerateIsTensorParallel SaturationKeepsFootprints RevACrossover RowsKeepTheChoice HostPathKeepsModelParallel
CHECK_DEADLOCK FALSE
