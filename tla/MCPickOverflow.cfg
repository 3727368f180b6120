SPECIFICATION Spec
CONSTANTS
  MaxU = 63
  Prec = 4
  Unit = 4096
  MaxExp = 18
  Dims <- MCDims
  Widths <- MCWidths
  SailCounts <- MCSails
  Bandwidths <- MCBandwidths
  Inf = Inf
INVARIANT OverflowIsInfinite
CHECK_DEADLOCK FALSE
