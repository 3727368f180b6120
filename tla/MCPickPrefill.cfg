SPECIFICATION Spec
CONSTANTS
  MaxU = 255
  Prec = 6
  Unit = 8192
  MaxExp = 18
  Dims <- MCLlamaDims
  Widths = {2}
  SailCounts = {4}
  Bandwidths <- MCRevABandwidths
  Inf = Inf
INVARIANT PrefillFlipsToTP
CHECK_DEADLOCK FALSE
