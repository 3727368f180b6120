SPECIFICATION Spec
CONSTANTS
  Threads = {t1}
  Args <- MCManyArgs
  MaxCalls = 1
  MaxU = 63
  QK_K = 2
  Q4_K_BLOCK_BYTES = 3
  OUTPUT_ELEM_BYTES = 4
  None = None
INVARIANT OutIsQuantized
