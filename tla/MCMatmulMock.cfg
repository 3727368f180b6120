SPECIFICATION Spec
CONSTANTS
  Threads = {t1, t2}
  Args <- MCFewArgs
  MaxCalls = 2
  MaxU = 63
  QK_K = 2
  Q4_K_BLOCK_BYTES = 3
  OUTPUT_ELEM_BYTES = 4
  None = None
SYMMETRY MCSymmetry
INVARIANTS TypeOK RecordTellsTheCall SnapshotStaysTrue LengthsAreTrue NoStaleOperand
