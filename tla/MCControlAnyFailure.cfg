SPECIFICATION ControlSpec
CONSTANTS
  Users = {u1, u2}
  Cards = {}
  Abis <- MCOneAbi
  NoAbi = NoAbi
  NoCall = NoCall
  NoHandle = NoHandle
  CanFail <- Resources
  Cmds <- MCCmds
SYMMETRY MCSymmetry
INVARIANT OpenHandleAlwaysAnswered
