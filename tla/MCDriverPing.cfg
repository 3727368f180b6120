SPECIFICATION Spec
CONSTANTS
  Users = {u1}
  Cards = {c1}
  Abis = {v1}
  NoAbi = NoAbi
  NoCall = NoCall
  CanFail <- Resources
  Cmds <- MCCmds
PROPERTY PingMeansLoaded
