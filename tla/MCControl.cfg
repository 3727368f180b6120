SPECIFICATION ControlSpec
CONSTANTS
  Users = {u1, u2}
  Cards = {c1}
  Abis <- MCAbis
  NoAbi = NoAbi
  NoCall = NoCall
  NoHandle = NoHandle
  CanFail <- MCNoPciFailure
  Cmds <- MCCmds
INVARIANTS ControlTypeOK HandleSeesOneAbi NoUseAfterFree SailKeepsModule
PROPERTIES ImplementsCtlDevice
