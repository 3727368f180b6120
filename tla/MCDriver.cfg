SPECIFICATION Spec
CONSTANTS
  Users = {u1, u2}
  Cards = {c1}
  Abis = {v1}
  NoAbi = NoAbi
  NoCall = NoCall
  CanFail <- Resources
  Cmds <- MCCmds
INVARIANTS TypeOK NoLeak LiveOwnsAll LastInFirstOut BoundNeedsControl LiveDrivesEveryCard ExitIsAlone
PROPERTIES DanglingOnlyByFailedInit CopyFitsRequest LoaderSettles
