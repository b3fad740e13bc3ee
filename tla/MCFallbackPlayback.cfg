SPECIFICATION FairSpec
CONSTANTS
  MaxEntries = 2
  LastReg = 1
  FrameLimit = 2
  PokesPerFrame = 3
INVARIANTS
  ExclusiveOwner
  MutedAtExit
PROPERTIES
  FedAsRecorded
  ChannelSpec
  Terminates
