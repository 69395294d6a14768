\* Blocks delivered whole: the client, its sessions and server.cpp.
CONSTANTS
  s1 = s1
  s2 = s2
  Sessions <- MCSessions
  BlockSize = 2
  Capacity = 3
  SplitBlocks = FALSE
SPECIFICATION FairSpec
INVARIANTS
  TypeOK
  FrameOutlivesSessions
  NoMutualWait
PROPERTIES
  StopEndsProgram
