\* A split block: client.cpp and server.cpp wait for each other for good after stop.
CONSTANTS
  s1 = s1
  s2 = s2
  Sessions <- MCOneSession
  BlockSize = 2
  Capacity = 2
  SplitBlocks = TRUE
SPECIFICATION FairSpec
PROPERTY StopEndsProgram
