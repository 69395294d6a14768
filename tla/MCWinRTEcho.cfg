\* The WinRT client against either server that replies with what it has read.
CONSTANTS
  s1 = s1
  s2 = s2
  Sessions <- MCSessions
  BlockSize = 5
  Capacity = 2
SPECIFICATION FairSpec
INVARIANTS
  BlockGoesRound
  FrameOutlivesSessions
PROPERTIES
  StopEndsProgram
