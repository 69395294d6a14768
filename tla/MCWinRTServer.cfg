\* One session against main's shutdown, in every order of their steps.
CONSTANTS
  s1 = s1
  s2 = s2
  Head = Head
  Sessions <- MCOneSession
SPECIFICATION FairSpec
INVARIANTS
  TypeOK
  OneResumer
  FrameOutlivesUsers
PROPERTIES
  ImplementsResumption
  NoLostResumption
  CancelledSessionEnds
CHECK_DEADLOCK FALSE
