\* Safety, refinement and liveness of one session of the callback server.
CONSTANTS
  BlockSize <- MCBlockSize
  MaxBytes <- MCMaxBytes
SPECIFICATION FairSpec
INVARIANTS
  TypeOK
  DestroyedOnceAndQuiet
  BuffersDisjoint
  EchoInOrder
  IInv
PROPERTIES
  NoLaunchAfterError
  ImplementsEchoStream
  EveryByteEchoed
  FailedSessionDeleted
