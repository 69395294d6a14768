\* The callback client against the callback server over a small connection.
CONSTANTS
  BlockSize <- MCBlockSize
  MaxBytes <- MCMaxBytes
  Capacity <- MCCapacity
SPECIFICATION FairSpec
INVARIANTS
  OneBlockCirculates
  NoMutualWait
PROPERTIES
  TimeoutEndsServerSession
