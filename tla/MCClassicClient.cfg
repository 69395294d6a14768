\* The callback client with two sessions: accounting, buffers and the timeout.
CONSTANTS
  s1 = s1
  s2 = s2
  Sessions <- MCSessions
  BlockSize <- MCBlockSize
  MaxBytes <- MCMaxBytes
SPECIFICATION FairSpec
INVARIANTS
  TypeOK
  HealthySessionIsNeverIdle
  BytesBalance
  WriteBufferExclusive
  DeletedQuiet
  TotalsAreComplete
PROPERTIES
  TimeoutEndsProgram
