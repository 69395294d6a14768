\* One coroutine of each kind, with the io_service stopped and destroyed at any time.
CONSTANTS
  callback = callback
  guarded = guarded
  polling = polling
  threaded = threaded
  Coroutines <- MCCoroutines
  Kind <- MCKind
SPECIFICATION FairSpec
INVARIANTS
  TypeOK
  OneResumer
  StorageReturnedInTime
  GuardedCoroutinesEnd
PROPERTIES
  ImplementsResumption
  NoLostWakeup
CHECK_DEADLOCK FALSE
