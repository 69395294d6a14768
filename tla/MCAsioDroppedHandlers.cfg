\* A session of server.cpp when the io_service is destroyed under it.
CONSTANTS
  callback = callback
  guarded = guarded
  polling = polling
  threaded = threaded
  Coroutines <- MCSessions
  Kind <- MCSessionKind
SPECIFICATION Spec
INVARIANT HandlersOwnCoroutines
CHECK_DEADLOCK FALSE
