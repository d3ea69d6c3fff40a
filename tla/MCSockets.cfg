SPECIFICATION Spec
CONSTANTS
  Fd <- MCFd
  MaxAddrs = 2
INVARIANTS
  OwnsOnlyResults
  FailureExplained
  FreedOnceUnlessListenFails
CHECK_DEADLOCK FALSE
