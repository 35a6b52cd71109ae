SPECIFICATION FairSpec
CONSTANTS
  RetryInitial = 1
  RetryMax = 3
  Stable = 2
  Stale = 1
  QueueSize = 2
  MaxOutages = 2
  MaxRestarts = 1
INVARIANT TypeOK
PROPERTIES RecoversOnItsOwn OutageIsReported StopsWhenCancelled
