SPECIFICATION FairSpec
CONSTANTS
  RetryInitial = 1
  RetryMax = 2
  Stable = 1
  Stale = 1
  QueueSize = 1
  MaxOutages = 1
  MaxRestarts = 1
PROPERTY SlackIsRetried
