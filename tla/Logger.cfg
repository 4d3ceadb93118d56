\* A queue of three, and twice as many messages.
SPECIFICATION FairSpec
CONSTANTS
  QueueLength = 3
  MaxMessages = 7
  MaxFailures = 2
PROPERTIES
  LogStreamed
  CallerReturns
  EveryMessageWritten
