\* a code run whose worker exits without a message
CONSTANTS
  Messages <- MCCalls
  MaxMessages = 2
  RunMessages = {1}
  Timeouts = {1}
  Grace = 1
  MaxDelay = 3
  MaxAge = 2
SPECIFICATION FairSpec
CHECK_DEADLOCK FALSE
PROPERTY
  EveryMessageAnswered
