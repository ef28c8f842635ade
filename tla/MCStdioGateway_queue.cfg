\* lines cut anywhere by the pipe, turns that run code; timeout 3 is beyond setTimeout
CONSTANTS
  Messages <- MCMessages
  MaxMessages = 2
  RunMessages = {1}
  Timeouts = {1, 3}
  Grace = 1
  MaxDelay = 3
  MaxAge = 2
SPECIFICATION FairSpec
CHECK_DEADLOCK FALSE
INVARIANTS
  TypeOK
  AnswersInOrder
  NothingForgotten
  OneTurnAtATime
  OneRuntime
  TimerReleased
PROPERTIES
  AnsweredUnlessAbandoned
  WorkerReleased
