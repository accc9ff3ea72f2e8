SPECIFICATION FairSpec
CONSTANTS
  InitRetryDelayMs = 1
  MaxRetryDelayMs = 3
  Channels = {ch1, ch2}
  TimerIds = {id1, id2, id3, id4}
  MaxFunctors = 2
CHECK_DEADLOCK FALSE
INVARIANTS
  AssertionsHold
  OneAttempt
  ChannelOutlivesWatch
PROPERTIES
  StopHolds
  KeepsTrying
