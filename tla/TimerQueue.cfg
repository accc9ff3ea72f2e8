SPECIFICATION FairSpec
CONSTANTS
  Timers = {t1, t2}
  Delays <- MCDelays
  Intervals = {0, 1}
  TimeInt = 3
  SequenceInt = 8
  MaxNow = 4
  MaxCreated = 2
  MaxFunctors = 2
CHECK_DEADLOCK FALSE
INVARIANTS
  SetsAgree
  OneOwner
  TimerfdCovers
  NoAssertFails
PROPERTIES
  ImplementsAlarms
