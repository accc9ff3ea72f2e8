SPECIFICATION FairSpec
CONSTANTS
  Threads = {th1}
  Messages = {m1, m2}
  Length = 2
CHECK_DEADLOCK FALSE
INVARIANTS
  StreamInOrder
  WritingWhileBuffered
  TornDownOnce
  AbortsExplained
PROPERTIES
  ShutdownAfterDrain
  NoMessageAfterClose
  ShutdownCompletes
  OutputDrains
  TeardownCompletes
