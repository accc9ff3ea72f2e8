SPECIFICATION FairSpec
CONSTANTS
  NoTask = NoTask
  Threads = {th1, th2}
  Tasks = {t1, t2, t3}
  EarlyTasks = {t3}
  MaxCounter = 2
INVARIANTS
  NoLostWakeup
PROPERTIES
  ImplementsTaskQueue
  EveryTaskRuns
  EarlyTasksRun
  QuitStopsLoop
  PollIsNotStarved
