CONSTANTS
  c0 = c0
  c1 = c1
  t1 = t1
  t2 = t2
  Cpus <- TwoCpus
  Tasks <- TwoTasks
  Home <- HomeFirst
  Globals <- SecondTask
  Target <- TargetFirst
  MaxLoad = 2
  Batch = 1
  WakeCap = 4
  GlobalCap = 2
  MaxStale = 1
SPECIFICATION FairSpec
CHECK_DEADLOCK FALSE
INVARIANT TasksSound
PROPERTY TasksFinish
