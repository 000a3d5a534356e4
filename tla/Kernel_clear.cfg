CONSTANTS
  NumKernelTasks = 1
  Depths = {0}
  SleepArgs = {1}
  TickModulus = 2
  MaxTicks = 2
  KillFrom = {"Kernel"}
  QueueCapacity = 2
  Keys = {"enter"}
  Commands = {"clear"}
  UserEvents = {"print", "sleep"}
  MaxKeys = 1
SPECIFICATION Spec
INVARIANTS
  WriterLockNeverSpins
