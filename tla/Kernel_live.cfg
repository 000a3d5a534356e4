CONSTANTS
  NumKernelTasks = 1
  Depths = {0}
  SleepArgs = {1}
  TickModulus = 2
  MaxTicks = 2
  KillFrom = {"Kernel"}
  QueueCapacity = 2
  Keys = {"modifier", "backspace"}
  Commands = {}
  UserEvents = {"sleep", "fault", "exception"}
  MaxKeys = 3
SPECIFICATION FairSpec
PROPERTIES
  KeysProcessed
