CONSTANTS
  NumKernelTasks = 1
  Depths = {0}
  SleepArgs = {1}
  TickModulus = 2
  MaxTicks = 2
  KillFrom = {"Kernel"}
  QueueCapacity = 1
  Keys = {"modifier", "char", "backspace", "enter", "up", "down"}
  Commands = {"clear", "echo", "uptime", "ps", "top", "tasks", "meminfo", "whoami", "kill", "touch", "ls", "fsinfo", "rm"}
  UserEvents = {"print", "sleep", "unknown", "invalid", "fault", "exception"}
  MaxKeys = 2
SPECIFICATION Spec
INVARIANTS
  GuardedLocksNeverSpin
  ShellNeverSpins
  InputAndHistoryApart
  HandlersAreAtomic
  IrqsAcknowledged
