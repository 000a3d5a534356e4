\* Fair ticks for ever: tick_count wraps around and the bound never applies.
\* kill_task is called from ring 3 context too: the MarkedForTermination path.
CONSTANTS
  NumKernelTasks = 2
  Depths = {0, 1}
  SleepArgs = {1, 3}
  TickModulus = 4
  MaxTicks = 4
  KillFrom = {"Kernel", "User"}
SPECIFICATION FairSpec
INVARIANTS
  IInv
PROPERTIES
  MarkedDiesNextTick
  ReadyRuns
  SleeperWakes
