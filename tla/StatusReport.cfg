\* Three kernel threads, two more than the code registers; the shell's is the
\* one that kills, as in ENOS.
CONSTANTS
  NumKernelTasks = 3
  Depths = {0, 1}
  SleepArgs = {0, 2, 6}
  TickModulus = 100
  MaxTicks = 12
  KillFrom = {"Kernel"}
SPECIFICATION SpecReport
INVARIANTS
  RunningIsCurrent
  ContextsIntact
  NoPanic
  WakesOnTime
  TickAccounting
  PsTruthful
  PercentagesAddUp
  CountCoversList
  KilledIsNotListed
PROPERTIES
  NeverResumedEarly
  RemovedStaysRemoved
  RoundRobin
CHECK_DEADLOCK FALSE
