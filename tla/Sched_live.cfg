SPECIFICATION FairSpec
CONSTANTS
  idle = idle
  base = base
  init = init
  user = user
  Tid <- MCTid3
  IDLE = idle
  BASE = base
  Children <- MCChildren3
  Prio <- MCPrio3
  DEFAULT = 80
  Suspenders = {user}
  BOOT = BOOT
  PREEMPT = PREEMPT
  NULL = NULL
PROPERTIES
  SleeperWakes
  ImplementsScheduler
