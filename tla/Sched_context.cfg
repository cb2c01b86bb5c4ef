SPECIFICATION Spec
CONSTANTS
  idle = idle
  base = base
  init = init
  user = user
  Tid <- MCTid
  IDLE = idle
  BASE = base
  Children <- MCChildren
  Prio <- MCPrio
  DEFAULT = 80
  Suspenders = {}
  BOOT = BOOT
  PREEMPT = PREEMPT
  NULL = NULL
INVARIANTS
  OwnContext
