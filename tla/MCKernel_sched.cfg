\* Three tasks, two of the same priority; the services that move ready tasks.
CONSTANTS
  a = a
  b = b
  c = c
  Task = {a, b, c}
  NULL = NULL
  TNUM_TPRI = 2
  ipriority <- MCipriority
  TA_ACT = {b, c}
  torder_table <- MCtorder
  texrtn = {}
  WObj = {}
  TA_TPRI = {}
  MaxNest = 1
  MaxTexLevel = 0
SPECIFICATION SchedSpec
INVARIANTS ReadyQueueInv SchedtskInv
PROPERTIES OneGoesToTail
