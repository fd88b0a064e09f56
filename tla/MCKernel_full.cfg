\* Every service call, two tasks of different priority.
CONSTANTS
  a = a
  b = b
  c = c
  Task = {a, b}
  NULL = NULL
  TNUM_TPRI = 2
  ipriority <- MCipriority
  TA_ACT = {b}
  torder_table <- MCtorder
  texrtn = {a}
  WObj = {}
  TA_TPRI = {}
  MaxNest = 2
  MaxTexLevel = 1
SPECIFICATION Spec
INVARIANTS TypeOK ReadyQueueInv SchedtskInv DispatchInv HoldInv RunningInv TstatInv TimerInv TexInv
PROPERTIES NoSwitchWhileHeld
