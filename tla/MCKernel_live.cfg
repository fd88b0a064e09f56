\* Two tasks, nested handlers, with fairness.
CONSTANTS
  a = a
  b = b
  c = c
  Task = {a, b}
  NULL = NULL
  TNUM_TPRI = 2
  ipriority <- MCipriority
  TA_ACT = {b}
  torder_table <- MCtorder
  texrtn = {}
  WObj = {}
  TA_TPRI = {}
  MaxNest = 2
  MaxTexLevel = 0
SPECIFICATION LiveSpec
PROPERTIES DispatchHappens
