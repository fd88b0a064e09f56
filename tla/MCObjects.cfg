\* Three tasks and one object of each kind.
CONSTANTS
  t1 = t1
  t2 = t2
  t3 = t3
  sem = sem
  flg = flg
  flgclr = flgclr
  fifo = fifo
  bypri = bypri
  pool = pool
  m1 = m1
  m2 = m2
  m3 = m3
  Task = {t1, t2, t3}
  NULL = NULL
  TNUM_TPRI = 2
  ipriority <- MCipriority
  TA_ACT = {t1, t2}
  torder_table <- MCtorder
  texrtn = {}
  d1 = d1
  d2 = d2
  lock = lock
  swait_queue = swait
  rwait_queue = rwait
  Capacity = {0, 2}
  Data = {d1, d2}
  WObj = {sem, lock, flg, flgclr, fifo, bypri, pool, swait, rwait}
  TA_TPRI = {sem, lock, pool}
  Sem = {sem, lock}
  isemcnt <- MCisemcnt
  maxsem <- MCmaxsem
  Flg = {flg, flgclr}
  TA_CLR = {flgclr}
  iflgptn <- MCiflgptn
  Bit = {1, 2}
  Mbx = {fifo, bypri}
  TA_MPRI = {bypri}
  Msg = {m1, m2, m3}
  MSGPRI <- MCMSGPRI
  Mpf = {pool}
  limit <- MClimit
  TCNT_SYSLOG_BUFFER = 2
  Severity = {0, 5}
  MaxLog = 6
  MaxNest = 1
  MaxTexLevel = 0
SPECIFICATION ObjSpec
INVARIANTS SemInv WaitQueueInv UnitsConserved FlgInv MbxInv MpfInv DtqInv HeapExclusive LogInv
PROPERTIES ImplementsChannel
CHECK_DEADLOCK FALSE
