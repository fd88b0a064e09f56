\* Two users of each driver and two files.
CONSTANTS
  t1 = t1
  t2 = t2
  u1 = u1
  u2 = u2
  f1 = f1
  f2 = f2
  SPI_DEVICE_SEM = SEM_SPI
  SPI_COMPLETE_SIG = SIG_SPI
  SpiUser = {t1, t2}
  Transfer <- MCTransfer
  MayTimeOut = FALSE
  Task = {t1, t2}
  NULL = NULL
  TNUM_TPRI = 2
  ipriority <- MCipriority
  TA_ACT = {t1, t2}
  torder_table <- MCtorder
  texrtn = {}
  WObj = {SEM_SPI, SIG_SPI}
  TA_TPRI = {SEM_SPI, SIG_SPI}
  Sem = {SEM_SPI, SIG_SPI}
  isemcnt <- MCisemcnt
  maxsem <- MCmaxsem
  MaxNest = 1
  MaxTexLevel = 0
  max_clust = 5
  per_fat = 2
  n_rootdir = 4
  per_dir = 2
  Volume <- MCVolume
  Name = {f1, f2}
  Length = {1, 3}
  Offset = {0, 2, 3}
  Object = {1, 2}
  MaxFile = 3
  MaxTransfer = 9
  MaxFaults = 1
  MaxCalls = 4
  Cuts = {TRUE, FALSE}
  NONE = NONE
  END = END
  BROKEN = BROKEN
  OpenMode = {"r", "w", "rp", "a", "cp"}
  AudioUser = {u1}
  Blocks = {0, 1, 2}
  MaxBlocks = 2
  MaxRows = 9
  CbkWaits = TRUE
  Switch = 2
  DevUser = {u1, u2}
  SwUser = {u1}
  MemsUser = {u1}
  CardUser = {u1, u2}
  KZDEV_SW_SCAN_TIME = 1
  KZDEV_MMC_SCAN_TIME = 1
  Limit = 2
  NOBODY = NOBODY
  POLLER = POLLER
SPECIFICATION SdkSpec
INVARIANTS TransferDone OneTransfer FatInv Delayed QuietWhenStopped SwitchesReported
PROPERTIES ImplementsFiles CallsApart NoEarlyTimeout CardTimesOutAlone
CHECK_DEADLOCK FALSE
