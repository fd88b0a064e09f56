\* One user task with accelerometer and card.
CONSTANTS
  Switch = 2
  DevUser = {u}
  SwUser = {u}
  MemsUser = {u}
  CardUser = {u}
  KZDEV_SW_SCAN_TIME = 1
  KZDEV_MMC_SCAN_TIME = 1
  Limit = 2
  NOBODY = NOBODY
  POLLER = POLLER
SPECIFICATION DevSpec
PROPERTIES CardTimesOut
