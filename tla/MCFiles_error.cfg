\* One file object, and one failing transfer.
CONSTANTS
  f1 = f1
  f2 = f2
  max_clust = 5
  per_fat = 2
  n_rootdir = 4
  per_dir = 2
  Volume <- MCVolume
  Name = {f1, f2}
  Length = {1, 3}
  Offset = {0, 2, 3}
  Object = {1}
  MaxFile = 3
  MaxTransfer = 9
  MaxFaults = 1
  MaxCalls = 3
  Cuts = {FALSE}
  NONE = NONE
  END = END
  BROKEN = BROKEN
  OpenMode = {"r", "w", "rp"}
SPECIFICATION StdioSpec
PROPERTIES ErrorsReported
CHECK_DEADLOCK FALSE
