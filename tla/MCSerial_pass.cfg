\* Two tasks that read and write, the port is closed only when drained.
CONSTANTS
  t1 = t1
  t2 = t2
  Task = {t1, t2}
  SERIAL_BUFSZ = 3
  BUFCNT_STOP = 2
  BUFCNT_START = 1
  UIntRange = 16
  MaxLen = 2
  Ioctls <- Echo
  CloseDrained = TRUE
SYMMETRY Perms
SPECIFICATION Spec
INVARIANTS TokenInv NothingLost FcWillBeSent
PROPERTIES InOrder
