\* A START sent before the pending STOP it revokes.
CONSTANTS
  t1 = t1
  t2 = t2
  Task = {t1, t2}
  SERIAL_BUFSZ = 4
  BUFCNT_STOP = 3
  BUFCNT_START = 1
  UIntRange = 16
  MaxLen = 2
  Ioctls <- Both
  CloseDrained = TRUE
SYMMETRY Perms
SPECIFICATION Spec
INVARIANTS StopIsRemembered
