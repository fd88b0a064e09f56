\* A port closed with characters unread.
CONSTANTS
  t1 = t1
  t2 = t2
  Task = {t1, t2}
  SERIAL_BUFSZ = 3
  BUFCNT_STOP = 2
  BUFCNT_START = 1
  UIntRange = 16
  MaxLen = 2
  Ioctls <- Both
  CloseDrained = FALSE
SYMMETRY Perms
SPECIFICATION Spec
INVARIANTS RcvCountInRange
