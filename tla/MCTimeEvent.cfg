\* A cyclic handler and five tasks; times are counted modulo 8.
CONSTANTS
  Event = {c1, t1, t2, t3, t4, t5}
  Cyc = {c1}
  cyctim <- MCcyctim
  cycphs <- MCcycphs
  TA_STA = {c1}
  Reltim = {0, 1, 3}
  W = 8
  TIC_NUME = 3
  TIC_DENO = 2
SYMMETRY TaskEvents
SPECIFICATION Spec
INVARIANTS HeapInv
PROPERTIES ImplementsTimers
