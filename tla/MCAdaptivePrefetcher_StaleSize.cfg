CONSTANTS
  r1 = r1
  r2 = r2
  NoHolder = NoHolder
  Readers <- MCReaders
  SetSizes = {}
  MinPrefetchSize = 2
  DefaultPrefetchSize = 4
  MaxPrefetchSize = 8
  Wants = {1, 2}
  MaxReads = 3
SPECIFICATION Spec
CHECK_DEADLOCK FALSE
INVARIANT NoSizePanic
