CONSTANTS
  r1 = r1
  r2 = r2
  NoHolder = NoHolder
  Readers <- MCReaders
  SetSizes <- MCSetSizes
  MinPrefetchSize = 2
  DefaultPrefetchSize = 4
  MaxPrefetchSize = 8
  Wants = {1, 2}
  MaxReads = 3
SPECIFICATION LiveSpec
\* After Close the refill goroutine may stay blocked and the process moves on.
CHECK_DEADLOCK FALSE
INVARIANTS TypeOK NoShortRefill
PROPERTIES ReadReturns
