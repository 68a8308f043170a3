CONSTANTS
  fa = fa
  fb = fb
  NoBuf = NoBuf
  Files <- MCFiles
  Threshold = 2
  MaxSize = 2
  MaxPos = 4
  MaxWrites = 4
  MaxBufs = 3
  SeqSmall = TRUE
  FlushCanFail = FALSE
  CloseWaits = TRUE

SPECIFICATION Spec
INVARIANT TypeOK
INVARIANT StoreMatchesAcked
INVARIANT AckedNotLost
PROPERTY FileRefinement
