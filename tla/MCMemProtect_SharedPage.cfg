\* RLIMIT_MEMLOCK covers the whole address space, so no mlock fails: the
\* violation comes from one buffer's munlock undoing another buffer's mlock.
CONSTANTS
  a = a
  b = b
  k = k
  PageSize = 4
  NPages = 2
  MemlockLimit = 2
  MaxTracked = 3
  Buffers <- MCBuffers
  FromAllocator <- MCFromAllocator
  Start <- MCStart
  Size <- MCSize
SPECIFICATION Spec
INVARIANT SecretsLocked
