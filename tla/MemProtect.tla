------------------------------ MODULE MemProtect ------------------------------
(***************************************************************************)
(* Package memprotect on Linux: a MemoryProtection value (enabled flag and *)
(* the lockedPages list of pointers) over the kernel's per-page state.     *)
(* The address space is NPages pages of PageSize bytes; a buffer is a byte *)
(* range [Start(b), Start(b) + Size(b)).  The kernel keeps one lock bit per *)
(* page (mlock does not nest: one munlock of a page undoes any number of   *)
(* mlocks of it) and one MADV_DONTDUMP bit per page.  The contents of a    *)
(* buffer are abstracted to whether it holds key material.                 *)
(***************************************************************************)
EXTENDS Naturals, Sequences, SequencesExt, FiniteSets

CONSTANTS
  PageSize,       \* syscall.Getpagesize()
  NPages,         \* pages of the address space
  Buffers,        \* byte slices the callers hold
  Start(_),       \* &data[0] of a buffer
  Size(_),        \* len(data) of a buffer
  FromAllocator,  \* buffers returned by AllocatePageAligned
  MemlockLimit,   \* RLIMIT_MEMLOCK, in pages
  MaxTracked      \* bound on the length of lockedPages

ASSUME /\ PageSize \in Nat \ {0} /\ NPages \in Nat /\ MemlockLimit \in Nat
       /\ FromAllocator \subseteq Buffers
       /\ \A b \in Buffers : Size(b) > 0 /\ Start(b) + Size(b) <= PageSize * NPages

Pages == 0..NPages - 1

(***************************************************************************)
(* The kernel side of the syscalls.  mlock, munlock and madvise act on     *)
(* whole pages: the kernel rounds the start down to a page boundary and    *)
(* the length, plus the start's offset in its page, up (mm/mlock.c).  So   *)
(* munlock(ptr, 0) is a no-op for an aligned ptr and unlocks ptr's page    *)
(* otherwise.                                                              *)
(***************************************************************************)
Span(addr, len) ==
  LET off == addr % PageSize
      first == addr \div PageSize
  IN first..(first + (len + off + PageSize - 1) \div PageSize - 1)

\* mlock fails with ENOMEM when the pages locked afterwards would exceed
\* RLIMIT_MEMLOCK; it locks all of the range or nothing.
mlock(locked, ps) ==
  IF Cardinality(locked \cup ps) <= MemlockLimit THEN locked \cup ps ELSE locked

munlock(locked, addr, len) == locked \ Span(addr, len)

\* madvise fails with EINVAL unless addr is page aligned.
madvise(nodump, addr, len) ==
  IF addr % PageSize = 0 THEN nodump \cup Span(addr, len) ELSE nodump

\* mlockall(MCL_CURRENT | MCL_FUTURE) fails with ENOMEM when the mapped
\* size exceeds RLIMIT_MEMLOCK.
mlockallOK == NPages <= MemlockLimit

VARIABLES
  enabled,      \* mp.enabled
  lockedPages,  \* mp.lockedPages
  mlocked,      \* kernel: pages with the lock bit set
  nodump,       \* kernel: pages marked MADV_DONTDUMP
  live,         \* buffers allocated so far
  secret,       \* buffers holding key material
  promised,     \* history: buffers a lock call reported locked, not unlocked since
  phEnabled,    \* processhardening: ph.enabled
  dumpable,     \* kernel: the process's PR_SET_DUMPABLE flag
  coreDumps     \* kernel: RLIMIT_CORE above zero

vars == <<enabled, lockedPages, mlocked, nodump, live, secret, promised,
          phEnabled, dumpable, coreDumps>>
mpVars == <<enabled, lockedPages, mlocked, nodump, live, secret, promised>>
phVars == <<phEnabled, dumpable, coreDumps>>

\* New: enabled, with an empty lockedPages.
Init ==
  /\ enabled = TRUE
  /\ lockedPages = << >>
  /\ mlocked = {} /\ nodump = {}
  /\ live = Buffers \ FromAllocator
  /\ secret = {}
  /\ promised = {}
  /\ phEnabled = TRUE /\ dumpable = TRUE /\ coreDumps = TRUE

\* The body of LockMemory on the range [addr, addr + len): mlock and madvise
\* failures are only logged; ptr is tracked and true returned either way.
Lock(b, addr, len) ==
  /\ Len(lockedPages) < MaxTracked
  /\ mlocked' = mlock(mlocked, Span(addr, len))
  /\ nodump' = madvise(nodump, addr, len)
  /\ lockedPages' = Append(lockedPages, addr)
  /\ promised' = promised \cup {b}

\* LockMemory(data); when disabled it returns false and changes nothing.
LockMemory(b) ==
  /\ enabled /\ b \in live
  /\ Lock(b, Start(b), Size(b))
  /\ UNCHANGED <<enabled, live, secret>>

\* LockMemoryPageAligned(data): rounds ptr down and len(data) up to pages,
\* then mlocks [alignedPtr, alignedPtr + alignedSize).  A failed mlock
\* returns false and changes nothing; a failed madvise is only logged.
LockMemoryPageAligned(b) ==
  /\ enabled /\ b \in live
  /\ LET alignedPtr == Start(b) - (Start(b) % PageSize)
         alignedSize == ((Size(b) + PageSize - 1) \div PageSize) * PageSize
         ps == Span(alignedPtr, alignedSize)
     IN /\ Cardinality(mlocked \cup ps) <= MemlockLimit
        /\ Len(lockedPages) < MaxTracked
        /\ mlocked' = mlocked \cup ps
        /\ nodump' = madvise(nodump, alignedPtr, alignedSize)
        /\ lockedPages' = Append(lockedPages, alignedPtr)
  /\ promised' = promised \cup {b}
  /\ UNCHANGED <<enabled, live, secret>>

\* The body of UnlockMemory: munlock(ptr, len(data)), then remove the first
\* entry of lockedPages equal to ptr.
Unlock(b) ==
  /\ mlocked' = munlock(mlocked, Start(b), Size(b))
  /\ lockedPages' = RemoveFirst(lockedPages, Start(b))
  /\ promised' = promised \ {b}

UnlockMemory(b) ==
  /\ b \in live
  /\ Unlock(b)
  /\ UNCHANGED <<enabled, nodump, live, secret>>

\* SecureWipe calls SecureWipeEnhanced: SecureRandom (crypto/rand, or a
\* fixed pattern if that fails: the key is overwritten either way), then
\* UnlockMemory.
SecureWipe(b) ==
  /\ b \in live
  /\ secret' = secret \ {b}
  /\ Unlock(b)
  /\ UNCHANGED <<enabled, nodump, live>>

\* SecureZero overwrites with zeros and leaves the lock alone.
SecureZero(b) ==
  /\ b \in live
  /\ secret' = secret \ {b}
  /\ UNCHANGED <<enabled, lockedPages, mlocked, nodump, live, promised>>

\* A caller stores key material in a buffer.
StoreKey(b) ==
  /\ b \in live /\ b \notin secret
  /\ secret' = secret \cup {b}
  /\ UNCHANGED <<enabled, lockedPages, mlocked, nodump, live, promised>>

\* AllocatePageAligned(size): make([]byte, alignedSize), LockMemory of the
\* whole allocation (its result ignored), and data[:size] returned.  A
\* buffer of FromAllocator starts at a page boundary (Go places objects
\* whose size is a multiple of the page size on page boundaries).
AllocatePageAligned(b) ==
  /\ b \in FromAllocator \ live
  /\ live' = live \cup {b}
  /\ IF enabled
       THEN Lock(b, Start(b), ((Size(b) + PageSize - 1) \div PageSize) * PageSize)
       ELSE UNCHANGED <<lockedPages, mlocked, nodump, promised>>
  /\ UNCHANGED <<enabled, secret>>

\* Cleanup: munlock(ptr, 0) for every tracked ptr, then an empty list.
Cleanup ==
  /\ mlocked' = mlocked \ UNION {Span(lockedPages[i], 0) : i \in 1..Len(lockedPages)}
  /\ lockedPages' = << >>
  /\ promised' = {}
  /\ UNCHANGED <<enabled, nodump, live, secret>>

\* LockAllMemory: mlockall(MCL_CURRENT | MCL_FUTURE); false when disabled
\* or when mlockall fails, with nothing changed.
LockAllMemory ==
  /\ enabled /\ mlockallOK
  /\ mlocked' = Pages
  /\ UNCHANGED <<enabled, lockedPages, nodump, live, secret, promised>>

\* UnlockAllMemory: munlockall; lockedPages is left as it is.
UnlockAllMemory ==
  /\ mlocked' = {}
  /\ promised' = {}
  /\ UNCHANGED <<enabled, lockedPages, nodump, live, secret>>

Disable ==
  /\ enabled' = FALSE
  /\ UNCHANGED <<lockedPages, mlocked, nodump, live, secret, promised>>

(***************************************************************************)
(* Package processhardening on Linux, over the same kernel state: its     *)
(* mlocks set the same per-page lock bits and count against the same      *)
(* RLIMIT_MEMLOCK as memprotect's.  Every syscall error is discarded.      *)
(***************************************************************************)

\* HardenProcess: prctl(PR_SET_DUMPABLE, 0) and RLIMIT_CORE = 0 (lowering a
\* limit always succeeds); setMemoryProtection does nothing.
HardenProcess ==
  /\ phEnabled
  /\ dumpable' = FALSE /\ coreDumps' = FALSE
  /\ UNCHANGED <<phEnabled>> /\ UNCHANGED mpVars

\* The body of KeepAlive: mlock(&data[0], len(data)), never undone.
KeepAliveLock(b) == mlocked' = mlock(mlocked, Span(Start(b), Size(b)))

KeepAlive(b) ==
  /\ b \in live
  /\ KeepAliveLock(b)
  /\ UNCHANGED <<enabled, lockedPages, nodump, live, secret, promised>>
  /\ UNCHANGED phVars

\* ph.SecureWipe: overwrite with the pattern i % 256, runtime.GC, KeepAlive.
PHSecureWipe(b) ==
  /\ b \in live
  /\ secret' = secret \ {b}
  /\ KeepAliveLock(b)
  /\ UNCHANGED <<enabled, lockedPages, nodump, live, promised>>
  /\ UNCHANGED phVars

PHDisable ==
  /\ phEnabled' = FALSE
  /\ UNCHANGED <<dumpable, coreDumps>> /\ UNCHANGED mpVars

MPNext ==
  \/ Cleanup \/ LockAllMemory \/ UnlockAllMemory \/ Disable
  \/ \E b \in Buffers :
       \/ LockMemory(b) \/ LockMemoryPageAligned(b) \/ UnlockMemory(b)
       \/ SecureWipe(b) \/ SecureZero(b) \/ StoreKey(b) \/ AllocatePageAligned(b)

PHNext ==
  \/ HardenProcess \/ PHDisable
  \/ \E b \in Buffers : KeepAlive(b) \/ PHSecureWipe(b)

Next == (MPNext /\ UNCHANGED phVars) \/ PHNext

Spec == Init /\ [][Next]_vars

(***************************************************************************)
(* Properties                                                              *)
(***************************************************************************)

TypeOK ==
  /\ enabled \in BOOLEAN
  /\ lockedPages \in Seq(0..PageSize * NPages - 1)
  /\ mlocked \subseteq Pages /\ nodump \subseteq Pages
  /\ live \subseteq Buffers /\ secret \subseteq live /\ promised \subseteq live
  /\ phEnabled \in BOOLEAN /\ dumpable \in BOOLEAN /\ coreDumps \in BOOLEAN

\* The package's promise (memprotect.go:1-4, memprotect_linux.go:14-16): a
\* buffer that LockMemory, LockMemoryPageAligned or AllocatePageAligned
\* reported locked, and that holds key material and has not been unlocked
\* since, lies on locked pages only, whatever other buffers were locked
\* and unlocked in between.
SecretsLocked ==
  \A b \in promised \cap secret : Span(Start(b), Size(b)) \subseteq mlocked

\* ... and it is excluded from core dumps (MADV_DONTDUMP on all its pages).
SecretsNotDumped ==
  \A b \in promised \cap secret : Span(Start(b), Size(b)) \subseteq nodump

=============================================================================
