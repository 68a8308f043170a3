--------------------------- MODULE ParallelCrypto ---------------------------
(***************************************************************************)
(* The dispatch rules of internal/parallelcrypto (the version of the       *)
(* package that contentenc calls: ParallelThreshold 4, BatchThreshold 2,   *)
(* MaxParallelWorkers 16).  The package keeps no state between calls, so   *)
(* it is a set of operators: which mode a group of n blocks takes, how     *)
(* many goroutines it gets, and the index ranges [lo, hi) each goroutine   *)
(* (or each sequential batch) is handed.  Indices are 0-based, as in Go.   *)
(***************************************************************************)
EXTENDS Integers, Sequences

CONSTANTS
  NumCPU,    \* runtime.NumCPU(), read once in New()
  Enabled    \* pc.enabled; New() sets it, only tests call Disable()

ASSUME NumCPU \in Nat \ {0} /\ Enabled \in BOOLEAN

ParallelThreshold  == 4
MaxParallelWorkers == 16
MinParallelWorkers == 2
BatchThreshold     == 2

\* detectCPUFeatures does not probe the CPU: all three flags are hard-wired.
HasAVX  == TRUE
HasAVX2 == TRUE
HasAES  == TRUE

LOCAL MinOf(a, b) == IF a < b THEN a ELSE b

ShouldUseParallel(n) ==
  Enabled /\ NumCPU >= MinParallelWorkers /\ n >= ParallelThreshold

ShouldUseBatch(n) == Enabled /\ n >= BatchThreshold

\* int(float64(w) * 1.5) and int(float64(w) * 1.2) truncate towards zero.
GetOptimalWorkerCount(n) ==
  IF ~Enabled \/ n < ParallelThreshold \/ NumCPU < MinParallelWorkers THEN 1
  ELSE LET scaled == IF HasAVX2 /\ HasAES THEN (NumCPU * 3) \div 2
                     ELSE IF HasAVX THEN (NumCPU * 6) \div 5
                     ELSE NumCPU
       IN MinOf(MinOf(scaled, MaxParallelWorkers), n)

Range(lo, hi) == [lo |-> lo, hi |-> hi]

\* Mutant: the last goroutine does not pick up the left-over blocks.
ParallelRangesNoRemainder(n) ==
  IF ~ShouldUseParallel(n) THEN << Range(0, n) >>
  ELSE LET w  == GetOptimalWorkerCount(n)
           gs == n \div w
       IN [k \in 1..w |-> Range((k - 1) * gs, k * gs)]

\* ProcessBlocksParallel: one range per goroutine, the last one takes the
\* remainder of blockCount / workers.
ParallelRanges(n) ==
  IF ~ShouldUseParallel(n) THEN << Range(0, n) >>
  ELSE LET w  == GetOptimalWorkerCount(n)
           gs == n \div w
       IN [k \in 1..w |-> Range((k - 1) * gs, IF k = w THEN n ELSE k * gs)]

BatchSize == IF HasAVX2 THEN 8 ELSE 4

\* ProcessBlocksBatch: consecutive batches, run one after the other on the
\* calling goroutine.
BatchRanges(n) ==
  IF ~ShouldUseBatch(n) THEN << Range(0, n) >>
  ELSE [k \in 1..((n + BatchSize - 1) \div BatchSize) |->
          Range((k - 1) * BatchSize, MinOf(k * BatchSize, n))]

\* ProcessBlocksOptimized: the ranges handed to processFunc, and whether
\* they run concurrently.
OptimizedRanges(n) ==
  IF ShouldUseParallel(n) THEN ParallelRanges(n)
  ELSE IF ShouldUseBatch(n) THEN BatchRanges(n)
  ELSE << Range(0, n) >>

\* The indices a range covers, in the order processFunc visits them.
Indices(r) == [k \in 1..(r.hi - r.lo) |-> r.lo + k - 1]

=============================================================================
