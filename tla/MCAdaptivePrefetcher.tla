------------------------ MODULE MCAdaptivePrefetcher ------------------------
(* Two readers; sizes scaled down: Min 2, Default 4, Max 8 stand for 256,  *)
(* 512 and 4096 (the profiling steps halve and double as in the code);     *)
(* reads of 1 or 2 bytes stand for 16 and 32, no larger than the minimum.  *)
EXTENDS AdaptivePrefetcher, TLC

CONSTANTS r1, r2

MCReaders == {r1, r2}

\* Below the minimum and above the maximum (100 and 10000 in the
\* size tests).
MCSetSizes == {1, 9}

Symmetry == Permutations(MCReaders)
=============================================================================
