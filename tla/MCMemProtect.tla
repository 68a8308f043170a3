----------------------------- MODULE MCMemProtect -----------------------------
(***************************************************************************)
(* Two pages of four bytes.  Buffers a and b are small slices placed in    *)
(* the same page, as Go's allocator places small objects of one size       *)
(* class; k comes from AllocatePageAligned and starts page 1.              *)
(***************************************************************************)
EXTENDS MemProtect

CONSTANTS a, b, k

MCBuffers == {a, b, k}
MCFromAllocator == {k}
MCStart(x) == CASE x = a -> 1 [] x = b -> 3 [] x = k -> 4
MCSize(x) == CASE x = a -> 2 [] x = b -> 1 [] x = k -> 3

=============================================================================
