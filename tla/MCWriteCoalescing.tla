------------------------- MODULE MCWriteCoalescing -------------------------
(* Two files, one byte per small write and Threshold = MaxSize = 2, so a   *)
(* third small write in a row overflows the buffer; four writes over four  *)
(* bytes, and two buffers so that a file gets a new one after Close.       *)
EXTENDS WriteCoalescing

CONSTANTS fa, fb

MCFiles == {fa, fb}
=============================================================================
