---------------------------- MODULE MCContentEnc ----------------------------
(* Model of internal/contentenc for TLC: one file, two file IDs (one      *)
(* re-creation, so blocks sealed under the old ID can be replayed), PlainBS = 2, IVLen = 2, TagLen = 1 (cipherBS = 5) and two *)
(* CPUs, which gives 3 goroutines for a 4-block read.                      *)
EXTENDS ContentEnc, TLC

CONSTANTS f1, id1, id2

MCFiles   == {f1}
MCFileIDs == {id1, id2}

\* 4 full blocks (a whole-file read runs 3 goroutines), and 3 full blocks
\* and a short one.  Reads of 1, 2-3, 4 full blocks and of the short one
\* alone reach the sequential, batch, parallel and empty paths.
MCContents == { <<1, 0, 1, 1, 0, 0, 1, 0>>, <<0, 1, 1, 0, 1, 1, 0>> }

\* One byte written at the start of block 3: the full last block of the
\* 8-byte content (the merge must keep the byte behind it) and the 1-byte
\* last block of the 7-byte one.
MCRMWOffsets == {6}

Symmetry == Permutations(MCFileIDs)
=============================================================================
