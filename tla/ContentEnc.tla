----------------------------- MODULE ContentEnc -----------------------------
(***************************************************************************)
(* internal/contentenc: sealing plaintext blocks with (blockNo, fileID) as *)
(* associated data, and DecryptBlocks, which opens a run of ciphertext     *)
(* blocks read from the backing store in one of three modes chosen by the  *)
(* parallel driver: sequential, batch, or parallel goroutines that share   *)
(* one error variable under a mutex.                                       *)
(*                                                                         *)
(* Data is abstracted: a byte is a member of Values, lengths are in units  *)
(* (PlainBS, IVLen, TagLen), and a stored ciphertext block is a record     *)
(* that says how it came about (sealed, hole of zero bytes, stub shorter   *)
(* than a nonce) together with its length.  The backing store is           *)
(* untrusted: the environment may corrupt, zero, replay or truncate        *)
(* stored blocks, keeping every block's length so that cutting the read    *)
(* buffer into cipherBS chunks yields the stored blocks again.             *)
(***************************************************************************)
EXTENDS Integers, Sequences, FiniteSets, SequencesExt

CONSTANTS
  Files,      \* ciphertext files
  FileIDs,    \* the 16-byte random file IDs, as model values
  NoID,       \* fid of a file that has no header yet
  Contents,   \* plaintexts a whole-file write may store
  PlainBS,    \* plaintext block size
  IVLen,      \* nonce length
  TagLen,     \* AEAD tag length
  NumCPU,
  MaxTamper,  \* bound on corruptions of the backing store
  RMWOffsets, \* file offsets a one-byte write may target
  MaxRMW      \* bound on read-modify-write writes

ASSUME PlainBS >= 1 /\ IVLen >= 2 /\ TagLen >= 1
ASSUME NoID \notin FileIDs

PC == INSTANCE ParallelCrypto WITH Enabled <- TRUE

\* New(): cipherBS := plainBS + IVLen + AuthTagLen
CipherBS == PlainBS + IVLen + TagLen

Zeros(n) == [k \in 1..n |-> 0]

MinOf(a, b) == IF a < b THEN a ELSE b

\* The file engine cuts a plaintext into PlainBS blocks; the last may be short.
SplitBlocks(c) ==
  [k \in 1..((Len(c) + PlainBS - 1) \div PlainBS) |->
     SubSeq(c, (k - 1) * PlainBS + 1, MinOf(k * PlainBS, Len(c)))]

-----------------------------------------------------------------------------
(* Stored ciphertext blocks.                                               *)

\* nonce || Seal(pt, aData = blockNo || fileID): the nonce is fresh from the
\* random IV generator, so it is never all-zero.
SealedBlock(id, no, pt) ==
  [kind |-> "sealed", id |-> id, no |-> no, pt |-> pt,
   zeroNonce |-> FALSE, intact |-> TRUE, len |-> IVLen + Len(pt) + TagLen]

HoleBlock(len)  == [kind |-> "zero", id |-> NoID, no |-> 0, pt |-> <<>>,
                    zeroNonce |-> TRUE, intact |-> FALSE, len |-> len]
StubBlock(len)  == [kind |-> "stub", id |-> NoID, no |-> 0, pt |-> <<>>,
                    zeroNonce |-> FALSE, intact |-> FALSE, len |-> len]

TotalLen(s) == FoldLeft(LAMBDA acc, b : acc + b.len, 0, s)

Errors == {"none", "short", "zeroNonce", "auth"}
Result(pt, err) == [pt |-> pt, err |-> err]

\* Mutant: concatAD leaves the file ID out of the associated data.
ADMatchesNoFileID(b, blockNo, fileID) == b.no = blockNo

\* concatAD: aData = bigEndian(blockNo) || fileID.  Opening succeeds iff
\* the block is untouched and was sealed with the same associated data.
ADMatches(b, blockNo, fileID) == b.no = blockNo /\ b.id = fileID

\* Mutant: the hole passthrough allocates a cipherBS-sized zero block.
DecryptBlockHoleCipherBS(b, blockNo, fileID) ==
  IF b.len = 0 THEN Result(<<>>, "none")
  ELSE IF b.kind = "zero" /\ b.len = CipherBS THEN Result(Zeros(CipherBS), "none")
  ELSE IF b.len < IVLen THEN Result(<<>>, "short")
  ELSE IF b.zeroNonce THEN Result(<<>>, "zeroNonce")
  ELSE IF b.kind = "sealed" /\ b.intact /\ ADMatches(b, blockNo, fileID)
       THEN Result(b.pt, "none")
  ELSE Result(<<>>, "auth")

\* DecryptBlock.  The all-zero check compares against an all-zero block of
\* exactly cipherBS bytes; a shorter all-zero block has an all-zero nonce.
DecryptBlock(b, blockNo, fileID) ==
  IF b.len = 0 THEN Result(<<>>, "none")
  ELSE IF b.kind = "zero" /\ b.len = CipherBS THEN Result(Zeros(PlainBS), "none")
  ELSE IF b.len < IVLen THEN Result(<<>>, "short")
  ELSE IF b.zeroNonce THEN Result(<<>>, "zeroNonce")
  ELSE IF b.kind = "sealed" /\ b.intact /\ ADMatches(b, blockNo, fileID)
       THEN Result(b.pt, "none")
  ELSE Result(<<>>, "auth")

\* EncryptBlocks: processFunc writes ciphertextBlocks[i] for the indices of
\* each range; the blocks are then concatenated (a nil entry adds nothing).
EncryptBlocks(pts, firstBlockNo, fileID) ==
  LET rs      == PC!OptimizedRanges(Len(pts))
      covered == {i \in 0..(Len(pts) - 1) :
                    \E r \in ToSet(rs) : r.lo <= i /\ i < r.hi}
  IN  FlattenSeq([k \in 1..Len(pts) |->
                    IF k - 1 \in covered
                    THEN << SealedBlock(fileID, firstBlockNo + k - 1, pts[k]) >>
                    ELSE << >>])

MergeBlocksFastPathOr(oldData, newData, offset) ==
  IF Len(oldData) = 0 \/ offset = 0 THEN newData
  ELSE LET outLen == IF Len(oldData) < offset + Len(newData)
                     THEN offset + Len(newData) ELSE Len(oldData)
       IN [i \in 1..outLen |->
             IF offset < i /\ i <= offset + Len(newData) THEN newData[i - offset]
             ELSE IF i <= Len(oldData) THEN oldData[i] ELSE 0]

\* MergeBlocks: newData copied over oldData at offset, in a zeroed block
\* of plainBS bytes cut to the longer of the two; the fast path returns
\* newData itself when the old block is empty and the offset 0.
MergeBlocks(oldData, newData, offset) ==
  IF Len(oldData) = 0 /\ offset = 0 THEN newData
  ELSE LET outLen == IF Len(oldData) < offset + Len(newData)
                     THEN offset + Len(newData) ELSE Len(oldData)
       IN [i \in 1..outLen |->
             IF offset < i /\ i <= offset + Len(newData) THEN newData[i - offset]
             ELSE IF i <= Len(oldData) THEN oldData[i] ELSE 0]

-----------------------------------------------------------------------------
VARIABLES
  fid,       \* file -> file ID in its header, NoID before the first write
  usedIDs,   \* file IDs drawn so far
  disk,      \* file -> sequence of stored ciphertext blocks
  written,   \* file -> the plaintext last written (history)
  touched,   \* file -> positions the backing store changed since the write
  sealed,    \* history: every <<fileID, blockNo, plaintext>> ever sealed
  tampers,   \* number of backing-store corruptions so far
  rd,        \* the DecryptBlocks call of the current read
  rmws       \* number of read-modify-write writes so far

vars == <<fid, usedIDs, disk, written, touched, sealed, tampers, rd, rmws>>

IdleRead == [phase |-> "idle", f |-> CHOOSE f \in Files : TRUE, first |-> 0,
             input |-> <<>>, id |-> NoID, mode |-> "seq", n |-> 0,
             todo |-> <<>>, out |-> <<>>, err |-> "none", data |-> <<>>,
             expect |-> <<>>, clean |-> FALSE]

Init ==
  /\ fid = [f \in Files |-> NoID]
  /\ usedIDs = {}
  /\ disk = [f \in Files |-> <<>>]
  /\ written = [f \in Files |-> <<>>]
  /\ touched = [f \in Files |-> {}]
  /\ sealed = {}
  /\ tampers = 0
  /\ rd = IdleRead
  /\ rmws = 0

-----------------------------------------------------------------------------
(* Writers.                                                                *)

\* A whole-file write from offset 0: the header (with a fresh random file
\* ID) is written before the first block; then EncryptBlocks.
WriteFile(f, c) ==
  /\ rd.phase = "idle"
  /\ \E id \in IF fid[f] = NoID THEN FileIDs \ usedIDs ELSE {fid[f]} :
       LET pts == SplitBlocks(c) IN
       /\ fid' = [fid EXCEPT ![f] = id]
       /\ usedIDs' = usedIDs \cup {id}
       /\ disk' = [disk EXCEPT ![f] = EncryptBlocks(pts, 0, id)]
       /\ sealed' = sealed \cup {<<id, k - 1, pts[k]>> : k \in DOMAIN pts}
  /\ written' = [written EXCEPT ![f] = c]
  /\ touched' = [touched EXCEPT ![f] = {}]
  /\ UNCHANGED <<rmws, tampers, rd>>

\* The file is deleted and created again under the same name: it gets no
\* header until its next write, and then a new file ID.
Recreate(f) ==
  /\ rd.phase = "idle"
  /\ fid[f] # NoID
  /\ FileIDs \ usedIDs # {}     \* model bound: a later write can draw an ID
  /\ fid' = [fid EXCEPT ![f] = NoID]
  /\ disk' = [disk EXCEPT ![f] = <<>>]
  /\ written' = [written EXCEPT ![f] = <<>>]
  /\ touched' = [touched EXCEPT ![f] = {}]
  /\ UNCHANGED <<rmws, usedIDs, sealed, tampers, rd>>

\* A one-byte write at offset off inside the file or at its end, into a
\* block the file already has: the block is read and opened (an error
\* ends the write with EIO and nothing written), the byte merged in with
\* MergeBlocks, and the block sealed again under its number and the file
\* ID.  A block the store had changed stays marked: its old bytes came
\* from the store, not from the writer.
\* The byte a test write puts at off: the old one flipped, 1 past the end.
Flipped(c, off) == IF off < Len(c) THEN 1 - c[off + 1] ELSE 1

WriteAt(f, off, v) ==
  /\ rd.phase = "idle"
  /\ rmws < MaxRMW
  /\ fid[f] # NoID
  /\ off <= Len(written[f])
  /\ LET k == off \div PlainBS
     IN /\ k < Len(disk[f])
        /\ LET r == DecryptBlock(disk[f][k + 1], k, fid[f])
               m == MergeBlocks(r.pt, <<v>>, off % PlainBS)
           IN /\ r.err = "none"
              /\ disk' = [disk EXCEPT ![f][k + 1] = SealedBlock(fid[f], k, m)]
              /\ sealed' = sealed \cup {<<fid[f], k, m>>}
  /\ written' = [written EXCEPT ![f] = IF off = Len(@) THEN Append(@, v)
                                                        ELSE [@ EXCEPT ![off + 1] = v]]
  /\ rmws' = rmws + 1
  /\ UNCHANGED <<fid, usedIDs, touched, tampers, rd>>

-----------------------------------------------------------------------------
(* The untrusted backing store.  Each change keeps the block's length.     *)

Tamper(f, i, b) ==
  /\ tampers < MaxTamper
  /\ rd.phase = "idle"
  /\ disk' = [disk EXCEPT ![f][i] = b]
  /\ touched' = [touched EXCEPT ![f] = @ \cup {i - 1}]
  /\ tampers' = tampers + 1
  /\ UNCHANGED <<rmws, fid, usedIDs, written, sealed, rd>>

\* A flipped bit: the block no longer opens, and an all-zero block is no
\* longer all-zero; its nonce stays zero unless the bit lies in the nonce.
BitFlip(b, inNonce) ==
  [b EXCEPT !.kind = IF @ = "zero" THEN "garbage" ELSE @,
            !.intact = FALSE,
            !.zeroNonce = @ /\ ~inNonce]

CorruptStore ==
  \E f \in Files : \E i \in DOMAIN disk[f] :
    LET b == disk[f][i] IN
    \/ \E inNonce \in BOOLEAN : Tamper(f, i, BitFlip(b, inNonce))  \* bit flip
    \/ Tamper(f, i, [b EXCEPT !.zeroNonce = TRUE])             \* zeroed nonce
    \/ Tamper(f, i, HoleBlock(b.len))                          \* zeroed block
    \/ \E t \in sealed :                                       \* replay
         /\ IVLen + Len(t[3]) + TagLen = b.len
         /\ Tamper(f, i, SealedBlock(t[1], t[2], t[3]))
    \/ /\ i = Len(disk[f])                                     \* torn tail
       /\ \E l \in 1..(IVLen - 1) : Tamper(f, i, StubBlock(l))

-----------------------------------------------------------------------------
(* DecryptBlocks(ciphertext, firstBlockNo, fileID).                        *)

\* The file engine reads the blocks first..first+cnt-1 (a short read at EOF
\* yields a partial last block) and calls DecryptBlocks on them.
DecryptBlocks(f, first, cnt) ==
  /\ rd.phase = "idle"
  /\ fid[f] # NoID
  /\ LET input == SubSeq(disk[f], first + 1, first + cnt)
         n     == TotalLen(input) \div CipherBS
         mode  == IF n = 0 THEN "empty"
                  ELSE IF PC!ShouldUseParallel(n) THEN "parallel"
                  ELSE IF PC!ShouldUseBatch(n) THEN "batch"
                  ELSE "seq"
         \* parallel: one goroutine per range; batch: the batches in order
         \* on one goroutine; sequential: the cBuf loop over every chunk.
         todo  == CASE mode = "parallel" ->
                         [w \in DOMAIN PC!ParallelRanges(n) |->
                            PC!Indices(PC!ParallelRanges(n)[w])]
                    [] mode = "batch" ->
                         << FlattenSeq([k \in DOMAIN PC!BatchRanges(n) |->
                                          PC!Indices(PC!BatchRanges(n)[k])]) >>
                    [] mode = "seq" -> << [k \in 1..Len(input) |-> k - 1] >>
                    [] OTHER -> <<>>
     IN rd' = [phase |-> IF mode = "empty" THEN "done" ELSE "busy",
               f |-> f, first |-> first, input |-> input, id |-> fid[f],
               mode |-> mode, n |-> n, todo |-> todo,
               out |-> [i \in 0..(Len(input) - 1) |-> <<>>],
               err |-> "none", data |-> <<>>,
               \* what the caller wrote there, and whether the store kept it
               expect |-> SubSeq(written[f], first * PlainBS + 1,
                                 MinOf((first + cnt) * PlainBS, Len(written[f]))),
               clean |-> touched[f] \cap first..(first + cnt - 1) = {}]
  /\ UNCHANGED <<rmws, fid, usedIDs, disk, written, touched, sealed, tampers>>

DecryptStepLastErr(w) ==
  /\ rd.phase = "busy"
  /\ rd.todo[w] # <<>>
  /\ LET i == Head(rd.todo[w])
         r == DecryptBlock(rd.input[i + 1], rd.first + i, rd.id)
     IN rd' = [rd EXCEPT
                 !.out[i]  = r.pt,
                 !.err     = r.err,
                 !.todo[w] = IF rd.mode = "seq" /\ r.err # "none" THEN <<>>
                             ELSE Tail(@)]
  /\ UNCHANGED <<rmws, fid, usedIDs, disk, written, touched, sealed, tampers>>

\* One goroutine decrypts its next block, then under mu records the block
\* and the error if none was recorded before.  The sequential loop breaks
\* on its first error.
DecryptStep(w) ==
  /\ rd.phase = "busy"
  /\ rd.todo[w] # <<>>
  /\ LET i == Head(rd.todo[w])
         r == DecryptBlock(rd.input[i + 1], rd.first + i, rd.id)
     IN rd' = [rd EXCEPT
                 !.out[i]  = r.pt,
                 !.err     = IF r.err # "none" /\ @ = "none" THEN r.err ELSE @,
                 !.todo[w] = IF rd.mode = "seq" /\ r.err # "none" THEN <<>>
                             ELSE Tail(@)]
  /\ UNCHANGED <<rmws, fid, usedIDs, disk, written, touched, sealed, tampers>>

\* wg.Wait() returns; parallel and batch return nil on error, the
\* sequential loop returns what it decrypted before the error.
DecryptDone ==
  /\ rd.phase = "busy"
  /\ \A w \in DOMAIN rd.todo : rd.todo[w] = <<>>
  /\ LET upto == IF rd.mode = "seq" THEN Len(rd.input) ELSE rd.n
         data == FlattenSeq([k \in 1..upto |-> rd.out[k - 1]])
     IN rd' = [rd EXCEPT !.phase = "done",
                         !.data = IF rd.mode # "seq" /\ rd.err # "none"
                                  THEN <<>> ELSE data]
  /\ UNCHANGED <<rmws, fid, usedIDs, disk, written, touched, sealed, tampers>>

\* The file engine takes the result (splices out the window, returns the
\* buffers to the pools); the next operation starts from an idle codec.
ReturnRead ==
  /\ rd.phase = "done"
  /\ rd' = IdleRead
  /\ UNCHANGED <<rmws, fid, usedIDs, disk, written, touched, sealed, tampers>>

Next ==
  \/ \E f \in Files, c \in Contents : WriteFile(f, c)
  \/ \E f \in Files : Recreate(f)
  \/ \E f \in Files, off \in RMWOffsets : WriteAt(f, off, Flipped(written[f], off))
  \/ CorruptStore
  \/ \E f \in Files : \E first \in 0..(Len(disk[f]) - 1) :
       \E cnt \in 1..(Len(disk[f]) - first) : DecryptBlocks(f, first, cnt)
  \/ \E w \in DOMAIN rd.todo : DecryptStep(w)
  \/ DecryptDone
  \/ ReturnRead

Spec == Init /\ [][Next]_vars

-----------------------------------------------------------------------------
(* Properties.                                                             *)

\* The plaintext bytes that occur: those of the written contents and 0.
Bytes == {0} \cup UNION {ToSet(c) : c \in Contents}
PlainBlock == UNION {[1..k -> Bytes] : k \in 0..PlainBS}

\* Type invariant; a decrypted block is never longer than plainBS.
TypeOK ==
  /\ fid \in [Files -> FileIDs \cup {NoID}]
  /\ usedIDs \subseteq FileIDs
  /\ touched \in [Files -> SUBSET Nat]
  /\ tampers \in 0..MaxTamper
  /\ rmws \in 0..MaxRMW
  /\ rd.phase \in {"idle", "busy", "done"}
  /\ rd.mode \in {"empty", "seq", "batch", "parallel"}
  /\ rd.err \in Errors
  /\ rd.out \in [0..(Len(rd.input) - 1) -> PlainBlock]

\* The blocks DecryptBlocks opened: all chunks in sequential mode, the
\* first len / cipherBS in the others.
Opened == IF rd.mode = "seq" THEN Len(rd.input) ELSE rd.n

\* Integrity of a read (spec 3, per-file header; 4.4): when DecryptBlocks
\* reports success, every block it returns is either a file hole (zeros)
\* or a plaintext that was once sealed for this very file ID and block
\* number.  A block moved to another position, copied from another file,
\* or from an earlier file of the same name must not be accepted, whatever
\* the interleaving of the decrypting goroutines.
ReadIntegrity ==
  rd.phase = "done" /\ rd.err = "none" =>
    \A i \in 0..(Opened - 1) :
      \/ rd.out[i] = Zeros(PlainBS)
      \/ <<rd.id, rd.first + i, rd.out[i]>> \in sealed

\* The errors of the blocks the read opened, each block opened at its own
\* number under the read's file ID.
BlockErrors ==
  {DecryptBlock(rd.input[i + 1], rd.first + i, rd.id).err : i \in 0..(Opened - 1)}
    \ {"none"}

\* Errors are neither lost nor invented by the shard goroutines
\* (decryptBlocksParallel and decryptBlocksBatch record decryptErr under mu,
\* first failure wins): DecryptBlocks fails exactly when a block it opened
\* fails to open, and the error it returns is the error of one of those
\* blocks, whichever goroutine took mu first.
ErrorsNotLost ==
  rd.phase = "done" =>
    IF BlockErrors = {} THEN rd.err = "none" ELSE rd.err \in BlockErrors

StoreMatchesWritten ==
  \A f \in Files :
    LET pts == SplitBlocks(written[f]) IN
    /\ Len(disk[f]) = Len(pts)
    /\ \A i \in DOMAIN pts \ {j + 1 : j \in touched[f]} :
         DecryptBlock(disk[f][i], i - 1, fid[f]) = Result(pts[i], "none")

\* The same round trip for any read, including one that ends in the short
\* last block of a file (spec 8: read(encrypt(P)) = P for all P).
ReadReturnsWritten ==
  rd.phase = "done" /\ rd.clean => rd.err = "none" /\ rd.data = rd.expect

=============================================================================
