--------------------------- MODULE WriteCoalescing ---------------------------
(***************************************************************************)
(* internal/writecoalescing: a WriteBuffer per file coalesces small writes *)
(* (shorter than Threshold) and hands them to FlushCallback as one write   *)
(* at the buffer's Offset; a WriteBufferManager maps file IDs to buffers.  *)
(*                                                                         *)
(* One writer per file (the file engine serialises writes per file) calls  *)
(* WriteBufferManager.Write, which is two steps: GetBuffer under the       *)
(* manager lock, then WriteBuffer.Write under the buffer's lock.  Other    *)
(* threads call Flush, FlushAll and Close.  Time is abstracted to a flag   *)
(* per buffer that says the Timeout has passed since LastWriteTime.  The   *)
(* bytes of write number w are all w, so the store shows which write put   *)
(* each byte where.                                                        *)
(***************************************************************************)
EXTENDS Integers, Sequences, FiniteSets

CONSTANTS
  Files,        \* file IDs (the manager's map keys)
  NoBuf,        \* no buffer in the map for this file
  Threshold,    \* CoalesceConfig.Threshold
  MaxSize,      \* CoalesceConfig.MaxSize
  MaxPos,       \* bytes of a file the writers use
  MaxWrites,    \* bound on writes issued
  MaxBufs,      \* bound on buffers created (a Close lets GetBuffer make more)
  SeqSmall,     \* TRUE: a small write continues at the writer's cursor
  FlushCanFail, \* TRUE: FlushCallback may return an error
  CloseWaits    \* TRUE: Close is only called with no Write in flight

ASSUME 1 <= Threshold /\ Threshold <= MaxSize /\ NoBuf \notin 1..MaxBufs

BufIds == 1..MaxBufs
Pos    == 0..(MaxPos + MaxSize - 1)
Vals   == 0..MaxWrites           \* 0: never written
Oks    == IF FlushCanFail THEN BOOLEAN ELSE {TRUE}

\* the store after writing vals at off (FlushCallback's effect on the file)
Apply(s, off, vals) ==
  [p \in DOMAIN s |-> IF off <= p /\ p < off + Len(vals) THEN vals[p - off + 1]
                      ELSE s[p]]

VARIABLES
  bufOf,    \* manager.Buffers: file -> buffer id
  nbufs,    \* buffers created so far
  bdata,    \* WriteBuffer.Buffer
  boff,     \* WriteBuffer.Offset
  bfile,    \* the fileID bound in the buffer's FlushCallback closure
  expired,  \* now.Sub(LastWriteTime) > Timeout
  store,    \* file contents as FlushCallback left them
  ideal,    \* history: file contents if every acknowledged write took effect
  wpc,      \* writer of a file: "idle" or "got" (between GetBuffer and Write)
  wref,     \* the buffer GetBuffer returned
  warg,     \* the write in flight: [w, off, len]
  cursor,   \* end of the writer's last write
  nw,       \* writes issued
  wret      \* what the writer's last Write returned: "ok" (nil) or "err"

vars == <<bufOf, nbufs, bdata, boff, bfile, expired, store, ideal,
          wpc, wref, warg, cursor, nw, wret>>

Init ==
  /\ bufOf = [f \in Files |-> NoBuf]
  /\ nbufs = 0
  /\ bdata = [b \in BufIds |-> <<>>]
  /\ boff = [b \in BufIds |-> 0]
  /\ bfile = [b \in BufIds |-> CHOOSE f \in Files : TRUE]
  /\ expired = [b \in BufIds |-> FALSE]
  /\ store = [f \in Files |-> [p \in Pos |-> 0]]
  /\ ideal = [f \in Files |-> [p \in Pos |-> 0]]
  /\ wpc = [f \in Files |-> "idle"]
  /\ wref = [f \in Files |-> 1]
  /\ warg = [f \in Files |-> [w |-> 0, off |-> 0, len |-> 0]]
  /\ cursor = [f \in Files |-> 0]
  /\ nw = 0
  /\ wret = [f \in Files |-> "none"]

-----------------------------------------------------------------------------
(* flushLocked: an empty buffer is a no-op; otherwise the buffer is copied *)
(* and cleared, then FlushCallback(data, Offset) runs and may fail.        *)

Flushed(s, b, ok) ==
  IF bdata[b] # <<>> /\ ok THEN Apply(s, boff[b], bdata[b]) ELSE s

\* The manager's Write, first step: GetBuffer (RLock lookup, then Lock,
\* look again, create with NewWriteBuffer and insert).
GetBuffer(f) ==
  /\ wpc[f] = "idle"
  /\ nw < MaxWrites
  /\ bufOf[f] = NoBuf => nbufs < MaxBufs
  /\ \E len \in {1, Threshold}, off \in 0..(MaxPos - 1) :
       /\ off + len <= MaxPos
       /\ SeqSmall /\ len < Threshold => off = cursor[f]
       /\ warg' = [warg EXCEPT ![f] = [w |-> nw + 1, off |-> off, len |-> len]]
  /\ nw' = nw + 1
  /\ wpc' = [wpc EXCEPT ![f] = "got"]
  /\ IF bufOf[f] # NoBuf
     THEN /\ wref' = [wref EXCEPT ![f] = bufOf[f]]
          /\ UNCHANGED <<bufOf, nbufs, bdata, boff, bfile, expired>>
     ELSE LET b == nbufs + 1 IN
          /\ nbufs' = b
          /\ bufOf' = [bufOf EXCEPT ![f] = b]
          /\ wref' = [wref EXCEPT ![f] = b]
          /\ bdata' = [bdata EXCEPT ![b] = <<>>]
          /\ boff' = [boff EXCEPT ![b] = 0]
          /\ bfile' = [bfile EXCEPT ![b] = f]
          /\ expired' = [expired EXCEPT ![b] = FALSE]
  /\ UNCHANGED <<store, ideal, cursor, wret>>

\* The end of WriteBuffer.Write for writer f: the buffer's new contents,
\* the file's store, and whether Write returned nil.
Finish(f, s, buf, off, exp, acked) ==
  LET b == wref[f]
      d == warg[f]
  IN /\ bdata' = [bdata EXCEPT ![b] = buf]
     /\ boff' = [boff EXCEPT ![b] = off]
     /\ expired' = [expired EXCEPT ![b] = exp]
     /\ store' = [store EXCEPT ![bfile[b]] = s]
     /\ ideal' = IF acked
                 THEN [ideal EXCEPT ![f] = Apply(@, d.off, [k \in 1..d.len |-> d.w])]
                 ELSE ideal
     /\ cursor' = [cursor EXCEPT ![f] = d.off + d.len]
     /\ wpc' = [wpc EXCEPT ![f] = "idle"]
     /\ wret' = [wret EXCEPT ![f] = IF acked THEN "ok" ELSE "err"]
     /\ UNCHANGED <<bufOf, nbufs, bfile, wref, warg, nw>>

\* Mutant: a large write does not flush the buffer before it.
WriteLargeNoPreFlush(f) ==
  LET b == wref[f]  d == warg[f]  s == store[bfile[b]] IN
  /\ wpc[f] = "got"
  /\ d.len >= Threshold
  /\ \E ok \in Oks :
       Finish(f, IF ok THEN Apply(s, d.off, [k \in 1..d.len |-> d.w]) ELSE s,
              bdata[b], boff[b], expired[b], ok)

\* Mutant: the large write goes to FlushCallback first and the buffered
\* small writes are flushed after it.
WriteLargeFlushAfter(f) ==
  LET b == wref[f]  d == warg[f]  s == store[bfile[b]] IN
  /\ wpc[f] = "got"
  /\ d.len >= Threshold
  /\ \E ok \in Oks :
       Finish(f, Flushed(IF ok THEN Apply(s, d.off, [k \in 1..d.len |-> d.w]) ELSE s, b, TRUE),
              <<>>, boff[b], expired[b], ok)

\* Write, len(data) >= Threshold: flush a non-empty buffer (returning its
\* error), then FlushCallback(data, offset) directly.
WriteLarge(f) ==
  LET b == wref[f]  d == warg[f]  s == store[bfile[b]] IN
  /\ wpc[f] = "got"
  /\ d.len >= Threshold
  /\ \E ok1, ok2 \in Oks :
       IF bdata[b] # <<>> /\ ~ok1
       THEN Finish(f, s, <<>>, boff[b], expired[b], FALSE)
       ELSE LET s1 == Flushed(s, b, TRUE) IN
            Finish(f, IF ok2 THEN Apply(s1, d.off, [k \in 1..d.len |-> d.w]) ELSE s1,
                   <<>>, boff[b], expired[b], ok2)

\* Mutant: the MaxSize check before appending is missing.
WriteSmallNoSizeCheck(f) ==
  LET b == wref[f]  d == warg[f]  s == store[bfile[b]] IN
  /\ wpc[f] = "got"
  /\ d.len < Threshold
  /\ LET t == bdata[b] # <<>> /\ expired[b]
         buf1 == IF t THEN <<>> ELSE bdata[b]
     IN  Finish(f, IF t THEN Flushed(s, b, TRUE) ELSE s,
                buf1 \o [k \in 1..d.len |-> d.w],
                IF buf1 = <<>> THEN d.off ELSE boff[b], FALSE, TRUE)

\* Write, len(data) < Threshold: flush on timeout, flush if the data would
\* overflow MaxSize (each returning its error), then append; Offset is set
\* only when the buffer is empty, and LastWriteTime is reset.
WriteSmall(f) ==
  LET b == wref[f]  d == warg[f]  s == store[bfile[b]] IN
  /\ wpc[f] = "got"
  /\ d.len < Threshold
  /\ \E ok1, ok2 \in Oks :
       LET t    == bdata[b] # <<>> /\ expired[b]
           s1   == IF t THEN Flushed(s, b, ok1) ELSE s
           buf1 == IF t THEN <<>> ELSE bdata[b]
           over == Len(buf1) + d.len > MaxSize
           s2   == IF over /\ buf1 # <<>> /\ ok2 THEN Apply(s1, boff[b], buf1) ELSE s1
           buf2 == IF over THEN <<>> ELSE buf1
       IN  IF t /\ ~ok1 THEN Finish(f, s1, <<>>, boff[b], expired[b], FALSE)
           ELSE IF over /\ buf1 # <<>> /\ ~ok2
                THEN Finish(f, s2, <<>>, boff[b], expired[b], FALSE)
           ELSE Finish(f, s2, buf2 \o [k \in 1..d.len |-> d.w],
                       IF buf2 = <<>> THEN d.off ELSE boff[b], FALSE, TRUE)

-----------------------------------------------------------------------------
(* Flushing from other threads.                                            *)

\* WriteBufferManager.Flush(fileID): look the buffer up, then Flush it.
Flush(f) ==
  /\ bufOf[f] # NoBuf
  /\ \E ok \in Oks :
       LET b == bufOf[f] IN
       /\ store' = [store EXCEPT ![bfile[b]] = Flushed(@, b, ok)]
       /\ bdata' = [bdata EXCEPT ![b] = <<>>]
  /\ UNCHANGED <<bufOf, nbufs, boff, bfile, expired, ideal, wpc, wref, warg,
                 cursor, nw, wret>>

\* Flush every buffer in live, each under its own lock, with the callback
\* outcome oks[f]; the store of each file it touches is updated.
FlushEach(live, oks) ==
  /\ store' = [f \in Files |->
                 IF bufOf[f] \in live THEN Flushed(store[f], bufOf[f], oks[f])
                 ELSE store[f]]
  /\ bdata' = [b \in BufIds |-> IF b \in live THEN <<>> ELSE bdata[b]]

\* FlushAll: the buffers in the map (a snapshot under RLock), flushed.
FlushAll ==
  /\ \E oks \in [Files -> Oks] :
       FlushEach({bufOf[f] : f \in {g \in Files : bufOf[g] # NoBuf}}, oks)
  /\ UNCHANGED <<bufOf, nbufs, boff, bfile, expired, ideal, wpc, wref, warg,
                 cursor, nw, wret>>

\* Mutant: Close deletes the buffers without flushing them.
ManagerCloseNoFlush ==
  /\ CloseWaits => \A f \in Files : wpc[f] = "idle"
  /\ bufOf' = [f \in Files |-> NoBuf]
  /\ UNCHANGED <<nbufs, bdata, boff, bfile, expired, store, ideal, wpc, wref,
                 warg, cursor, nw, wret>>

\* WriteBufferManager.Close: under the manager lock, Close (= Flush) each
\* buffer and delete it from the map.
ManagerClose ==
  /\ CloseWaits => \A f \in Files : wpc[f] = "idle"
  /\ \E oks \in [Files -> Oks] :
       FlushEach({bufOf[f] : f \in {g \in Files : bufOf[g] # NoBuf}}, oks)
  /\ bufOf' = [f \in Files |-> NoBuf]
  /\ UNCHANGED <<nbufs, boff, bfile, expired, ideal, wpc, wref, warg, cursor, nw, wret>>

\* Time passes: Timeout elapses since the buffer's LastWriteTime.
Tick(b) ==
  /\ bdata[b] # <<>>
  /\ ~expired[b]
  /\ expired' = [expired EXCEPT ![b] = TRUE]
  /\ UNCHANGED <<bufOf, nbufs, bdata, boff, bfile, store, ideal, wpc, wref,
                 warg, cursor, nw, wret>>

Next ==
  \/ \E f \in Files : GetBuffer(f) \/ WriteLarge(f) \/ WriteSmall(f) \/ Flush(f)
  \/ FlushAll
  \/ ManagerClose
  \/ \E b \in BufIds : Tick(b)

Spec == Init /\ [][Next]_vars

-----------------------------------------------------------------------------
(* Properties.                                                             *)

\* Type invariant; a buffer never grows past MaxSize, the capacity
\* NewWriteBuffer gives it.
TypeOK ==
  /\ bufOf \in [Files -> BufIds \cup {NoBuf}]
  /\ nbufs \in 0..MaxBufs
  /\ \A b \in BufIds : bdata[b] \in Seq(Vals) /\ Len(bdata[b]) <= MaxSize
  /\ store \in [Files -> [Pos -> Vals]] /\ ideal \in [Files -> [Pos -> Vals]]
  /\ wpc \in [Files -> {"idle", "got"}]
  /\ wret \in [Files -> {"none", "ok", "err"}]

Quiet == \A b \in BufIds : bdata[b] = <<>>

\* Write coalescing must be invisible: whenever no buffer holds data, every
\* file holds exactly what the acknowledged writes, applied in the order
\* Write returned, put there.  A buffered byte flushed after a later large
\* write over it, or flushed at the wrong offset, breaks this.
StoreMatchesAcked == Quiet => store = ideal

\* What a reader of the file would see once everything is flushed: the
\* store, with the bytes of the buffer the manager holds for the file on top.
View ==
  [f \in Files |->
     [p \in Pos |->
        LET b == bufOf[f] IN
        IF b # NoBuf /\ boff[b] <= p /\ p < boff[b] + Len(bdata[b])
        THEN bdata[b][p - boff[b] + 1] ELSE store[f][p]]]

\* The call in flight: between GetBuffer and the end of WriteBuffer.Write.
Calls ==
  [f \in Files |->
     IF wpc[f] = "got"
     THEN [off |-> warg[f].off, data |-> [k \in 1..warg[f].len |-> warg[f].w]]
     ELSE [off |-> 0, data |-> << >>]]

Abs == INSTANCE AbstractFile WITH file <- View, pending <- Calls, result <- wret, MaxLen <- Threshold

\* Write coalescing implements a plain file (AbstractFile): under the view
\* above, the manager's Write is a call that GetBuffer starts; when
\* WriteBuffer.Write returns nil, exactly the call's data has landed at its
\* offset, and when it returns an error nothing has changed.  Every other
\* step (the flushes inside Write, Flush, FlushAll, Close, the timeout)
\* leaves the file as it was.
\* So no interleaving of flushes and writes reorders, moves or loses bytes.
FileRefinement == Abs!Spec

\* A byte of an acknowledged write is never lost: each byte of the file is
\* either in the store as acknowledged or still buffered, at its place, in
\* the buffer that the manager's map holds for the file (and that Flush,
\* FlushAll or Close will therefore write).
AckedNotLost ==
  \A f \in Files : \A p \in Pos :
    \/ store[f][p] = ideal[f][p]
    \/ LET b == bufOf[f] IN
         /\ b # NoBuf
         /\ boff[b] <= p /\ p < boff[b] + Len(bdata[b])
         /\ bdata[b][p - boff[b] + 1] = ideal[f][p]

=============================================================================
