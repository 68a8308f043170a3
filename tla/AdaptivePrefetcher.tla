------------------------- MODULE AdaptivePrefetcher -------------------------
(***************************************************************************)
(* The adaptive RNG prefetcher of package cryptocore: a refill goroutine   *)
(* that pushes buffers of the current prefetch size into a channel of      *)
(* capacity 2, a profiling goroutine that resizes the prefetch size every  *)
(* ProfilingWindow, readers that serve Read(want) from a bytes.Buffer      *)
(* under a mutex and refill it from the channel, SetPrefetchSize,          *)
(* EnableProfiling and Close.  Random bytes are abstracted to their count: *)
(* the buffer is its number of unread bytes, a channel entry is the length *)
(* of the slice RandBytes produced.                                        *)
(***************************************************************************)
EXTENDS Naturals, Sequences, FiniteSets

CONSTANTS
  Readers,              \* goroutines calling Read
  NoHolder,             \* the mutex is free
  MinPrefetchSize,      \* 256 in the code
  DefaultPrefetchSize,  \* 512
  MaxPrefetchSize,      \* 4096
  Wants,                \* lengths callers pass to Read (16, 32 in the code)
  SetSizes,             \* arguments callers pass to SetPrefetchSize
  MaxReads              \* bound on the number of Read calls

\* make(chan []byte, 2)
RefillCap == 2

ASSUME /\ MinPrefetchSize <= DefaultPrefetchSize
       /\ DefaultPrefetchSize <= MaxPrefetchSize
       /\ \A w \in Wants : w <= MinPrefetchSize

VARIABLES
  prefetchSize,   \* ap.prefetchSize (atomic int32)
  requestCount,   \* ap.requestCount (atomic int64)
  profiled,       \* ap.lastProfileTime is no longer the zero time.Time
  profiling,      \* ap.profilingEnabled
  buf,            \* unread bytes in ap.buf
  refill,         \* ap.refill: lengths of the slices queued in the channel
  stopped,        \* ap.stop has been closed
  mu,             \* holder of ap.mutex
  rpc, rsize,     \* refill goroutine: where it is, the size it loaded
  ppc,            \* profiling goroutine: "loop" or "done"
  rd, want,       \* each reader: where it is in Read, its argument
  nreads          \* Read calls made so far

vars == <<prefetchSize, requestCount, profiled, profiling, buf, refill,
          stopped, mu, rpc, rsize, ppc, rd, want, nreads>>

Panics == {"panicSize", "panicShort"}

\* A log.Panicf in Read is not recovered: the whole process dies.
Crashed == \E r \in Readers : rd[r] \in Panics

\* NewAdaptivePrefetcher: both goroutines started, an empty buffer.
Init ==
  /\ prefetchSize = DefaultPrefetchSize
  /\ requestCount = 0
  /\ profiled = FALSE
  /\ profiling = TRUE
  /\ buf = 0
  /\ refill = << >>
  /\ stopped = FALSE
  /\ mu = NoHolder
  /\ rpc = "loop" /\ rsize = 0
  /\ ppc = "loop"
  /\ rd = [r \in Readers |-> "idle"] /\ want = [r \in Readers |-> 0]
  /\ nreads = 0

(***************************************************************************)
(* Read(want), in the three steps the goroutine can be interleaved at.     *)
(***************************************************************************)

\* Count the request (outside the mutex), then wait for the mutex.
ReadStart(r) ==
  /\ rd[r] = "idle" /\ ~stopped /\ nreads < MaxReads
  /\ \E w \in Wants : want' = [want EXCEPT ![r] = w]
  /\ requestCount' = IF profiling THEN requestCount + 1 ELSE requestCount
  /\ rd' = [rd EXCEPT ![r] = "lock"]
  /\ nreads' = nreads + 1
  /\ UNCHANGED <<prefetchSize, profiled, profiling, buf, refill, stopped, mu,
                 rpc, rsize, ppc>>

\* Under the mutex, ap.buf.Read(out): a full read returns (and the deferred
\* Unlock releases the mutex); a short one consumes what was left and the
\* reader goes on to receive a refill, still holding the mutex.
ReadLock(r) ==
  /\ rd[r] = "lock" /\ mu = NoHolder
  /\ IF buf >= want[r]
       THEN /\ buf' = buf - want[r]
            /\ rd' = [rd EXCEPT ![r] = "idle"]
            /\ UNCHANGED mu
       ELSE /\ buf' = 0
            /\ rd' = [rd EXCEPT ![r] = "recv"]
            /\ mu' = r
  /\ UNCHANGED <<prefetchSize, requestCount, profiled, profiling, refill,
                 stopped, rpc, rsize, ppc, want, nreads>>

\* fresh := <-ap.refill, the length check against the current size, Reset,
\* Write, and the second read, which must be full.
ReadRecv(r) ==
  /\ rd[r] = "recv" /\ refill # << >>
  /\ LET fresh == Head(refill) IN
       /\ refill' = Tail(refill)
       /\ CASE fresh # prefetchSize ->
                 rd' = [rd EXCEPT ![r] = "panicSize"] /\ UNCHANGED <<buf, mu>>
            [] fresh < want[r] ->
                 rd' = [rd EXCEPT ![r] = "panicShort"] /\ UNCHANGED <<buf, mu>>
            [] OTHER ->
                 /\ buf' = fresh - want[r]
                 /\ rd' = [rd EXCEPT ![r] = "idle"]
                 /\ mu' = NoHolder
  /\ UNCHANGED <<prefetchSize, requestCount, profiled, profiling, stopped,
                 rpc, rsize, ppc, want, nreads>>

(***************************************************************************)
(* refillWorker: select on stop with a default branch that loads the size  *)
(* and then blocks sending RandBytes(size) on the channel.                 *)
(***************************************************************************)
RefillLoop ==
  /\ rpc = "loop"
  /\ IF stopped
       THEN rpc' = "done" /\ UNCHANGED rsize
       ELSE rpc' = "send" /\ rsize' = prefetchSize
  /\ UNCHANGED <<prefetchSize, requestCount, profiled, profiling, buf, refill,
                 stopped, mu, ppc, rd, want, nreads>>

RefillSendNoLoop ==
  /\ rpc = "send" /\ Len(refill) < RefillCap
  /\ refill' = Append(refill, rsize)
  /\ rpc' = "done"
  /\ UNCHANGED <<prefetchSize, requestCount, profiled, profiling, buf,
                 stopped, mu, rsize, ppc, rd, want, nreads>>

RefillSend ==
  /\ rpc = "send" /\ Len(refill) < RefillCap
  /\ refill' = Append(refill, rsize)
  /\ rpc' = "loop"
  /\ UNCHANGED <<prefetchSize, requestCount, profiled, profiling, buf,
                 stopped, mu, rsize, ppc, rd, want, nreads>>

(***************************************************************************)
(* profilingWorker: on each tick of the ticker, adjustPrefetchSize; on a   *)
(* closed stop channel, return.                                            *)
(***************************************************************************)
Lesser(a, b) == IF a < b THEN a ELSE b
Greater(a, b) == IF a > b THEN a ELSE b

\* The throughput classes requests/elapsed can fall in.  While
\* lastProfileTime is the zero time the elapsed time is centuries, so the
\* rate is ~0; with no requests it is 0; otherwise the timing decides.
RateClasses(requests) ==
  IF ~profiled \/ requests = 0 THEN {"low"} ELSE {"low", "mid", "high"}

\* Double on high throughput, halve on low, each clamped to the bounds.
ResizedNoMinClamp(cur, rate) ==
  CASE rate = "high" -> Lesser(cur * 2, MaxPrefetchSize)
    [] rate = "low"  -> cur \div 2
    [] OTHER         -> cur

Resized(cur, rate) ==
  CASE rate = "high" -> Lesser(cur * 2, MaxPrefetchSize)
    [] rate = "low"  -> Greater(cur \div 2, MinPrefetchSize)
    [] OTHER         -> cur

\* adjustPrefetchSize.  It returns at once when profiling is off; else it
\* swaps the counter to 0 and returns if less than a second has elapsed
\* since the last profile (a late tick of the ticker), else stores the
\* resized value.
adjustPrefetchSize ==
  /\ ppc = "loop"
  /\ IF ~profiling
       THEN UNCHANGED <<prefetchSize, requestCount, profiled>>
       ELSE /\ requestCount' = 0
            /\ \/ /\ profiled
                  /\ UNCHANGED <<prefetchSize, profiled>>
               \/ /\ \E rate \in RateClasses(requestCount) :
                       prefetchSize' = Resized(prefetchSize, rate)
                  /\ profiled' = TRUE
  /\ UNCHANGED <<profiling, buf, refill, stopped, mu, rpc, rsize, ppc, rd,
                 want, nreads>>

ProfilingStop ==
  /\ ppc = "loop" /\ stopped
  /\ ppc' = "done"
  /\ UNCHANGED <<prefetchSize, requestCount, profiled, profiling, buf, refill,
                 stopped, mu, rpc, rsize, rd, want, nreads>>

(***************************************************************************)
(* The remaining API.                                                      *)
(***************************************************************************)

SetPrefetchSizeNoMaxClamp ==
  /\ \E size \in SetSizes :
       prefetchSize' = Greater(size, MinPrefetchSize)
  /\ UNCHANGED <<requestCount, profiled, profiling, buf, refill, stopped, mu,
                 rpc, rsize, ppc, rd, want, nreads>>

\* Clamped to [MinPrefetchSize, MaxPrefetchSize]; no mutex taken.
SetPrefetchSize ==
  /\ \E size \in SetSizes :
       prefetchSize' = Lesser(Greater(size, MinPrefetchSize), MaxPrefetchSize)
  /\ UNCHANGED <<requestCount, profiled, profiling, buf, refill, stopped, mu,
                 rpc, rsize, ppc, rd, want, nreads>>

EnableProfiling ==
  /\ mu = NoHolder
  /\ \E enabled \in BOOLEAN : profiling' = enabled
  /\ UNCHANGED <<prefetchSize, requestCount, profiled, buf, refill, stopped,
                 mu, rpc, rsize, ppc, rd, want, nreads>>

\* close(ap.stop); its callers (deferred in every user) run it once, after
\* their Reads have returned.
Close ==
  /\ ~stopped /\ \A r \in Readers : rd[r] = "idle"
  /\ stopped' = TRUE
  /\ UNCHANGED <<prefetchSize, requestCount, profiled, profiling, buf, refill,
                 mu, rpc, rsize, ppc, rd, want, nreads>>

\* After a panic nothing runs any more.
Halted == Crashed /\ UNCHANGED vars

Running ==
  \/ \E r \in Readers : ReadStart(r) \/ ReadLock(r) \/ ReadRecv(r)
  \/ RefillLoop \/ RefillSend
  \/ adjustPrefetchSize \/ ProfilingStop
  \/ SetPrefetchSize \/ EnableProfiling \/ Close

Next == (~Crashed /\ Running) \/ Halted

Spec == Init /\ [][Next]_vars

\* The refill goroutine and the readers are scheduled; a reader waiting for
\* the mutex gets it eventually (sync.Mutex switches to starvation mode, in
\* which the waiter queued longest is handed the lock).  The profiling
\* goroutine's select picks uniformly among ready cases, so once stop is
\* closed it eventually takes that case.
Fairness ==
  /\ WF_vars(~Crashed /\ (RefillLoop \/ RefillSend))
  /\ WF_vars(~Crashed /\ ProfilingStop)
  /\ \A r \in Readers : /\ SF_vars(~Crashed /\ ReadLock(r))
                        /\ WF_vars(~Crashed /\ ReadRecv(r))

LiveSpec == Spec /\ Fairness

(***************************************************************************)
(* Properties                                                              *)
(***************************************************************************)

TypeOK ==
  /\ prefetchSize \in 0..MaxPrefetchSize
  /\ requestCount \in 0..MaxReads
  /\ profiled \in BOOLEAN /\ profiling \in BOOLEAN /\ stopped \in BOOLEAN
  /\ buf \in 0..MaxPrefetchSize
  /\ refill \in Seq(0..MaxPrefetchSize) /\ Len(refill) <= RefillCap
  /\ mu \in Readers \cup {NoHolder}
  /\ rpc \in {"loop", "send", "done"} /\ rsize \in 0..MaxPrefetchSize
  /\ ppc \in {"loop", "done"}
  /\ rd \in [Readers -> {"idle", "lock", "recv"} \cup Panics]
  /\ want \in [Readers -> {0} \cup Wants]
  /\ nreads \in 0..MaxReads

\* Read never panics with "could not satisfy read": every refill a reader
\* accepts holds at least the bytes it wants.  This depends on the clamps
\* of adjustPrefetchSize and SetPrefetchSize and on the size the refill
\* goroutine loaded, several steps before the read.
NoShortRefill == \A r \in Readers : rd[r] # "panicShort"

\* Read never panics with "refill: got %d bytes instead of %d": the refill
\* it receives has the size prefetchSize has when it is received, although
\* the refill goroutine loaded the size earlier and the profiling goroutine
\* or SetPrefetchSize may have changed it since.
NoSizePanic == \A r \in Readers : rd[r] # "panicSize"

\* A Read that has started returns, unless the process has died: the
\* reader holding the mutex is eventually sent a refill.
ReadReturns ==
  \A r \in Readers : rd[r] \in {"lock", "recv"} ~> (rd[r] = "idle" \/ Crashed)

=============================================================================
