---------------------------- MODULE AbstractFile ----------------------------
(***************************************************************************)
(* What a writer of a file is promised (writecoalescing package comment:   *)
(* small writes are coalesced, not moved or reordered).  The file is a     *)
(* function from byte positions to values.  A writer calls write(data,     *)
(* off), one call per file at a time; when the call returns success,       *)
(* exactly those bytes have replaced the ones at off..off+Len(data)-1, and *)
(* when it returns an error, the file is as it was.  Nothing else changes  *)
(* the file.  WriteCoalescing is shown to implement this specification     *)
(* through the view "store with the buffered bytes on top".                *)
(***************************************************************************)
EXTENDS Naturals, Sequences

CONSTANTS
  Files,    \* the files written to
  Pos,      \* byte positions
  Vals,     \* byte values; 0 is a byte never written
  MaxLen    \* the longest write

VARIABLES
  file,     \* file -> position -> value
  pending,  \* file -> the write call in progress, or NoCall
  result    \* file -> what its last write call returned: "ok" or "err"

NoCall == [off |-> 0, data |-> << >>]

Init ==
  /\ file = [f \in Files |-> [p \in Pos |-> 0]]
  /\ pending = [f \in Files |-> NoCall]
  /\ result = [f \in Files |-> "none"]

\* The writer calls write(data, off).
Call(f, off, data) ==
  /\ pending[f] = NoCall
  /\ pending' = [pending EXCEPT ![f] = [off |-> off, data |-> data]]
  /\ UNCHANGED <<file, result>>

\* The call returns nil: its bytes are in the file.
Return(f) ==
  LET c == pending[f] IN
  /\ c # NoCall
  /\ file' = [file EXCEPT ![f] =
                [p \in Pos |-> IF c.off <= p /\ p < c.off + Len(c.data)
                               THEN c.data[p - c.off + 1] ELSE @[p]]]
  /\ pending' = [pending EXCEPT ![f] = NoCall]
  /\ result' = [result EXCEPT ![f] = "ok"]

\* The call returns an error and the file is unchanged.
Fail(f) ==
  /\ pending[f] # NoCall
  /\ pending' = [pending EXCEPT ![f] = NoCall]
  /\ result' = [result EXCEPT ![f] = "err"]
  /\ UNCHANGED file

Next ==
  \E f \in Files :
    \/ \E off \in Pos, n \in 1..MaxLen, v \in Vals : Call(f, off, [k \in 1..n |-> v])
    \/ Return(f)
    \/ Fail(f)

Spec == Init /\ [][Next]_<<file, pending, result>>

=============================================================================
