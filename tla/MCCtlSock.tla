------------------------------ MODULE MCCtlSock ------------------------------
(* Two connection slots of unbound clients, which all report the same     *)
(* (empty) remote address, so they share one limiter entry.  Ticks scale  *)
(* 60 s : 30 s : 5 s down to 4 : 3 : 2; maxRequestsPerMinute is 2.  Two   *)
(* UIDs: the server's and another user's.                                 *)
EXTENDS CtlSock

CONSTANTS c1, c2, anon, uidSelf, uidOther, noPeer

MCConns == {c1, c2}
MCIds == {anon}
MCConnID(c) == anon
MCUids == {uidSelf, uidOther}

Symmetry == Permutations(MCConns)
=============================================================================
