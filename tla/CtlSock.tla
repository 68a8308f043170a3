------------------------------- MODULE CtlSock -------------------------------
(***************************************************************************)
(* The control socket server of package ctlsocksrv: the accept loop, one  *)
(* goroutine per connection (peer check, deadlines, read loop, rate check, *)
(* response) and the rate limiter shared by all connections under          *)
(* rateMutex.  Time is discrete.  Instead of absolute times the state      *)
(* keeps ages and countdowns: the age of a limiter entry's lastRequest     *)
(* (saturating at Window + 1, "more than a window ago") and the ticks left *)
(* before each connection's read and write deadline.  Request payloads,    *)
(* JSON and the encrypt/decrypt answer are abstracted to "a request" and   *)
(* "a response".  Before the server runs, Listen sets up the socket file:  *)
(* it removes an orphaned socket, binds a new one with the mode the umask *)
(* gives, and only then chmods it to 0600, so peers of another UID can    *)
(* connect in between; handleConnection's SO_PEERCRED check is what keeps *)
(* them out.                                                               *)
(***************************************************************************)
EXTENDS Naturals, Functions, TLC

CONSTANTS
  Conns,          \* connection slots (a closed slot is reused by Accept)
  Ids,            \* client identifiers (conn.RemoteAddr().String())
  ConnID(_),      \* the identifier a connection on a slot reports
  Limit,          \* maxRequestsPerMinute
  Window,         \* rateLimitWindow, in ticks
  ConnTimeout,    \* connectionTimeout, in ticks
  ReadTimeout,    \* readTimeout, in ticks
  MaxReqs,        \* bound on the requests clients send
  Uids,           \* user ids of processes that connect
  ServerUID,      \* os.Getuid() of the gocryptfs process
  NoPeer          \* a slot with no connection

ASSUME /\ Limit \in Nat \ {0} /\ Window \in Nat
       /\ ConnTimeout \in Nat /\ ReadTimeout \in Nat
       /\ \A c \in Conns : ConnID(c) \in Ids
       /\ ServerUID \in Uids /\ NoPeer \notin Uids

VARIABLES
  setup,       \* where Listen, then Serve's acceptLoop, is
  sockFile,    \* what is at the socket path
  sockOpen,    \* the socket file's mode lets other UIDs connect
  peer,        \* the UID of the process connected on a slot
  limiter,     \* ch.rateLimiter: id -> [age of lastRequest, requestCount]
  pc,          \* each connection's handler goroutine
  readLeft,    \* ticks before the read deadline passes (0: passed)
  writeLeft,   \* ticks before the write deadline passes (0: passed)
  pending,     \* what the client has sent that the server has not read
  sent,        \* requests clients have sent
  recent,      \* history: id -> age -> requests accepted that many ticks ago
  dropped      \* history: a response on this connection failed to write

lsVars == <<setup, sockFile, sockOpen>>
vars == <<setup, sockFile, sockOpen, peer, limiter, pc, readLeft, writeLeft, pending, sent, recent,
          dropped>>

Ages == 0..Window + 1

Fresh == [age |-> 0, count |-> 1]

\* What a mount can find at the socket path: nothing, the socket of a
\* gocryptfs that died, a file that is not a socket, or the live socket of
\* another process.
SockFiles == {"none", "stale", "regular", "live"}

Init ==
  /\ setup = "cleanup"
  /\ sockFile \in SockFiles
  /\ sockOpen = FALSE
  /\ peer = [c \in Conns |-> NoPeer]
  /\ limiter = << >>
  /\ pc = [c \in Conns |-> "idle"]
  /\ readLeft = [c \in Conns |-> 0] /\ writeLeft = [c \in Conns |-> 0]
  /\ pending = [c \in Conns |-> "none"]
  /\ sent = 0
  /\ recent = [i \in Ids |-> [a \in 0..Window |-> 0]]
  /\ dropped = [c \in Conns |-> FALSE]

(***************************************************************************)
(* checkRateLimit, under rateMutex: the verdict and the new limiter.  A    *)
(* new id gets an entry with count 1; an entry whose lastRequest is more   *)
(* than a window old is reset to count 1; an entry at the limit refuses    *)
(* and is left unchanged; otherwise the count grows and lastRequest moves  *)
(* to now.                                                                 *)
(***************************************************************************)
checkRateLimitResetAtWindow(lim, id) ==
  CASE id \notin DOMAIN lim -> [ok |-> TRUE, lim |-> (id :> Fresh) @@ lim]
    [] lim[id].age >= Window -> [ok |-> TRUE, lim |-> [lim EXCEPT ![id] = Fresh]]
    [] lim[id].count >= Limit -> [ok |-> FALSE, lim |-> lim]
    [] OTHER -> [ok |-> TRUE,
                 lim |-> [lim EXCEPT ![id] = [age |-> 0, count |-> @.count + 1]]]

checkRateLimitOverLimit(lim, id) ==
  CASE id \notin DOMAIN lim -> [ok |-> TRUE, lim |-> (id :> Fresh) @@ lim]
    [] lim[id].age > Window -> [ok |-> TRUE, lim |-> [lim EXCEPT ![id] = Fresh]]
    [] lim[id].count > Limit -> [ok |-> FALSE, lim |-> lim]
    [] OTHER -> [ok |-> TRUE,
                 lim |-> [lim EXCEPT ![id] = [age |-> 0, count |-> @.count + 1]]]

checkRateLimit(lim, id) ==
  CASE id \notin DOMAIN lim -> [ok |-> TRUE, lim |-> (id :> Fresh) @@ lim]
    [] lim[id].age > Window -> [ok |-> TRUE, lim |-> [lim EXCEPT ![id] = Fresh]]
    [] lim[id].count >= Limit -> [ok |-> FALSE, lim |-> lim]
    [] OTHER -> [ok |-> TRUE,
                 lim |-> [lim EXCEPT ![id] = [age |-> 0, count |-> @.count + 1]]]

(***************************************************************************)
(* Listen: the socket file.                                                *)
(***************************************************************************)

\* cleanupOrphanedSocket: a path that does not stat, or is not a socket, is
\* left alone, and so is a socket that accepts the DialTimeout; a socket
\* that refuses it (ECONNREFUSED) is removed, a failed Remove only logged.
cleanupOrphanedSocket ==
  /\ setup = "cleanup"
  /\ IF sockFile = "stale" THEN sockFile' \in {"none", "stale"}
                           ELSE UNCHANGED sockFile
  /\ setup' = "listen"
  /\ UNCHANGED <<sockOpen, peer, limiter, pc, readLeft, writeLeft, pending,
                 sent, recent, dropped>>

\* MkdirAll(parentDir, 0700), which may fail, then net.Listen("unix"):
\* bind fails with EADDRINUSE on any existing file; the new socket's mode
\* is 0777 minus the umask, which may let other UIDs connect.
ListenSocket ==
  /\ setup = "listen"
  /\ \/ setup' = "failed" /\ UNCHANGED <<sockFile, sockOpen>>
     \/ /\ sockFile = "none"
        /\ sockFile' = "ours" /\ sockOpen' \in BOOLEAN
        /\ setup' = "chmod"
  /\ UNCHANGED <<peer, limiter, pc, readLeft, writeLeft, pending, sent,
                 recent, dropped>>

\* Chmod(path, 0600); on failure listener.Close() (the kernel resets the
\* connections nobody accepted) and Remove(path).  Chmod(parentDir) only
\* logs a failure.  Listen returns the listener and Serve starts
\* acceptLoop.
ChmodSocket ==
  /\ setup = "chmod"
  /\ \/ /\ sockOpen' = FALSE /\ setup' = "serve"
        /\ UNCHANGED <<sockFile, pc>>
     \/ /\ setup' = "failed" /\ sockFile' = "none"
        /\ pc' = [c \in Conns |-> IF pc[c] = "queued" THEN "idle" ELSE pc[c]]
        /\ UNCHANGED sockOpen
  /\ UNCHANGED <<peer, limiter, readLeft, writeLeft, pending, sent, recent,
                 dropped>>

\* A process of UID u connects while the socket listens: always for the
\* server's own UID, for another UID only while the mode allows it.  The
\* connection waits in the backlog until acceptLoop takes it.
Connect(c, u) ==
  /\ setup \in {"chmod", "serve"} /\ pc[c] = "idle"
  /\ u = ServerUID \/ sockOpen
  /\ pc' = [pc EXCEPT ![c] = "queued"]
  /\ peer' = [peer EXCEPT ![c] = u]
  /\ pending' = [pending EXCEPT ![c] = "none"]
  /\ dropped' = [dropped EXCEPT ![c] = FALSE]
  /\ UNCHANGED <<lsVars, limiter, readLeft, writeLeft, sent, recent>>

(***************************************************************************)
(* The server.                                                             *)
(***************************************************************************)

\* acceptLoop: go ch.handleConnection(conn) for a waiting connection.
Accept(c) ==
  /\ setup = "serve" /\ pc[c] = "queued"
  /\ pc' = [pc EXCEPT ![c] = "start"]
  /\ UNCHANGED <<lsVars, peer, limiter, readLeft, writeLeft, pending, sent,
                 recent, dropped>>

\* Accept fails (the listener was closed on exit): the loop breaks, and
\* the connections still waiting are reset.
AcceptError ==
  /\ setup = "serve"
  /\ setup' = "closed"
  /\ pc' = [c \in Conns |-> IF pc[c] = "queued" THEN "idle" ELSE pc[c]]
  /\ UNCHANGED <<sockFile, sockOpen, peer, limiter, readLeft, writeLeft,
                 pending, sent, recent, dropped>>

\* getPeerCredentials (Linux): conn.File() and getsockopt(SO_PEERCRED) may
\* fail (credOK false); otherwise the UID of the peer process.
getPeerCredentials(c, credOK) ==
  IF credOK THEN [err |-> FALSE, uid |-> peer[c]] ELSE [err |-> TRUE]

checkPeerCredentialsAnyUID(c, credOK) == ~getPeerCredentials(c, credOK).err

\* checkPeerCredentials: an error, or a UID other than os.Getuid(), fails.
checkPeerCredentials(c, credOK) ==
  LET cred == getPeerCredentials(c, credOK)
  IN ~cred.err /\ cred.uid = ServerUID

\* handleConnection: SetDeadline(now + connectionTimeout) sets the read and
\* the write deadline; a failed peer credential check returns, closing the
\* connection.
Start(c) ==
  /\ pc[c] = "start"
  /\ readLeft' = [readLeft EXCEPT ![c] = ConnTimeout]
  /\ writeLeft' = [writeLeft EXCEPT ![c] = ConnTimeout]
  /\ \E credOK \in BOOLEAN :
       pc' = [pc EXCEPT ![c] = IF checkPeerCredentials(c, credOK) THEN "top"
                                                                  ELSE "idle"]
  /\ UNCHANGED <<lsVars, peer, limiter, pending, sent, recent, dropped>>

\* Top of the read loop: SetReadDeadline(now + readTimeout), which replaces
\* the read deadline only.
LoopTop(c) ==
  /\ pc[c] = "top"
  /\ readLeft' = [readLeft EXCEPT ![c] = ReadTimeout]
  /\ pc' = [pc EXCEPT ![c] = "wait"]
  /\ UNCHANGED <<lsVars, peer, limiter, writeLeft, pending, sent, recent, dropped>>

ConnReadContinue(c) ==
  /\ pc[c] = "wait"
  /\ \/ readLeft[c] = 0 /\ pc' = [pc EXCEPT ![c] = "top"]
                        /\ UNCHANGED pending
     \/ /\ readLeft[c] > 0 /\ pending[c] # "none"
        /\ pc' = [pc EXCEPT ![c] = IF pending[c] = "small" THEN "check"
                                                           ELSE "idle"]
        /\ pending' = [pending EXCEPT ![c] = "none"]
  /\ UNCHANGED <<lsVars, peer, limiter, readLeft, writeLeft, sent, recent,
                 dropped>>

\* conn.Read(buf): fails once the read deadline has passed (even with data
\* waiting), returns EOF when the client hung up, and a request that fills
\* the whole ReadBufSize buffer ends the connection as too big.
ConnRead(c) ==
  /\ pc[c] = "wait"
  /\ \/ readLeft[c] = 0 /\ pc' = [pc EXCEPT ![c] = "idle"]
                        /\ UNCHANGED pending
     \/ /\ readLeft[c] > 0 /\ pending[c] # "none"
        /\ pc' = [pc EXCEPT ![c] = IF pending[c] = "small" THEN "check"
                                                           ELSE "idle"]
        /\ pending' = [pending EXCEPT ![c] = "none"]
  /\ UNCHANGED <<lsVars, peer, limiter, readLeft, writeLeft, sent, recent,
                 dropped>>

\* checkRateLimit(clientID); a refusal is answered with the error and the
\* handler returns, closing the connection.
Check(c) ==
  /\ pc[c] = "check"
  /\ LET id == ConnID(c)
         r  == checkRateLimit(limiter, id)
     IN /\ limiter' = r.lim
        /\ IF r.ok
             THEN /\ pc' = [pc EXCEPT ![c] = "handle"]
                  /\ recent' = [recent EXCEPT ![id][0] = @ + 1]
                  /\ UNCHANGED dropped
             ELSE /\ pc' = [pc EXCEPT ![c] = "idle"]
                  /\ dropped' = [dropped EXCEPT ![c] = @ \/ writeLeft[c] = 0]
                  /\ UNCHANGED recent
  /\ UNCHANGED <<lsVars, peer, readLeft, writeLeft, pending, sent>>

\* json.Unmarshal and handleRequest: every outcome (a JSON error, an
\* ambiguous or empty request, a translated path) is one sendResponse,
\* whose conn.Write fails once the write deadline has passed; the loop
\* goes on either way.
Handle(c) ==
  /\ pc[c] = "handle"
  /\ pc' = [pc EXCEPT ![c] = "top"]
  /\ dropped' = [dropped EXCEPT ![c] = @ \/ writeLeft[c] = 0]
  /\ UNCHANGED <<lsVars, peer, limiter, readLeft, writeLeft, pending, sent,
                 recent>>

(***************************************************************************)
(* The clients and the clock.                                              *)
(***************************************************************************)

\* A client writes a request, of normal size or of ReadBufSize bytes.
Send(c) ==
  /\ pc[c] # "idle" /\ pending[c] = "none" /\ sent < MaxReqs
  /\ \E req \in {"small", "big"} : pending' = [pending EXCEPT ![c] = req]
  /\ sent' = sent + 1
  /\ UNCHANGED <<lsVars, peer, limiter, pc, readLeft, writeLeft, recent, dropped>>

HangUp(c) ==
  /\ pc[c] # "idle" /\ pending[c] = "none"
  /\ pending' = [pending EXCEPT ![c] = "eof"]
  /\ UNCHANGED <<lsVars, peer, limiter, pc, readLeft, writeLeft, sent, recent,
                 dropped>>

Older(a) == IF a > Window THEN a ELSE a + 1
Countdown(n) == IF n = 0 THEN 0 ELSE n - 1

\* A tick stands for seconds; the handler's steps between two reads take
\* microseconds, so time passes only while every handler is blocked in
\* conn.Read, waiting to be accepted, or gone.
Tick ==
  /\ \A c \in Conns : pc[c] \in {"idle", "queued", "wait"}
  /\ limiter' = [i \in DOMAIN limiter |->
                   [limiter[i] EXCEPT !.age = Older(@)]]
  /\ recent' = [i \in Ids |->
                  [a \in 0..Window |-> IF a = 0 THEN 0 ELSE recent[i][a - 1]]]
  /\ readLeft' = [c \in Conns |-> Countdown(readLeft[c])]
  /\ writeLeft' = [c \in Conns |-> Countdown(writeLeft[c])]
  /\ UNCHANGED <<lsVars, peer, pc, pending, sent, dropped>>

Next ==
  \/ cleanupOrphanedSocket \/ ListenSocket \/ ChmodSocket
  \/ AcceptError \/ Tick
  \/ \E c \in Conns, u \in Uids : Connect(c, u)
  \/ \E c \in Conns : \/ Accept(c) \/ Start(c) \/ LoopTop(c) \/ ConnRead(c)
                      \/ Check(c) \/ Handle(c) \/ Send(c) \/ HangUp(c)

Spec == Init /\ [][Next]_vars

\* The goroutines run: Listen, acceptLoop and every handler goroutine are
\* eventually scheduled.  The clock advances: Tick waits for the handlers
\* between two reads, which other connections can keep busy again and
\* again, so it is strongly fair.  Clients (Connect, Send, HangUp) and the
\* closing of the listener owe nothing.
Fairness ==
  /\ WF_vars(cleanupOrphanedSocket \/ ListenSocket \/ ChmodSocket)
  /\ SF_vars(Tick)
  /\ \A c \in Conns :
       /\ WF_vars(Accept(c))
       /\ WF_vars(Start(c) \/ LoopTop(c) \/ ConnRead(c) \/ Check(c) \/ Handle(c))

FairSpec == Spec /\ Fairness

(***************************************************************************)
(* Properties                                                              *)
(***************************************************************************)

TypeOK ==
  /\ setup \in {"cleanup", "listen", "chmod", "serve", "closed", "failed"}
  /\ sockFile \in SockFiles \cup {"ours"} /\ sockOpen \in BOOLEAN
  /\ peer \in [Conns -> Uids \cup {NoPeer}]
  /\ DOMAIN limiter \subseteq Ids
  /\ \A i \in DOMAIN limiter :
       limiter[i] \in [age : Ages, count : 1..Limit]
  /\ pc \in [Conns -> {"idle", "queued", "start", "top", "wait", "check", "handle"}]
  /\ readLeft \in [Conns -> 0..ConnTimeout \cup 0..ReadTimeout]
  /\ writeLeft \in [Conns -> 0..ConnTimeout]
  /\ pending \in [Conns -> {"none", "small", "big", "eof"}]
  /\ sent \in 0..MaxReqs
  /\ dropped \in [Conns -> BOOLEAN]

\* Requests of client id accepted in the last Window ticks, now included.
Accepted(id) == SumFunction(recent[id])

\* The rate limit holds: over any window of rateLimitWindow, checkRateLimit
\* accepts at most maxRequestsPerMinute requests of one client identifier,
\* across all its connections and however the counter was reset.
WindowLimit == \A id \in Ids : Accepted(id) <= Limit

\* A client is refused only when it really exceeded the rate: at least
\* maxRequestsPerMinute of its requests were accepted in the last window.
RefusedOnlyOverRate ==
  [][\A c \in Conns :
       (pc[c] = "check" /\ pc'[c] = "idle") => Accepted(ConnID(c)) >= Limit]_vars

\* The control socket is local to the user (spec 6: "peer uid check"):
\* every connection whose requests the handler reads came from a process
\* of the server's UID, although the socket file is open to others between
\* net.Listen and the Chmod to 0600 and a connection made then is accepted
\* only after it.
OnlyOwnerServed ==
  \A c \in Conns : pc[c] \in {"top", "wait", "check", "handle"} => peer[c] = ServerUID

\* No client holds a handler goroutine forever: every connection, waiting
\* in the backlog or being served, is eventually closed, because
\* handleConnection renews the read deadline before every conn.Read and
\* returns on its error, and clients send finitely many requests.
ConnEnds == \A c \in Conns : pc[c] # "idle" ~> pc[c] = "idle"

\* A connection whose response could not be written is ended: the handler
\* never goes on reading requests from a client it can no longer answer.
NoSilentDrop == \A c \in Conns : dropped[c] => pc[c] = "idle"

=============================================================================
