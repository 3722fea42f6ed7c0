------------------------------ MODULE Welcome ------------------------------
(***************************************************************************)
(* Connection::welcome, the loop that listens and accepts, with its three  *)
(* callers: main of the server, which listens until Ctrl+C, and the LS and *)
(* GET of the client, which want one connection each.  What the callbacks  *)
(* of a caller may do is written as the set of their outcomes; those of    *)
(* the client send and receive, and may come to none.                      *)
(*                                                                         *)
(* Time passes only in select.  A call whose timeout has run down to zero  *)
(* polls: one Poll step stands for all the polls of one unit of time.      *)
(***************************************************************************)
EXTENDS Integers, FiniteSets

CONSTANTS
  Callers,        \* subset of {"server", "LS", "GET"}
  Conns,          \* connections that may be made to the welcome socket
  WaitTime,       \* the 50 ms given to select
  Limit,          \* CONNECTION_WAIT_TIMEOUT
  SelectUpdates,  \* TRUE on Linux: select overwrites its timeout with the time left
  AbortRemoves    \* TRUE where a connection aborted by its peer leaves the queue

ASSUME WelcomeAssumption ==
  /\ Callers \subseteq {"server", "LS", "GET"}
  /\ WaitTime \in Nat \ {0} /\ Limit \in Nat \ {0}
  /\ SelectUpdates \in BOOLEAN /\ AbortRemoves \in BOOLEAN

VARIABLES
  caller,   \* who called welcome
  wpc,      \* where welcome is; "returned" and "thrown" are its two ends
  sock,     \* welcomeSocket: "none", "open" or "closed"
  stop,     \* what stopListeningQuery returns
  left,     \* selectTimeout
  waited,   \* time spent in the select in progress
  elapsed,  \* time since startTime; kept only for a caller with a limit
  conn,     \* conn[c]: what became of connection c
  late      \* connections handed over after stop became true (history)

vars == <<caller, wpc, sock, stop, left, waited, elapsed, conn, late>>

(* absent: not made yet; queued: the kernel holds it; aborted: queued, but *)
(* its peer has gone; accepted: welcome or its callback has the descriptor;*)
(* handed: the callback has kept or used it and returned; closed: welcome, *)
(* the kernel or the callback closed it.                                   *)
ConnState == {"absent", "queued", "aborted", "accepted", "handed", "closed"}

Queued == {c \in Conns : conn[c] \in {"queued", "aborted"}}
In(st) == {c \in Conns : conn[c] = st}

SingleShot == caller # "server"
TimeoutMs  == IF caller = "LS" THEN Limit ELSE 0   \* 0: TIMEOUT_NEVER
TimeUp     == TimeoutMs # 0 /\ elapsed > TimeoutMs
Ended      == wpc \in {"returned", "thrown"}
Loop       == {"test", "select", "accept", "peer"}

\* Mutant: the accepted connections of a welcome that ends stay open.
Discard_KeepsOpen(cs) == conn

(* The connections after closesocket on the descriptors of cs.             *)
Discard(cs) == [c \in Conns |-> IF c \in cs THEN "closed" ELSE conn[c]]

\* Mutant: startTime - now instead of now - startTime.
Spend_Swapped(d) == IF TimeoutMs = 0 THEN elapsed ELSE elapsed - d

(* The time since startTime, d later.                                      *)
Spend(d) == IF TimeoutMs = 0 THEN elapsed ELSE elapsed + d

Init ==
  /\ caller \in Callers
  /\ wpc = "setup" /\ sock = "none" /\ stop = FALSE
  /\ left = WaitTime /\ waited = 0 /\ elapsed = 0
  /\ conn = [c \in Conns |-> "absent"]
  /\ late = 0

-----------------------------------------------------------------------------
(* The world: clients connect and go away, the user types Ctrl+C.          *)
ConnectionArrives(c) ==
  /\ sock = "open" /\ conn[c] = "absent"
  /\ conn' = [conn EXCEPT ![c] = "queued"]
  /\ UNCHANGED <<caller, wpc, sock, stop, left, waited, elapsed, late>>

PeerAborts(c) ==
  /\ conn[c] = "queued"
  /\ conn' = [conn EXCEPT ![c] = IF AbortRemoves THEN "closed" ELSE "aborted"]
  /\ UNCHANGED <<caller, wpc, sock, stop, left, waited, elapsed, late>>

Interrupt ==
  /\ caller = "server" /\ ~stop
  /\ stop' = TRUE
  /\ UNCHANGED <<caller, wpc, sock, left, waited, elapsed, conn, late>>

-----------------------------------------------------------------------------
(* socket, setsockopt, bind, listen, getsockname, inet_ntop.  What fails   *)
(* after socket closes the welcome socket, except setsockopt, which is     *)
(* tried for a port that is not PORT_ANY.                                  *)
SetUp ==
  /\ wpc = "setup"
  /\ \/ wpc' = "create" /\ sock' = "open"
     \/ wpc' = "thrown" /\ sock' = "none"
     \/ wpc' = "thrown" /\ sock' = "closed"
     \/ caller = "server" /\ wpc' = "thrown" /\ sock' = "open"
  /\ UNCHANGED <<caller, stop, left, waited, elapsed, conn, late>>

(* onCreate: the server prints; LS sends its command, GET also reads the   *)
(* reply and listens no more after an ERROR.  Sending and receiving throw, *)
(* or never return: a reply is awaited without limit from its first byte.  *)
OnCreate ==
  /\ wpc = "create"
  /\ \/ wpc' = "test" /\ UNCHANGED stop
     \/ caller = "GET" /\ wpc' = "test" /\ stop' = TRUE
     \/ caller # "server" /\ wpc' = "thrown" /\ UNCHANGED stop
  /\ UNCHANGED <<caller, sock, left, waited, elapsed, conn, late>>

\* Mutant: the query is not asked.
GoOn_Deaf == ~TimeUp

\* Mutant: the time limit is forgotten.
GoOn_NoLimit == ~stop

(* The head of the loop: the query, then the time limit.                   *)
GoOn == ~stop /\ ~TimeUp

Test ==
  /\ wpc = "test"
  /\ IF GoOn
       THEN wpc' = "select" /\ UNCHANGED <<sock, conn>>
       ELSE wpc' = "returned" /\ sock' = "closed" /\ conn' = Discard(Queued)
  /\ waited' = 0
  /\ UNCHANGED <<caller, stop, left, elapsed, late>>

(* select: time passes while there is nothing to accept.                   *)
Wait ==
  /\ wpc = "select" /\ Queued = {} /\ waited < left
  /\ waited' = waited + 1
  /\ elapsed' = Spend(1)
  /\ UNCHANGED <<caller, wpc, sock, stop, left, conn, late>>

LeftAfter == IF SelectUpdates THEN left - waited ELSE left

SelectTimesOut ==
  /\ wpc = "select" /\ Queued = {} /\ waited = left
  /\ wpc' = "test"
  /\ left' = LeftAfter
  /\ elapsed' = IF left = 0 THEN Spend(1) ELSE elapsed
  /\ UNCHANGED <<caller, sock, stop, waited, conn, late>>

SelectReady ==
  /\ wpc = "select" /\ Queued # {}
  /\ wpc' = "accept"
  /\ left' = LeftAfter
  /\ UNCHANGED <<caller, sock, stop, waited, elapsed, conn, late>>

SelectFails ==
  /\ wpc = "select"
  /\ wpc' = "thrown" /\ sock' = "closed" /\ conn' = Discard(Queued)
  /\ UNCHANGED <<caller, stop, left, waited, elapsed, late>>

Accept(c) ==
  /\ wpc = "accept" /\ c \in Queued
  /\ wpc' = "peer"
  /\ conn' = [conn EXCEPT ![c] = "accepted"]
  /\ UNCHANGED <<caller, sock, stop, left, waited, elapsed, late>>

(* accept fails and the connection stays queued (no descriptor left).  The *)
(* client's callback throws.  The server's returns true: getpeername of no *)
(* socket fails, closesocket of no socket too, and the callback is called  *)
(* again; its result is not looked at.                                     *)
AcceptFails ==
  /\ wpc = "accept" /\ Queued # {}
  /\ wpc' = IF caller = "server" THEN "test" ELSE "thrown"
  /\ UNCHANGED <<caller, sock, stop, left, waited, elapsed, conn, late>>

(* getpeername fails: that connection is closed, the callback called.      *)
PeerUnknown ==
  /\ wpc = "peer"
  /\ conn' = Discard(In("accepted"))
  /\ wpc' = IF caller = "server" THEN "test" ELSE "thrown"
  /\ UNCHANGED <<caller, sock, stop, left, waited, elapsed, late>>

(* inet_ntop fails: both sockets are closed.                               *)
AddressFails ==
  /\ wpc = "peer"
  /\ conn' = Discard(In("accepted") \cup Queued)
  /\ wpc' = "thrown" /\ sock' = "closed"
  /\ UNCHANGED <<caller, stop, left, waited, elapsed, late>>

(* onConnection is given the connection: the server starts a thread for    *)
(* it, the client reads the transfer.                                      *)
OnConnection ==
  /\ wpc = "peer"
  /\ wpc' = "callback"
  /\ late' = IF stop THEN late + 1 ELSE late
  /\ UNCHANGED <<caller, sock, stop, left, waited, elapsed, conn>>

\* Mutant: every caller gets a single connection.
AfterConnection_Stops == "returned"

(* After onConnection has returned.                                        *)
AfterConnection == IF SingleShot THEN "returned" ELSE "test"

CallbackReturns ==
  /\ wpc = "callback"
  /\ wpc' = AfterConnection
  /\ sock' = IF wpc' = "returned" THEN "closed" ELSE sock
  /\ conn' = [c \in Conns |->
                IF conn[c] = "accepted" THEN "handed"
                ELSE IF wpc' = "returned" /\ c \in Queued THEN "closed" ELSE conn[c]]
  /\ UNCHANGED <<caller, stop, left, waited, elapsed, late>>

(* Its exception (of a transfer, or of std::thread when there is no thread *)
(* to be had) closes the connection; the welcome socket stays open.        *)
CallbackThrows ==
  /\ wpc = "callback"
  /\ wpc' = "thrown"
  /\ conn' = Discard(In("accepted"))
  /\ UNCHANGED <<caller, sock, stop, left, waited, elapsed, late>>

LoopStep ==
  \/ Test \/ Wait \/ SelectTimesOut \/ SelectReady \/ SelectFails
  \/ \E c \in Conns : Accept(c)
  \/ AcceptFails \/ PeerUnknown \/ AddressFails \/ OnConnection

CallbackStep == OnCreate \/ CallbackReturns \/ CallbackThrows

Next ==
  \/ \E c \in Conns : ConnectionArrives(c) \/ PeerAborts(c)
  \/ Interrupt
  \/ SetUp \/ LoopStep \/ CallbackStep

Spec == Init /\ [][Next]_vars

(* The thread runs; accept does not fail for ever, descriptors come free.  *)
(* Only the callbacks of the server are known to return: they print a line *)
(* and start a thread.                                                     *)
FairSpec ==
  /\ Spec
  /\ WF_vars(SetUp) /\ WF_vars(LoopStep) /\ WF_vars(caller = "server" /\ CallbackStep)
  /\ \A c \in Conns : SF_vars(Accept(c))

-----------------------------------------------------------------------------
TypeOK ==
  /\ caller \in Callers
  /\ wpc \in {"setup", "create", "test", "select", "accept", "peer", "callback",
              "returned", "thrown"}
  /\ sock \in {"none", "open", "closed"} /\ stop \in BOOLEAN
  /\ left \in 0 .. WaitTime /\ waited \in 0 .. WaitTime /\ elapsed \in Nat
  /\ conn \in [Conns -> ConnState] /\ late \in Nat

(* However an accept ends, welcome goes on with no descriptor of its own   *)
(* but the welcome socket, and it returns without that one and with nobody *)
(* left in the queue, who would wait for ever (welcome:410-457).           *)
NoDescriptorLost ==
  /\ wpc \notin {"peer", "callback"} => In("accepted") = {}
  /\ wpc = "returned" => sock = "closed" /\ Queued = {}

(* Once told to stop, welcome hands over one more connection at most: the  *)
(* one that ended the select in progress (welcome:381).                    *)
StopIsNoticed == late <= 1

(* A welcome with a time limit exceeds it by one select at most.           *)
InTime == TimeoutMs # 0 => elapsed <= TimeoutMs + WaitTime

(* A loop that was told to stop, or that has a time limit, comes to an end *)
(* or to the callback of its caller, however many accepts fail.  Callbacks *)
(* take what time they like, but main's return, so Ctrl+C always ends the  *)
(* loop of the server.                                                     *)
WelcomeEnds ==
  /\ (wpc \in Loop /\ (stop \/ TimeoutMs # 0)) ~> (Ended \/ wpc = "callback")
  /\ (caller = "server" /\ stop) ~> Ended

(* The server accepts whoever is queued and stays, until it is told to stop*)
(* or an exception ends welcome: neither a connection nor a failing accept *)
(* ends its loop (welcome:412).                                            *)
QueueMoves ==
  \A c \in Conns :
    (caller = "server" /\ conn[c] = "queued")
      ~> (conn[c] \in {"accepted", "aborted"} \/ stop \/ wpc = "thrown")

(* welcome:373: "wait this long for select / mainly this avoids a busy     *)
(* loop".  So select is never called with no time to wait.                 *)
SelectWaits == wpc = "select" => left > 0

(* welcome:405: "if file descriptor is readable, accept is guaranteed not  *)
(* to block".                                                              *)
AcceptNeverBlocks == wpc = "accept" => Queued # {}

=============================================================================
