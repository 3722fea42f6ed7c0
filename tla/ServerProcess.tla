--------------------------- MODULE ServerProcess ---------------------------
(***************************************************************************)
(* The server process: main with the loop of welcome, one detached thread  *)
(* per client (serve_client), Ctrl+C, and the two output streams, which    *)
(* all threads share and SyncStream guards.  What a session does between   *)
(* its beginning and its end, and whether it comes to one, is the subject  *)
(* of Session and Store; how the loop of welcome waits is that of Welcome. *)
(***************************************************************************)
EXTENDS Naturals, FiniteSets

CONSTANTS
  Clients,
  Main,          \* the thread of main
  Nobody,        \* holds no lock
  Backlog,       \* connections the kernel queues: listen(welcomeSocket, 1)
  MaxSockets,    \* descriptors the process may have for clients
  ThreadsRunOut, \* the system may have no thread for std::thread
  SigPipe        \* TRUE on Linux: a send on a broken pipe ends the process

ASSUME ServerAssumption ==
  /\ Main \notin Clients /\ Nobody \notin Clients \cup {Main}
  /\ {Backlog, MaxSockets} \subseteq Nat \ {0}
  /\ {ThreadsRunOut, SigPipe} \subseteq BOOLEAN

VARIABLES
  run,     \* g_run
  pc,      \* pc[t]: what thread t does; a client without a thread is away, queued or dropped
  lock,    \* lock[s]: who holds the mutex of stream s
  saying   \* the threads that have begun a line and not ended it

vars == <<run, pc, lock, saying>>

Threads == Clients \cup {Main}
Streams == {"cout", "cerr"}

(* The points at which a thread prints a line: on which stream, and where  *)
(* it goes on.  The callback of a failed accept is called twice, for the   *)
(* accept and for the getpeername of no socket.                            *)
Prints ==
  [listening |-> [on |-> "cout", then |-> "test"],
   warn      |-> [on |-> "cerr", then |-> "warnAgain"],
   warnAgain |-> [on |-> "cerr", then |-> "test"],
   error     |-> [on |-> "cerr", then |-> "leaving"],
   connected |-> [on |-> "cout", then |-> "serving"],
   failed    |-> [on |-> "cerr", then |-> "ended"],
   ended     |-> [on |-> "cout", then |-> "closing"]]

MainPoints   == {"setup", "listening", "test", "select", "warn", "warnAgain", "error",
                 "leaving", "gone"}
Alive        == {"connected", "serving", "failed", "ended", "closing"}
ClientPoints == {"away", "queued", "dropped", "done", "cut"} \cup Alive

At(point) == {c \in Clients : pc[c] = point}
Sessions  == {c \in Clients : pc[c] \in Alive}
Gone      == pc[Main] = "gone"

Init ==
  /\ run = TRUE
  /\ pc = [t \in Threads |-> IF t = Main THEN "setup" ELSE "away"]
  /\ lock = [s \in Streams |-> Nobody]
  /\ saying = {}

Goto(t, point) == pc' = [pc EXCEPT ![t] = point]

(* The process ends: main returned, or an exception or a signal nobody     *)
(* handles.  Detached threads end wherever they are.                       *)
ProcessEnds ==
  pc' = [t \in Threads |-> IF t = Main THEN "gone"
                           ELSE IF pc[t] \in Alive THEN "cut"
                           ELSE IF pc[t] = "queued" THEN "dropped" ELSE pc[t]]

-----------------------------------------------------------------------------
(* SyncStream::print: the line is begun under the lock and ended under it. *)
\* Mutant: print takes no lock.
Free_Always(s) == TRUE

Free(s) == lock[s] = Nobody

BeginPrint(t) ==
  /\ pc[t] \in DOMAIN Prints /\ t \notin saying
  /\ LET s == Prints[pc[t]].on
     IN Free(s) /\ lock' = [lock EXCEPT ![s] = t]
  /\ saying' = saying \cup {t}
  /\ UNCHANGED <<run, pc>>

\* Mutant: print does not release the lock.
Released_Never(s) == lock

Released(s) == [lock EXCEPT ![s] = Nobody]

EndPrint(t) ==
  /\ t \in saying /\ ~Gone
  /\ saying' = saying \ {t}
  /\ lock' = Released(Prints[pc[t]].on)
  /\ Goto(t, Prints[pc[t]].then)
  /\ UNCHANGED run

-----------------------------------------------------------------------------
(* main and welcome *)
CtrlC ==
  /\ run /\ ~Gone
  /\ run' = FALSE
  /\ UNCHANGED <<pc, lock, saying>>

\* Mutant: continue_listening has lost its negation of g_run.
Stopped_Inverted == run

(* continue_listening                                                      *)
Stopped == ~run

(* The welcome socket is closed, and with it every connection in its queue.*)
StopsListening(point) ==
  pc' = [t \in Threads |-> IF t = Main THEN point
                           ELSE IF pc[t] = "queued" THEN "dropped" ELSE pc[t]]

(* welcome makes its socket, or throws; main catches, prints and leaves.   *)
SetUp ==
  /\ pc[Main] = "setup"
  /\ Goto(Main, "listening") \/ Goto(Main, "error")
  /\ UNCHANGED <<run, lock, saying>>

(* The head of the loop.                                                   *)
Test ==
  /\ pc[Main] = "test"
  /\ IF Stopped THEN StopsListening("leaving") ELSE Goto(Main, "select")
  /\ UNCHANGED <<run, lock, saying>>

(* select fails, or inet_ntop for the connection accepted: welcome closes  *)
(* what it has and throws, and main ends the process with every session.   *)
WelcomeThrows ==
  /\ pc[Main] = "select"
  /\ StopsListening("error")
  /\ UNCHANGED <<run, lock, saying>>

SelectTimesOut ==
  /\ pc[Main] = "select" /\ At("queued") = {}
  /\ Goto(Main, "test")
  /\ UNCHANGED <<run, lock, saying>>

HasSocket == Cardinality(Sessions) < MaxSockets

(* cest: std::thread, which throws when there is no thread to be had; main *)
(* catches only ConnectionException.                                       *)
Accept(c) ==
  /\ pc[Main] = "select" /\ pc[c] = "queued" /\ HasSocket
  /\ \/ pc' = [pc EXCEPT ![c] = "connected", ![Main] = "test"]
     \/ ThreadsRunOut /\ ProcessEnds
  /\ UNCHANGED <<run, lock, saying>>

\* Mutant: a failing accept is taken for a client.
AfterAcceptError_Serves == "connected"

(* accept_error returns true: the loop goes on.                            *)
AfterAcceptError == "warn"

(* No descriptor is left: accept fails, the connection stays queued.       *)
AcceptFails ==
  /\ pc[Main] = "select" /\ At("queued") # {} /\ ~HasSocket
  /\ Goto(Main, AfterAcceptError)
  /\ UNCHANGED <<run, lock, saying>>

(* main returns, told to or after an error, and takes the process with it. *)
Leave ==
  /\ pc[Main] = "leaving"
  /\ ProcessEnds
  /\ UNCHANGED <<run, lock, saying>>

-----------------------------------------------------------------------------
Arrives(c) ==
  /\ pc[c] = "away" /\ pc[Main] \notin {"setup", "error", "leaving", "gone"}
  /\ Cardinality(At("queued")) < Backlog
  /\ Goto(c, "queued")
  /\ UNCHANGED <<run, lock, saying>>

(* serve returns, or throws and serve_client catches.  Nothing says it     *)
(* does: a client may stay for ever, fall silent within a message, or be   *)
(* cut within a chunk of a PUT.                                            *)
SessionEnds(c) ==
  /\ pc[c] = "serving"
  /\ Goto(c, "ended") \/ Goto(c, "failed")
  /\ UNCHANGED <<run, lock, saying>>

(* A send of the session raises SIGPIPE.                                   *)
Signal(c) ==
  /\ SigPipe /\ pc[c] = "serving"
  /\ ProcessEnds
  /\ UNCHANGED <<run, lock, saying>>

(* client.reset(): the socket is shut down and closed.                     *)
Closes(c) ==
  /\ pc[c] = "closing"
  /\ Goto(c, "done")
  /\ UNCHANGED <<run, lock, saying>>

MainStep ==
  SetUp \/ Test \/ SelectTimesOut \/ (\E c \in Clients : Accept(c)) \/ AcceptFails \/ Leave

Next ==
  \/ CtrlC \/ MainStep \/ WelcomeThrows
  \/ \E t \in Threads : BeginPrint(t) \/ EndPrint(t)
  \/ \E c \in Clients : Arrives(c) \/ SessionEnds(c) \/ Closes(c) \/ Signal(c)

Spec == Init /\ [][Next]_vars

(* Threads run, but for what a session waits for; the accept of a client   *)
(* in the queue and a mutex that are to be had again and again are got     *)
(* some time.                                                              *)
FairSpec ==
  /\ Spec
  /\ WF_vars(MainStep)
  /\ \A c \in Clients : WF_vars(Closes(c)) /\ SF_vars(Accept(c))
  /\ \A t \in Threads : SF_vars(BeginPrint(t)) /\ WF_vars(EndPrint(t))

-----------------------------------------------------------------------------
TypeOK ==
  /\ run \in BOOLEAN
  /\ pc \in [Threads -> MainPoints \cup ClientPoints]
  /\ pc[Main] \in MainPoints /\ \A c \in Clients : pc[c] \in ClientPoints
  /\ lock \in [Streams -> Threads \cup {Nobody}]
  /\ saying \subseteq Threads

(* No two threads are in the middle of a line on one stream, and whoever   *)
(* is holds its lock (SyncStream::print).                                  *)
LinesAreWhole ==
  \A t \in saying :
    ~Gone => pc[t] \in DOMAIN Prints /\ lock[Prints[pc[t]].on] = t

(* Ctrl+C ends the process, however many sessions there are, whatever they *)
(* wait for and however many connections are waiting (continue_listening). *)
InterruptEnds == ~run ~> Gone

(* Until the process ends, no session stops another, whether it comes to an*)
(* end or not.  A client that came while descriptors were used up is       *)
(* accepted if they come free again and again; its thread gets past its    *)
(* first line to its session; and a thread whose session is over gets past *)
(* its last lines and closes (accept_error, serve_client:91-105).          *)
EachIsServed ==
  \A c \in Clients :
    /\ []<>HasSocket => ((pc[c] = "queued") ~> (pc[c] \in Alive \/ ~run \/ Gone))
    /\ (pc[c] = "connected") ~> (pc[c] = "serving" \/ ~run \/ Gone)
    /\ (pc[c] \in {"failed", "ended"}) ~> (pc[c] = "done" \/ ~run \/ Gone)

(* main:73: "blocks until interrupted: every time a client connects, cest  *)
(* callback will be used".  So the server does not end by itself.          *)
RunsUntilInterrupted == Gone => ~run

=============================================================================
