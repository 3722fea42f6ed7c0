------------------------------- MODULE Client -------------------------------
(***************************************************************************)
(* The client program: main, the greeting, the commands LS, GET and QUIT   *)
(* of the console, and the shutdown of its connections (Client.cpp with    *)
(* the parts of Connection.cpp it runs through).  The client is one        *)
(* thread; cpc says which blocking call, or which choice of the user, it   *)
(* is at.                                                                  *)
(***************************************************************************)
EXTENDS Network

CONSTANT Chunk  \* blocks the client asks one Connection::receive for

ASSUME ChunkAssumption == Chunk \in Nat \ {0}

VARIABLES
  cpc,        \* where the client is
  command,    \* the last message it made for the server
  response,   \* the last message it took from the control connection
  cdata,      \* the command whose data connection it accepted, 0 for none
  bytesLeft,  \* blocks of the transfer not yet in complete chunks
  got,        \* blocks of the current chunk (totalBytes in receive)
  after,      \* where it continues once the data connection is shut down
  local,      \* the local copy of every file
  report,     \* what it told the user about the current command
  gaveUp      \* history: an LS stopped listening before a connection came

clientVars ==
  <<cpc, command, response, cdata, bytesLeft, got, after, local, report, gaveUp>>

ClientPhase ==
  {"connect", "send", "greet", "prompt", "reply", "accept", "recv", "drain",
   "exit", "exitDrain", "gone"}
Report == {"none", "listed", "received", "incomplete", "refused", "notOpened"}

Hello  == MakeMsg("HELLO", 0, NoPort, NoName, 0)
NoMsg  == MakeMsg("ERROR", 0, NoPort, NoName, 0)   \* ZERO_MSG

(* A local file before anything was received into it.                      *)
OldCopy == << [of |-> NoName, at |-> 0] >>

ClientInit ==
  /\ cpc = "connect"
  /\ command = Hello
  /\ response = NoMsg
  /\ cdata = 0
  /\ bytesLeft = 0
  /\ got = 0
  /\ after = "prompt"
  /\ local = [f \in Names |-> OldCopy]
  /\ report = "none"
  /\ gaveUp = FALSE

Min2(a, b) == IF a < b THEN a ELSE b

-----------------------------------------------------------------------------
(* main: Connection::connect to the server.  When it fails main prints the *)
(* error and still calls run_client, which dereferences the null kControl. *)
Connect ==
  /\ cpc = "connect"
  /\ \/ /\ control' = [control EXCEPT !.st = [e \in Ends |-> "open"]]
        /\ cpc' = "send"
     \/ /\ cpc' = "gone"
        /\ UNCHANGED control
  /\ UNCHANGED <<chan, listener, command, response, cdata, bytesLeft, got,
                 after, local, report, gaveUp>>

(* run_client and parse_command: the user enters LS, GET or QUIT.  LS and  *)
(* GET zero the response and open a welcome socket on an ephemeral port    *)
(* before they send.  PUT prints "not implemented yet" and a GET the user  *)
(* declines to overwrite with returns: neither changes anything.           *)
UserCommand ==
  /\ cpc = "prompt"
  /\ \/ /\ command.id < MaxCmd
        /\ \E p \in Ports :
             /\ listener' = p
             /\ \/ command' = MakeMsg("LS", command.id + 1, p, NoName, 0)
                \/ \E f \in Names :
                     command' = MakeMsg("GET", command.id + 1, p, f, 0)
     \/ /\ command' = MakeMsg("QUIT", command.id, NoPort, NoName, 0)
        /\ UNCHANGED listener
  /\ cpc' = "send"
  /\ response' = NoMsg
  /\ report' = "none"
  /\ UNCHANGED <<control, chan, cdata, bytesLeft, got, after, local,
                 gaveUp>>

(* The command cannot start: fs::exists, socket, bind or listen fails and  *)
(* throws.  main catches it and the client ends.                           *)
CommandFails ==
  /\ cpc = "prompt"
  /\ cpc' = "exit"
  /\ UNCHANGED <<netVars, command, response, cdata, bytesLeft, got, after, local,
                 report, gaveUp>>

(* kControl->send.  An exception ends the client: main catches it and      *)
(* returns with the welcome socket still open.                             *)

\* Mutant: handle_get accepts before it has read the reply, as handle_ls does.
NextAfterSend_NoReply ==
  CASE command.type = "HELLO"        -> "greet"
    [] command.type \in {"LS", "GET"} -> "accept"
    [] OTHER                         -> "exit"

NextAfterSend ==
  CASE command.type = "HELLO" -> "greet"
    [] command.type = "LS"    -> "accept"
    [] command.type = "GET"   -> "reply"
    [] OTHER                  -> "exit"

ClientSend ==
  /\ cpc = "send"
  /\ \/ /\ CanSend(control, "client")
        /\ control' \in AfterSend(control, "client", command)
        /\ cpc' = NextAfterSend
     \/ /\ SendFails(control, "client")
        /\ cpc' = "exit"
        /\ UNCHANGED control
  /\ UNCHANGED <<chan, listener, command, response, cdata, bytesLeft, got,
                 after, local, report, gaveUp>>

(* exchange_greetings: anything but a HELLO, a timeout or a closed         *)
(* connection ends the client.                                             *)
Greeted ==
  /\ cpc = "greet"
  /\ IF Readable(control, "client")
       THEN LET m == Head(control.inbox["client"]) IN
            /\ control' = Take(control, "client")
            /\ response' = m
            /\ cpc' = IF m.type = "HELLO" THEN "prompt" ELSE "exit"
       ELSE /\ cpc' = "exit"
            /\ response' = NoMsg
            /\ UNCHANGED control
  /\ UNCHANGED <<chan, listener, command, cdata, bytesLeft, got, after, local,
                 report, gaveUp>>

-----------------------------------------------------------------------------
(* The reply to LS or GET, awaited for RESPONSE_TIMEOUT_MS: OK goes on.    *)
ReplyOk ==
  /\ cpc = "reply"
  /\ Readable(control, "client")
  /\ LET m == Head(control.inbox["client"]) IN
       /\ m.type = "OK"
       /\ response' = m
       /\ bytesLeft' = m.datalen
  /\ control' = Take(control, "client")
  /\ cpc' = IF command.type = "LS" THEN "recv" ELSE "accept"
  /\ UNCHANGED <<chan, listener, command, cdata, got, after, local, report,
                 gaveUp>>

\* Mutant: handle_get does not set bListen to FALSE on ERROR.
AfterError_Listens == IF command.type = "LS" THEN "drain" ELSE "accept"

AfterError == IF command.type = "LS" THEN "drain" ELSE "prompt"

(* ERROR ends the command: GET has accepted nothing and closes its welcome *)
(* socket; LS drops the data connection it accepted, whose destructor      *)
(* shuts it down, before welcome closes the socket.                        *)
ReplyError ==
  /\ cpc = "reply"
  /\ Readable(control, "client")
  /\ Head(control.inbox["client"]).type = "ERROR"
  /\ response' = Head(control.inbox["client"])
  /\ control' = Take(control, "client")
  /\ report' = "refused"
  /\ cpc' = AfterError
  /\ IF command.type = "LS"
       THEN /\ after' = "prompt"
            /\ chan' = [chan EXCEPT ![cdata] = Shut(@, "client")]
            /\ UNCHANGED listener
       ELSE /\ chan' = WithoutPending
            /\ listener' = NoPort
            /\ UNCHANGED after
  /\ UNCHANGED <<command, cdata, bytesLeft, got, local, gaveUp>>

(* Any other message, a timeout or a closed control connection throws out  *)
(* of the callback and of welcome: the client exits, LS dropping its data  *)
(* connection on the way.                                                  *)
ReplyThrows ==
  /\ cpc = "reply"
  /\ IF Readable(control, "client")
       THEN /\ Head(control.inbox["client"]).type \notin {"OK", "ERROR"}
            /\ response' = Head(control.inbox["client"])
            /\ control' = Take(control, "client")
       ELSE /\ response' = NoMsg
            /\ UNCHANGED control
  /\ IF command.type = "LS"
       THEN /\ cpc' = "drain"
            /\ after' = "exit"
            /\ chan' = [chan EXCEPT ![cdata] = Shut(@, "client")]
       ELSE /\ cpc' = "exit"
            /\ UNCHANGED <<after, chan>>
  /\ UNCHANGED <<listener, command, cdata, bytesLeft, got, local, report, gaveUp>>

-----------------------------------------------------------------------------
(* welcome: the oldest connection in the backlog is accepted.  LS then     *)
(* waits for the reply, GET (which has it) truncates the local file; when  *)
(* that cannot be opened the data connection is dropped.                   *)
Accept ==
  /\ cpc = "accept"
  /\ \E i \in Pending :
       /\ \A j \in Pending : i <= j
       /\ cdata' = i
       /\ \/ /\ command.type = "LS"
             /\ chan' = [chan EXCEPT ![i].st["client"] = "open"]
             /\ cpc' = "reply"
             /\ UNCHANGED <<local, report, after>>
          \/ /\ command.type = "GET"
             /\ chan' = [chan EXCEPT ![i].st["client"] = "open"]
             /\ cpc' = "recv"
             /\ local' = [local EXCEPT ![command.file] = << >>]
             /\ UNCHANGED <<report, after>>
          \/ /\ command.type = "GET"
             /\ chan' = [chan EXCEPT ![i].st["client"] = "shut"]
             /\ cpc' = "drain"
             /\ after' = "prompt"
             /\ report' = "notOpened"
             /\ UNCHANGED local
  /\ UNCHANGED <<control, listener, command, response, bytesLeft, got, gaveUp>>

(* welcome of LS runs for CONNECTION_WAIT_TIMEOUT, tested before select:   *)
(* it may end with a connection in the backlog.  handle_ls returns.        *)
AcceptTimeout ==
  /\ cpc = "accept"
  /\ command.type = "LS"
  /\ cpc' = "prompt"
  /\ chan' = WithoutPending
  /\ listener' = NoPort
  /\ gaveUp' = TRUE
  /\ UNCHANGED <<control, command, response, cdata, bytesLeft, got, after, local,
                 report>>

(* welcome throws: itself, having closed its socket, when select or        *)
(* inet_ntop fails; with the socket still open, through the error callback *)
(* of both commands, when accept or getpeername fails.  getpeername fails  *)
(* after a connection was accepted, which is closed.                       *)
WelcomeFails ==
  /\ cpc = "accept"
  /\ \/ /\ chan' = WithoutPending
        /\ listener' = NoPort
     \/ UNCHANGED <<chan, listener>>
     \/ \E i \in Pending :
          /\ \A j \in Pending : i <= j
          /\ chan' = [chan EXCEPT ![i] = Abort(@, "client")]
          /\ UNCHANGED listener
  /\ cpc' = "exit"
  /\ UNCHANGED <<control, command, response, cdata, bytesLeft, got, after, local,
                 report, gaveUp>>

(* welcome of GET has no timeout: select wakes up and the loop goes round. *)
AcceptPoll ==
  /\ cpc = "accept"
  /\ command.type = "GET"
  /\ Pending = {}
  /\ UNCHANGED <<netVars, clientVars>>

-----------------------------------------------------------------------------
(* What one call of receive asks for: at most a chunk.                     *)
ChunkLen == Min2(Chunk, bytesLeft)

\* Mutant: handle_get reports success without looking at bytesLeft.
Verdict_Unchecked(left) == IF command.type = "GET" THEN "received" ELSE "listed"

(* What the user is told once the transfer has stopped.                    *)
Verdict(left) ==
  IF command.type = "LS" THEN "listed"
  ELSE IF left = 0 THEN "received" ELSE "incomplete"

(* One block arrives.  receive writes it to the file or the list, and      *)
(* returns to the loop over bytesLeft when the chunk is complete.          *)
RecvBlock ==
  /\ cpc = "recv"
  /\ bytesLeft > 0
  /\ Readable(chan[cdata], "client")
  /\ LET b == Head(chan[cdata].inbox["client"]) IN
       local' = IF command.type = "GET"
                  THEN [local EXCEPT ![command.file] = Append(@, b)] ELSE local
  /\ chan' = [chan EXCEPT ![cdata] = Take(@, "client")]
  /\ IF got + 1 = ChunkLen
       THEN got' = 0 /\ bytesLeft' = bytesLeft - ChunkLen
       ELSE got' = got + 1 /\ UNCHANGED bytesLeft
  /\ UNCHANGED <<control, listener, cpc, command, response, cdata, after, report,
                 gaveUp>>

(* receive throws: the peer closed before the first block of a chunk, or   *)
(* recv failed.  GET catches it and reports; LS does not, and exits.       *)
RecvThrows ==
  /\ cpc = "recv"
  /\ bytesLeft > 0
  /\ \/ Broken(chan[cdata], "client")
     \/ Eof(chan[cdata], "client") /\ got = 0
  /\ chan' = [chan EXCEPT ![cdata] = Shut(@, "client")]
  /\ got' = 0
  /\ cpc' = "drain"
  /\ IF command.type = "GET"
       THEN after' = "prompt" /\ report' = Verdict(bytesLeft)
       ELSE after' = "exit" /\ UNCHANGED report
  /\ UNCHANGED <<control, listener, command, response, cdata, bytesLeft, local,
                 gaveUp>>

(* The local file takes no more: receive throws a runtime_error, which     *)
(* nothing in handle_get catches.  The data connection is dropped and the  *)
(* client exits.                                                           *)
WriteFails ==
  /\ cpc = "recv"
  /\ command.type = "GET"
  /\ bytesLeft > 0
  /\ Readable(chan[cdata], "client")
  /\ chan' = [chan EXCEPT ![cdata] = Shut(Take(@, "client"), "client")]
  /\ cpc' = "drain"
  /\ after' = "exit"
  /\ UNCHANGED <<control, listener, command, response, cdata, bytesLeft, got,
                 local, report, gaveUp>>

(* The peer closed inside a chunk: recv returns 0, totalBytes is not 0,    *)
(* and receive has no branch for that: it asks again.                      *)
RecvSpin ==
  /\ cpc = "recv"
  /\ bytesLeft > 0
  /\ Eof(chan[cdata], "client") /\ got > 0
  /\ UNCHANGED <<netVars, clientVars>>

(* All blocks are in: dataChannel->shutdown(), report.                     *)
RecvDone ==
  /\ cpc = "recv"
  /\ bytesLeft = 0
  /\ chan' = [chan EXCEPT ![cdata] = Shut(@, "client")]
  /\ cpc' = "drain"
  /\ after' = "prompt"
  /\ report' = Verdict(bytesLeft)
  /\ UNCHANGED <<control, listener, command, response, cdata, bytesLeft, got,
                 local, gaveUp>>

-----------------------------------------------------------------------------
\* Mutant: shutdown() leaves the descriptor open.
CloseDrained_KeepsOpen(c) == c

CloseDrained(c) == Close(c, "client")

(* Connection::shutdown of the data connection: what still comes is thrown *)
(* away until the end of the stream, an error or SHUTDOWN_TIMEOUT_MS of    *)
(* silence; then the descriptor is closed, and welcome (unless an          *)
(* exception is on its way through it) closes its socket.                  *)
Drain ==
  /\ cpc = "drain"
  /\ IF Readable(chan[cdata], "client")
       THEN /\ chan' = [chan EXCEPT ![cdata] = Take(@, "client")]
            /\ UNCHANGED <<cpc, cdata, listener>>
       ELSE /\ LET rest == IF after = "prompt" THEN WithoutPending ELSE chan
               IN chan' = [rest EXCEPT ![cdata] = CloseDrained(@)]
            /\ listener' = IF after = "prompt" THEN NoPort ELSE listener
            /\ cpc' = after
            /\ cdata' = 0
  /\ UNCHANGED <<control, command, response, bytesLeft, got, after, local, report,
                 gaveUp>>

(* The end of the client: handle_quit, or the destructor of kControl, runs *)
(* Connection::shutdown on the control connection.                         *)
Exit ==
  /\ cpc = "exit"
  /\ control' = Shut(control, "client")
  /\ cpc' = "exitDrain"
  /\ UNCHANGED <<chan, listener, command, response, cdata, bytesLeft, got, after,
                 local, report, gaveUp>>

(* When the process is gone the kernel closes every descriptor it held.    *)
ClientVanishes ==
  /\ control' = IF control.st["client"] \in {"open", "shut"}
                  THEN Close(control, "client") ELSE control
  /\ chan' = WithoutEnd("client")
  /\ listener' = NoPort
  /\ cpc' = "gone"
  /\ cdata' = 0
  /\ UNCHANGED <<command, response, bytesLeft, got, after, local, report, gaveUp>>

ExitDrain ==
  /\ cpc = "exitDrain"
  /\ IF Readable(control, "client")
       THEN /\ control' = Take(control, "client")
            /\ UNCHANGED <<chan, listener, clientVars>>
       ELSE ClientVanishes

(* The user ends the client, which handles no signal, or a send raises     *)
(* SIGPIPE.                                                                *)
ClientKilled == cpc \notin {"connect", "gone"} /\ ClientVanishes

ClientSignalled ==
  cpc = "send" /\ SendSignals(control, "client") /\ ClientVanishes

-----------------------------------------------------------------------------
(* The steps of the program itself, as against those of the user.          *)
ClientWork ==
  \/ Connect \/ ClientSend \/ Greeted
  \/ ReplyOk \/ ReplyError \/ ReplyThrows
  \/ Accept \/ AcceptTimeout \/ AcceptPoll
  \/ RecvBlock \/ RecvThrows \/ WriteFails \/ RecvSpin \/ RecvDone
  \/ Drain \/ Exit \/ ExitDrain \/ ClientSignalled

(* Calls of the operating system that fail.  They may, but nothing makes   *)
(* them: no wait of the client can count on it.                            *)
ClientFails == CommandFails \/ WelcomeFails

(* The values the client works with: a phase, messages of the wire, and a  *)
(* count of bytes left that never goes below zero (the loops of handle_ls  *)
(* and handle_get over an unsigned bytesLeft).                             *)
ClientTypeOK ==
  /\ cpc \in ClientPhase
  /\ command \in Message
  /\ response \in Message
  /\ cdata \in 0 .. MaxCmd
  /\ bytesLeft \in Nat
  /\ got \in Nat
  /\ after \in {"prompt", "exit"}
  /\ local \in [Names -> Seq(Block)]
  /\ report \in Report
  /\ gaveUp \in BOOLEAN

=============================================================================
