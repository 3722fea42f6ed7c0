------------------------------ MODULE Session ------------------------------
(***************************************************************************)
(* One ClientSession of the server (ClientSession.cpp, serve_client of     *)
(* Server.cpp): a detached thread that greets its client and serves LS,    *)
(* GET and QUIT.  spc says which call the thread is at.                    *)
(***************************************************************************)
EXTENDS Network

CONSTANTS
  Files,    \* the names of regular files the server can open
  FileLen,  \* the length of each, in blocks
  MaxList   \* the longest listing, in blocks (bound)

ASSUME SessionAssumption ==
  /\ Files \subseteq Names
  /\ FileLen \in [Files -> Nat]
  /\ MaxList \in Nat

VARIABLES
  spc,       \* where the session is
  request,   \* the command it is serving (clientCommand)
  toSend,    \* blocks of the transfer not yet sent
  sent,      \* blocks of the transfer sent (totalBytesSent)
  then       \* where it continues once the data connection is shut down

sessionVars == <<spc, request, toSend, sent, then>>

SessionPhase ==
  {"none", "hello", "greet", "idle", "check", "connect", "answer", "send",
   "drain", "close", "closeDrain", "gone"}

NoRequest == MakeMsg("ERROR", 0, NoPort, NoName, 0)

SessionInit ==
  /\ spc = "none"
  /\ request = NoRequest
  /\ toSend = 0
  /\ sent = 0
  /\ then = "idle"

-----------------------------------------------------------------------------
(* welcome of main accepts the client and starts its thread.               *)
StartThread ==
  /\ spc = "none"
  /\ control.st["server"] = "open"
  /\ spc' = "hello"
  /\ UNCHANGED <<netVars, request, toSend, sent, then>>

(* greeting: send HELLO first, then expect one.  A failing send throws.    *)
SendHello ==
  /\ spc = "hello"
  /\ \/ /\ CanSend(control, "server")
        /\ control' \in AfterSend(control, "server",
                                  MakeMsg("HELLO", 0, NoPort, NoName, 0))
        /\ spc' = "greet"
     \/ /\ SendFails(control, "server")
        /\ spc' = "close"
        /\ UNCHANGED control
  /\ UNCHANGED <<chan, listener, request, toSend, sent, then>>

AwaitHello ==
  /\ spc = "greet"
  /\ IF Readable(control, "server")
       THEN /\ control' = Take(control, "server")
            /\ spc' = IF Head(control.inbox["server"]).type = "HELLO"
                        THEN "idle" ELSE "close"
       ELSE /\ spc' = "close"
            /\ UNCHANGED control
  /\ UNCHANGED <<chan, listener, request, toSend, sent, then>>

\* Mutant: serve goes on waiting after the idle timeout.
AfterNoCommand_Waits == "idle"

AfterNoCommand == "close"

(* serve: the next command, awaited for TIMEOUT_IDLE.  QUIT shuts the      *)
(* control connection down; a timeout, a closed connection and any other   *)
(* message end the session the same way.                                   *)
ReceiveCommand ==
  /\ spc = "idle"
  /\ IF Readable(control, "server")
       THEN LET m == Head(control.inbox["server"]) IN
            /\ control' = Take(control, "server")
            /\ request' = m
            /\ spc' = CASE m.type = "LS"  -> "connect"
                        [] m.type = "GET" -> "check"
                        [] OTHER          -> "close"
       ELSE /\ spc' = AfterNoCommand
            /\ request' = NoRequest
            /\ UNCHANGED control
  /\ UNCHANGED <<chan, listener, toSend, sent, then>>

-----------------------------------------------------------------------------
(* handle_get: a name that is no readable regular file is answered with    *)
(* ERROR.  Otherwise response was never assigned: its msgid is read        *)
(* uninitialized, and when it happens to be 200 the command is refused as  *)
(* well.  A failing send is caught in handle_get; a filesystem_error of    *)
(* fs::exists is not, and ends the session.                                *)
Refused(f) == f \notin Files

CheckFile ==
  /\ spc = "check"
  /\ \/ /\ ~Refused(request.file)
        /\ spc' = "connect"
        /\ UNCHANGED control
     \/ \E garbage \in BOOLEAN :
          /\ Refused(request.file) \/ garbage
          /\ \/ /\ CanSend(control, "server")
                /\ control' \in AfterSend(control, "server",
                     MakeMsg("ERROR", request.id, NoPort, NoName, 0))
             \/ /\ SendFails(control, "server")
                /\ UNCHANGED control
          /\ spc' = "idle"
     \/ /\ spc' = "close"
        /\ UNCHANGED control
  /\ UNCHANGED <<chan, listener, request, toSend, sent, then>>

(* Where a ConnectionException leaves the session.                         *)
AfterConnError == IF request.type = "LS" THEN "close" ELSE "idle"

(* Connection::connect to the port of the command.  When nobody listens,   *)
(* or there is no socket or route, it throws: handle_get catches the       *)
(* exception and serves on, handle_ls throws it again and the session      *)
(* ends.                                                                   *)
ConnectData ==
  /\ spc = "connect"
  /\ \/ /\ listener = request.port
        /\ chan' = [chan EXCEPT ![request.id].st =
                      [client |-> "pending", server |-> "open"]]
        /\ spc' = "answer"
     \/ /\ spc' = AfterConnError
        /\ UNCHANGED chan
  /\ UNCHANGED <<control, listener, request, toSend, sent, then>>

(* An exception during the transfer: the data connection goes out of scope *)
(* and is shut down, then the session resumes at t.  handle_get swallows a *)
(* ConnectionException; handle_ls throws it again, and no handler catches  *)
(* a filesystem_error of the directory or the runtime_error of a stream    *)
(* that cannot be read to its end.                                         *)
Unwind(t) ==
  /\ spc' = "drain"
  /\ then' = t
  /\ chan' = [chan EXCEPT ![request.id] = Shut(@, "server")]

(* OK with the number of blocks that follow: the length of the file, or of *)
(* the listing made just before.                                           *)
Lengths(m) == IF m.type = "LS" THEN 0 .. MaxList ELSE {FileLen[m.file]}

AnswerOk ==
  /\ spc = "answer"
  /\ \/ /\ CanSend(control, "server")
        /\ \E n \in Lengths(request) :
             /\ control' \in AfterSend(control, "server",
                  MakeMsg("OK", request.id, NoPort, NoName, n))
             /\ toSend' = n
        /\ sent' = 0
        /\ spc' = "send"
        /\ UNCHANGED <<chan, then>>
     \/ /\ SendFails(control, "server")
        /\ Unwind(AfterConnError)
        /\ UNCHANGED <<control, toSend, sent>>
     \/ /\ request.type = "LS"
        /\ Unwind("close")
        /\ UNCHANGED <<control, toSend, sent>>
  /\ UNCHANGED <<listener, request>>

\* Mutant: the loop over the stream tests for its end too late.
MoreToSend_Late == toSend >= 0

MoreToSend == toSend > 0

(* Connection::send of the stream, block by block; it blocks while the     *)
(* peer does not read.                                                     *)
SendBlock ==
  /\ spc = "send"
  /\ MoreToSend
  /\ LET c == chan[request.id] IN
     \/ /\ CanSend(c, "server")
        /\ HasRoom(c, "server")
        /\ \E d \in AfterSend(c, "server", [of |-> request.file, at |-> sent + 1]) :
             chan' = [chan EXCEPT ![request.id] = d]
        /\ sent' = sent + 1
        /\ toSend' = toSend - 1
        /\ UNCHANGED <<spc, then>>
     \/ /\ SendFails(c, "server")
        /\ Unwind(AfterConnError)
        /\ UNCHANGED <<sent, toSend>>
  /\ UNCHANGED <<control, listener, request>>

(* The stream cannot be read to its end: send throws a runtime_error.      *)
(* Only a file can fail so.  It may happen, but nothing makes it happen.   *)
StreamFails ==
  /\ spc = "send"
  /\ request.type = "GET"
  /\ Unwind("close")
  /\ UNCHANGED <<control, listener, request, toSend, sent>>

SendDone ==
  /\ spc = "send"
  /\ toSend = 0
  /\ spc' = "drain"
  /\ then' = "idle"
  /\ chan' = [chan EXCEPT ![request.id] = Shut(@, "server")]
  /\ UNCHANGED <<control, listener, request, toSend, sent>>

(* Connection::shutdown of the data connection.  The client writes nothing *)
(* on it, so recv only sees the end, an error or the timeout.              *)
CloseData ==
  /\ spc = "drain"
  /\ chan' = [chan EXCEPT ![request.id] = Close(@, "server")]
  /\ spc' = then
  /\ UNCHANGED <<control, listener, request, toSend, sent, then>>

-----------------------------------------------------------------------------
(* Connection::shutdown of the control connection, from handle_quit or     *)
(* from client.reset() in serve_client: commands still coming are lost.    *)
CloseControl ==
  /\ spc = "close"
  /\ control' = Shut(control, "server")
  /\ spc' = "closeDrain"
  /\ UNCHANGED <<chan, listener, request, toSend, sent, then>>

DrainControl ==
  /\ spc = "closeDrain"
  /\ IF Readable(control, "server")
       THEN /\ control' = Take(control, "server")
            /\ UNCHANGED spc
       ELSE /\ control' = Close(control, "server")
            /\ spc' = "gone"
  /\ UNCHANGED <<chan, listener, request, toSend, sent, then>>

(* The server process ends, all its threads with it: main returns after    *)
(* Ctrl+C, or a send of this thread raised SIGPIPE.                        *)
ServerVanishes ==
  /\ control' = IF control.st["server"] \in {"open", "shut"}
                  THEN Close(control, "server") ELSE control
  /\ chan' = WithoutEnd("server")
  /\ spc' = "gone"
  /\ UNCHANGED <<listener, request, toSend, sent, then>>

ServerStops ==
  spc # "gone" /\ control.st["server"] \in {"open", "shut"} /\ ServerVanishes

ServerSignalled ==
  /\ \/ spc \in {"hello", "check", "answer"} /\ SendSignals(control, "server")
     \/ spc = "send" /\ toSend > 0 /\ SendSignals(chan[request.id], "server")
  /\ ServerVanishes

-----------------------------------------------------------------------------
SessionWork ==
  \/ StartThread \/ SendHello \/ AwaitHello \/ ReceiveCommand
  \/ CheckFile \/ ConnectData \/ AnswerOk \/ SendBlock \/ SendDone \/ CloseData
  \/ CloseControl \/ DrainControl \/ ServerSignalled

(* The values a session works with: a phase of serve, a command of the     *)
(* wire, and lengths that never go below zero (send and its loop).         *)
SessionTypeOK ==
  /\ spc \in SessionPhase
  /\ request \in Message
  /\ toSend \in Nat
  /\ sent \in Nat
  /\ then \in {"idle", "close"}

=============================================================================
