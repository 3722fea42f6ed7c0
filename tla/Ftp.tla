-------------------------------- MODULE Ftp --------------------------------
(***************************************************************************)
(* One client and the session that serves it, over the connections of      *)
(* Network: the protocol of the two programs.                              *)
(***************************************************************************)
EXTENDS Client, Session

CONSTANTS
  ClientMayDie,   \* TRUE: the user may kill the client at any moment
  ServerMayStop   \* TRUE: Ctrl+C may end the server at any moment

ASSUME FtpAssumption ==
  /\ ClientMayDie \in BOOLEAN
  /\ ServerMayStop \in BOOLEAN

vars == <<netVars, clientVars, sessionVars>>

Init == NetInit /\ ClientInit /\ SessionInit

Finished == cpc = "gone" /\ spc \in {"none", "gone"}

(* Both programs have ended: not a deadlock.                               *)
Rest == Finished /\ UNCHANGED vars

Next ==
  \/ ClientWork /\ UNCHANGED sessionVars
  \/ (UserCommand \/ ClientFails) /\ UNCHANGED sessionVars
  \/ ClientMayDie /\ ClientKilled /\ UNCHANGED sessionVars
  \/ SessionWork /\ UNCHANGED clientVars
  \/ StreamFails /\ UNCHANGED clientVars
  \/ ServerMayStop /\ ServerStops /\ UNCHANGED clientVars
  \/ Rest

(* Each thread runs, and a wait with a timeout ends.  Nothing is assumed   *)
(* of the user, of calls that fail, nor of the two ways a process is       *)
(* stopped from outside.                                                   *)
Fairness ==
  /\ WF_vars(ClientWork /\ UNCHANGED sessionVars)
  /\ WF_vars(SessionWork /\ UNCHANGED clientVars)

Spec == Init /\ [][Next]_vars
FairSpec == Spec /\ Fairness

(* Every variable keeps its type; in particular the two counts of what is  *)
(* left of a transfer (bytesLeft of handle_get, bytesLeft of send) never   *)
(* pass zero.                                                              *)
TypeOK == NetTypeOK /\ ClientTypeOK /\ SessionTypeOK

-----------------------------------------------------------------------------
(* What the server has under a name.                                       *)
Contents(f) == [k \in 1 .. FileLen[f] |-> [of |-> f, at |-> k]]

(* Whichever way a command ended, nothing of it stays open: at the prompt  *)
(* the client has no welcome socket and no data connection, and a session  *)
(* that is not in a transfer has no data connection.                       *)
NothingLeftOpen ==
  /\ cpc = "prompt" =>
       /\ listener = NoPort
       /\ \A i \in Ids : chan[i].st["client"] \in {"none", "closed"}
  /\ spc \notin {"answer", "send", "drain"} =>
       \A i \in Ids : chan[i].st["server"] \in {"none", "closed"}

(* Unless an LS gave up waiting, the control connection is in step at the  *)
(* prompt: every reply was taken by the command it answers.                *)
NoReplyLeftOver ==
  cpc = "prompt" /\ ~gaveUp => ~Readable(control, "client")

(* Unless an LS gave up waiting, a client that transfers acts on the OK to *)
(* its own command and reads the connection made for that command.         *)
TransferIsOwn ==
  cpc = "recv" /\ ~gaveUp =>
    response.type = "OK" /\ response.id = command.id /\ cdata = command.id

(* "Received ... successfully" is said of nothing but the whole file.      *)
ReceivedIsWhole ==
  report = "received" =>
    command.file \in Files /\ local[command.file] = Contents(command.file)

(* It is true of a client none of whose LS commands gave up waiting.       *)
ReceivedIsWholeInStep == ~gaveUp => ReceivedIsWhole

(* A local file is only touched by the GET that names it, after the server *)
(* has answered OK.                                                        *)
LocalChangesAfterOk ==
  [][\A f \in Names : local'[f] # local[f] =>
       command.type = "GET" /\ command.file = f /\ response.type = "OK"]_vars

(* The client keeps the promise of FtpService to its user.                 *)
Status ==
  CASE cpc \in {"connect", "greet"}                 -> "starting"
    [] cpc = "send" /\ command.type = "HELLO"       -> "starting"
    [] cpc = "prompt"                               -> "ready"
    [] cpc \in {"exit", "exitDrain", "gone"}        -> "over"
    [] OTHER                                        -> "busy"

Service ==
  INSTANCE FtpService WITH
    status <- Status, asked <- command, copy <- local, outcome <- report,
    inStep <- ~gaveUp

KeepsPromise == Service!Spec

-----------------------------------------------------------------------------
Busy == cpc \notin {"prompt", "gone"}

(* Every call of the client returns: once it has a command, or is starting *)
(* or ending, it comes back to the prompt or ends.                         *)
CommandEnds == Busy ~> ~Busy

CutInsideChunk ==
  cpc = "recv" /\ bytesLeft > 0 /\ got > 0 /\ Eof(chan[cdata], "client")

(* Two things alone can keep it from that: the data connection is closed   *)
(* by the server inside a chunk, or an LS gave up waiting.                 *)
CommandEndsUnlessCut == Busy ~> (~Busy \/ gaveUp \/ CutInsideChunk)

(* The thread of a client that is gone ends, wherever it was.              *)
SessionEnds ==
  (cpc = "gone" /\ control.st["server"] = "open") ~> (spc = "gone")

(* Server.cpp:73: welcome "blocks until interrupted: every time a client   *)
(* connects, cest callback will be used".  So, Ctrl+C excepted             *)
(* (ServerMayStop is FALSE), the thread of a client ends by shutting its   *)
(* control connection down, and never takes the process with it.  True     *)
(* where send returns an error; where it raises SIGPIPE, which nobody      *)
(* catches or masks (Connection.cpp:165), it is false.                     *)
SessionEndsItself ==
  [][spc # "gone" /\ spc' = "gone" => spc = "closeDrain"]_vars

(* A file the server can open is not refused: handle_get gets past the     *)
(* checks to its comment "everything looks good".                          *)
RefusalIsDeserved ==
  response.type = "ERROR" /\ command.type = "GET" /\ response.id = command.id
    => command.file \notin Files

(* The user is told how every LS and GET ended: the client's diagram has   *)
(* it print an error message after a timeout as after an ERROR response.   *)
CommandIsReported ==
  cpc = "prompt" /\ command.type \in {"LS", "GET"} => report # "none"

(* The only command the user may not be told the end of is an LS whose     *)
(* welcome ran into its time limit (handle_ls:250): every GET says how *)
(* it ended, whatever went wrong.                                          *)
OnlyListingsEndSilently ==
  cpc = "prompt" =>
    /\ command.type = "GET" => report # "none"
    /\ command.type = "LS" /\ ~gaveUp => report # "none"

=============================================================================
