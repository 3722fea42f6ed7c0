------------------------------ MODULE Network ------------------------------
(***************************************************************************)
(* The connections of one FTP session, as Connection.cpp sees them through *)
(* the socket calls: the control connection, one data connection for each  *)
(* command the server serves, and the listening socket of the client.      *)
(*                                                                         *)
(* TCP itself is not part of the repository: what recv, send, shutdown and *)
(* close do is modelled from how Connection.cpp uses their results.  A     *)
(* message of the control connection travels whole (Connection::receive    *)
(* puts it together); a data connection carries blocks, the unit in which  *)
(* a transfer can be cut.                                                  *)
(***************************************************************************)
EXTENDS Naturals, Sequences, FiniteSets

CONSTANTS
  Ports,     \* ephemeral ports the client's kernel hands out
  NoPort,    \* no port: nothing listens
  Names,     \* file names a user may ask for
  NoName,    \* no name: the message carries no file
  MaxCmd,    \* commands the user issues before only QUIT is left (bound)
  Window,    \* blocks a data connection holds before ::send blocks
  SigPipe    \* TRUE on Linux: a send on a broken pipe raises SIGPIPE

ASSUME NetworkAssumption ==
  /\ NoPort \notin Ports
  /\ NoName \notin Names
  /\ MaxCmd \in Nat
  /\ Window \in Nat \ {0}
  /\ SigPipe \in BOOLEAN

VARIABLES
  control,   \* the control connection
  chan,      \* chan[i]: the data connection made for command i
  listener   \* the port the client listens on, or NoPort

netVars == <<control, chan, listener>>

Ends == {"client", "server"}
Peer(e) == IF e = "client" THEN "server" ELSE "client"

Ids == 1 .. MaxCmd

(* The fields of connection::Message that steer the protocol.  msglen is   *)
(* framing; id names the user command a message belongs to, a history      *)
(* field the program does not have.                                        *)
MsgTypes == {"HELLO", "LS", "GET", "QUIT", "OK", "ERROR"}
Message ==
  [type : MsgTypes, id : 0 .. MaxCmd, port : Ports \cup {NoPort},
   file : Names \cup {NoName}, datalen : Nat]

MakeMsg(type, id, port, file, datalen) ==
  [type |-> type, id |-> id, port |-> port, file |-> file, datalen |-> datalen]

(* Block k of what a transfer carries: of a file, or of the listing when   *)
(* the name is NoName.                                                     *)
Block == [of : Names \cup {NoName}, at : Nat]

(* none: no connection; pending: completed by the kernel of the client,    *)
(* not yet accepted; shut: FIN sent, still reading; closed: descriptor     *)
(* closed, or the process is gone.                                         *)
EndState == {"none", "pending", "open", "shut", "closed"}

(* A connection: what each end can still read, the state of each end, and  *)
(* the error the kernel has noted for it.                                  *)
Conn(Items) ==
  [inbox : [Ends -> Seq(Items)],
   st    : [Ends -> EndState],
   err   : [Ends -> {"none", "reset", "pipe"}]]

NoConn ==
  [inbox |-> [e \in Ends |-> << >>],
   st    |-> [e \in Ends |-> "none"],
   err   |-> [e \in Ends |-> "none"]]

-----------------------------------------------------------------------------
(* recv_timeout: data first, then the error or the end of the stream; when *)
(* there is none of these only the timeout of select can end the wait.     *)
Readable(c, e) == c.inbox[e] # << >>
PeerDone(c, e) == c.st[Peer(e)] \in {"shut", "closed"}
Broken(c, e)   == ~Readable(c, e) /\ c.err[e] # "none"
Eof(c, e)      == ~Readable(c, e) /\ c.err[e] = "none" /\ PeerDone(c, e)

Take(c, e) == [c EXCEPT !.inbox[e] = Tail(@)]

(* ::send.  A peer that has closed answers with a reset, which may come    *)
(* back before or after the next send; until then the data is just lost.   *)
CanSend(c, e)     == c.err[e] = "none"
SendFails(c, e)   == c.err[e] = "reset" \/ (c.err[e] = "pipe" /\ ~SigPipe)
SendSignals(c, e) == c.err[e] = "pipe" /\ SigPipe
HasRoom(c, e)     == Len(c.inbox[Peer(e)]) < Window

AfterSend(c, e, m) ==
  IF c.st[Peer(e)] = "closed"
    THEN {c, [c EXCEPT !.err[e] = "pipe"]}
    ELSE {[c EXCEPT !.inbox[Peer(e)] = Append(@, m)]}

(* ::shutdown(socket_, SD_SEND) *)
Shut(c, e) == [c EXCEPT !.st[e] = "shut"]

(* closesocket.  Unread data turns the close into a reset; a peer that has *)
(* already seen our FIN is told EPIPE, any other ECONNRESET.               *)
Close(c, e) ==
  [c EXCEPT !.st[e] = "closed",
            !.inbox[e] = << >>,
            !.err[Peer(e)] = IF @ # "none" \/ ~Readable(c, e) THEN @
                             ELSE IF c.st[e] = "shut" THEN "pipe" ELSE "reset"]

(* Closing a listening socket resets what nobody accepted.                 *)
Abort(c, e) ==
  [c EXCEPT !.st[e] = "closed", !.inbox[e] = << >>, !.err[Peer(e)] = "reset"]

Pending == {i \in Ids : chan[i].st["client"] = "pending"}

(* The data connections after the client closes its listening socket.      *)
WithoutPending ==
  [i \in Ids |-> IF i \in Pending THEN Abort(chan[i], "client") ELSE chan[i]]

(* The data connections after the process that owns end e is gone.         *)
WithoutEnd(e) ==
  [i \in Ids |-> CASE chan[i].st[e] = "pending"          -> Abort(chan[i], e)
                   [] chan[i].st[e] \in {"open", "shut"} -> Close(chan[i], e)
                   [] OTHER                              -> chan[i]]

-----------------------------------------------------------------------------
NetInit ==
  /\ control = NoConn
  /\ chan = [i \in Ids |-> NoConn]
  /\ listener = NoPort

(* Connections carry messages on the control channel and blocks on data.   *)
NetTypeOK ==
  /\ control \in Conn(Message)
  /\ chan \in [Ids -> Conn(Block)]
  /\ listener \in Ports \cup {NoPort}

=============================================================================
