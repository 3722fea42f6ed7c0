----------------------------- MODULE Ftp_proofs -----------------------------
(***************************************************************************)
(* Proofs about Ftp, for every set of ports, names and files and every     *)
(* bound: the types, what happens to local files and to sockets, that the  *)
(* two programs stay in step, that files arrive whole, and that the client *)
(* keeps the promise of FtpService.                                        *)
(***************************************************************************)
EXTENDS Ftp, TLAPS

USE NetworkAssumption, ChunkAssumption, SessionAssumption, FtpAssumption

-----------------------------------------------------------------------------
(* What the socket calls do to a connection.                               *)

(* recv takes what is there and leaves the state of both ends alone.       *)
LEMMA TakeLemma ==
  ASSUME NEW Items, NEW c \in Conn(Items), NEW e \in Ends, Readable(c, e)
  PROVE  /\ Take(c, e) \in Conn(Items)
         /\ Take(c, e).st = c.st
         /\ Take(c, e).inbox[e] = Tail(c.inbox[e])
         /\ \A x \in Ends \ {e} : Take(c, e).inbox[x] = c.inbox[x]
         /\ Head(c.inbox[e]) \in Items
  <1>1. c.inbox[e] \in Seq(Items) /\ c.inbox[e] # << >>
    BY DEF Conn, Readable
  <1>2. Head(c.inbox[e]) \in Items /\ Tail(c.inbox[e]) \in Seq(Items)
    BY <1>1
  <1>. DEFINE box == [c.inbox EXCEPT ![e] = Tail(@)]
  <1>3. /\ box \in [Ends -> Seq(Items)]
        /\ box[e] = Tail(c.inbox[e])
        /\ \A x \in Ends \ {e} : box[x] = c.inbox[x]
    BY <1>2 DEF Conn
  <1>4. Take(c, e) = [c EXCEPT !.inbox = box]
    BY DEF Take
  <1>. HIDE DEF box
  <1>5. Take(c, e) \in Conn(Items) /\ Take(c, e).st = c.st /\ Take(c, e).inbox = box
    BY <1>3, <1>4 DEF Conn
  <1>. QED
    BY <1>2, <1>3, <1>5

(* shutdown sends a FIN and leaves what was received alone.                *)
LEMMA ShutLemma ==
  ASSUME NEW Items, NEW c \in Conn(Items), NEW e \in Ends
  PROVE  /\ Shut(c, e) \in Conn(Items)
         /\ Shut(c, e).st = [c.st EXCEPT ![e] = "shut"]
         /\ Shut(c, e).inbox = c.inbox
  BY DEF Shut, Conn, EndState

(* close forgets what this end has not read.                               *)
LEMMA CloseLemma ==
  ASSUME NEW Items, NEW c \in Conn(Items), NEW e \in Ends
  PROVE  /\ Close(c, e) \in Conn(Items)
         /\ Close(c, e).st = [c.st EXCEPT ![e] = "closed"]
         /\ Close(c, e).inbox = [c.inbox EXCEPT ![e] = << >>]
  <1>1. Peer(e) \in Ends
    BY DEF Peer, Ends
  <1>2. << >> \in Seq(Items)
    OBVIOUS
  <1>. QED
    BY <1>1, <1>2 DEF Close, Conn, EndState

LEMMA AbortLemma ==
  ASSUME NEW Items, NEW c \in Conn(Items), NEW e \in Ends
  PROVE  /\ Abort(c, e) \in Conn(Items)
         /\ Abort(c, e).st = [c.st EXCEPT ![e] = "closed"]
         /\ Abort(c, e).inbox = [c.inbox EXCEPT ![e] = << >>]
  <1>1. Peer(e) \in Ends
    BY DEF Peer, Ends
  <1>2. << >> \in Seq(Items)
    OBVIOUS
  <1>. QED
    BY <1>1, <1>2 DEF Abort, Conn, EndState

(* send puts one item at the end of what the peer can read, or loses it.   *)
LEMMA SendLemma ==
  ASSUME NEW Items, NEW c \in Conn(Items), NEW e \in Ends, NEW m \in Items,
         NEW d \in AfterSend(c, e, m)
  PROVE  /\ d \in Conn(Items)
         /\ d.st = c.st
         /\ d.inbox \in {c.inbox, [c.inbox EXCEPT ![Peer(e)] = Append(@, m)]}
  <1>1. Peer(e) \in Ends
    BY DEF Peer, Ends
  <1>2. CASE c.st[Peer(e)] = "closed"
    <2>1. d \in {c, [c EXCEPT !.err[e] = "pipe"]}
      BY <1>2 DEF AfterSend
    <2>2. [c EXCEPT !.err[e] = "pipe"] \in Conn(Items)
      BY DEF Conn
    <2>3. d.st = c.st /\ d.inbox = c.inbox
      BY <2>1 DEF Conn
    <2>. QED
      BY <2>1, <2>2, <2>3
  <1>3. CASE c.st[Peer(e)] # "closed"
    <2>. DEFINE box == [c.inbox EXCEPT ![Peer(e)] = Append(@, m)]
    <2>1. d = [c EXCEPT !.inbox = box]
      BY <1>3 DEF AfterSend, Conn
    <2>2. Append(c.inbox[Peer(e)], m) \in Seq(Items)
      BY <1>1 DEF Conn
    <2>3. box \in [Ends -> Seq(Items)]
      BY <1>1, <2>2 DEF Conn
    <2>. HIDE DEF box
    <2>4. d \in Conn(Items) /\ d.st = c.st /\ d.inbox = box
      BY <2>1, <2>3 DEF Conn
    <2>. QED
      BY <2>4 DEF box
  <1>. QED
    BY <1>2, <1>3

(* Closing the listening socket touches nothing but the backlog.           *)
LEMMA WithoutPendingLemma ==
  ASSUME chan \in [Ids -> Conn(Block)]
  PROVE  /\ WithoutPending \in [Ids -> Conn(Block)]
         /\ \A i \in Ids :
              /\ WithoutPending[i].st["server"] = chan[i].st["server"]
              /\ WithoutPending[i].st["client"] =
                   IF chan[i].st["client"] = "pending" THEN "closed"
                   ELSE chan[i].st["client"]
  <1>1. "client" \in Ends /\ "server" \in Ends
    BY DEF Ends
  <1>2. ASSUME NEW i \in Ids
        PROVE  /\ Abort(chan[i], "client") \in Conn(Block)
               /\ Abort(chan[i], "client").st = [chan[i].st EXCEPT !["client"] = "closed"]
               /\ chan[i].st \in [Ends -> EndState]
    <2>1. chan[i] \in Conn(Block)
      OBVIOUS
    <2>2. chan[i].st \in [Ends -> EndState]
      BY <2>1 DEF Conn
    <2>3. /\ Abort(chan[i], "client") \in Conn(Block)
          /\ Abort(chan[i], "client").st = [chan[i].st EXCEPT !["client"] = "closed"]
      BY <1>1, <2>1, AbortLemma
    <2>. QED
      BY <2>2, <2>3
  <1>3. ASSUME NEW i \in Ids
        PROVE  /\ WithoutPending[i] \in Conn(Block)
               /\ WithoutPending[i].st =
                    IF chan[i].st["client"] = "pending"
                      THEN [chan[i].st EXCEPT !["client"] = "closed"] ELSE chan[i].st
    BY <1>2 DEF WithoutPending, Pending
  <1>4. WithoutPending \in [Ids -> Conn(Block)]
    BY <1>3 DEF WithoutPending
  <1>. QED
    BY <1>1, <1>2, <1>3, <1>4 DEF Ends

(* An accepted connection that is closed at once.                          *)
LEMMA AbortOneLemma ==
  ASSUME chan \in [Ids -> Conn(Block)], NEW i \in Ids,
         chan' = [chan EXCEPT ![i] = Abort(@, "client")]
  PROVE  /\ chan' \in [Ids -> Conn(Block)]
         /\ \A j \in Ids :
              /\ chan'[j].st["server"] = chan[j].st["server"]
              /\ chan'[j].st["client"] =
                   IF j = i THEN "closed" ELSE chan[j].st["client"]
  <1>1. "client" \in Ends /\ "server" \in Ends
    BY DEF Ends
  <1>2. chan[i] \in Conn(Block) /\ chan[i].st \in [Ends -> EndState]
    BY DEF Conn
  <1>3. /\ Abort(chan[i], "client") \in Conn(Block)
        /\ Abort(chan[i], "client").st = [chan[i].st EXCEPT !["client"] = "closed"]
    BY <1>1, <1>2, AbortLemma
  <1>. QED
    BY <1>1, <1>2, <1>3

(* When a process ends, its end of every data connection is closed.        *)
LEMMA WithoutEndLemma ==
  ASSUME chan \in [Ids -> Conn(Block)], NEW e \in Ends
  PROVE  /\ WithoutEnd(e) \in [Ids -> Conn(Block)]
         /\ \A i \in Ids :
              /\ WithoutEnd(e)[i].st[Peer(e)] = chan[i].st[Peer(e)]
              /\ WithoutEnd(e)[i].st[e] \in {"none", "closed"}
              /\ WithoutEnd(e)[i].inbox[Peer(e)] = chan[i].inbox[Peer(e)]
  <1>1. Peer(e) \in Ends /\ Peer(e) # e
    BY DEF Peer, Ends
  <1>. DEFINE Ended(c, d) == /\ d \in Conn(Block)
                            /\ d.st[Peer(e)] = c.st[Peer(e)]
                            /\ d.st[e] \in {"none", "closed"}
                            /\ d.inbox[Peer(e)] = c.inbox[Peer(e)]
  <1>2. ASSUME NEW c \in Conn(Block), NEW d \in Conn(Block),
               d.st = [c.st EXCEPT ![e] = "closed"],
               d.inbox = [c.inbox EXCEPT ![e] = << >>]
        PROVE  Ended(c, d)
    <2>1. c.st \in [Ends -> EndState] /\ c.inbox \in [Ends -> Seq(Block)]
      BY DEF Conn
    <2>2. d.st[Peer(e)] = c.st[Peer(e)] /\ d.st[e] = "closed"
      BY <1>1, <1>2, <2>1
    <2>3. d.inbox[Peer(e)] = c.inbox[Peer(e)]
      BY <1>1, <1>2, <2>1
    <2>. QED
      BY <2>2, <2>3
  <1>3. ASSUME NEW i \in Ids
        PROVE  Ended(chan[i], WithoutEnd(e)[i])
    <2>1. chan[i] \in Conn(Block) /\ chan[i].st[e] \in EndState
      BY DEF Conn
    <2>2. Ended(chan[i], Abort(chan[i], e))
      <3>1. /\ Abort(chan[i], e) \in Conn(Block)
            /\ Abort(chan[i], e).st = [chan[i].st EXCEPT ![e] = "closed"]
            /\ Abort(chan[i], e).inbox = [chan[i].inbox EXCEPT ![e] = << >>]
        BY <2>1, AbortLemma
      <3>. HIDE DEF Ended
      <3>. QED
        BY <1>2, <2>1, <3>1
    <2>3. Ended(chan[i], Close(chan[i], e))
      <3>1. /\ Close(chan[i], e) \in Conn(Block)
            /\ Close(chan[i], e).st = [chan[i].st EXCEPT ![e] = "closed"]
            /\ Close(chan[i], e).inbox = [chan[i].inbox EXCEPT ![e] = << >>]
        BY <2>1, CloseLemma
      <3>. HIDE DEF Ended
      <3>. QED
        BY <1>2, <2>1, <3>1
    <2>4. chan[i].st[e] \in {"none", "closed"} => Ended(chan[i], chan[i])
      BY <2>1
    <2>. HIDE DEF Ended
    <2>. QED
      BY <2>1, <2>2, <2>3, <2>4 DEF WithoutEnd, EndState
  <1>4. WithoutEnd(e) \in [Ids -> Conn(Block)]
    BY <1>3 DEF WithoutEnd
  <1>. QED
    BY <1>3, <1>4

(* A connection replaced by another one leaves the rest as it was.         *)
LEMMA ChanLemma ==
  ASSUME chan \in [Ids -> Conn(Block)], NEW i, NEW d, i \in Ids => d \in Conn(Block)
  PROVE  [chan EXCEPT ![i] = d] \in [Ids -> Conn(Block)]
  OBVIOUS

-----------------------------------------------------------------------------
(* Type correctness.  The type invariant alone is not inductive: what the  *)
(* client appends to a file is a block only if it reads a data connection, *)
(* and the length of a transfer is a number only for a file the server     *)
(* has.                                                                    *)
ReadsData ==
  /\ cpc = "recv" => cdata \in Ids
  /\ cpc = "reply" /\ command.type = "LS" => cdata \in Ids

ServesFile ==
  spc \in {"connect", "answer"} /\ request.type # "LS" => request.file \in Files

TypeInv == TypeOK /\ ReadsData /\ ServesFile

LEMMA MessageLemma ==
  ASSUME NEW type \in MsgTypes, NEW id \in 0 .. MaxCmd, NEW port \in Ports \cup {NoPort},
         NEW file \in Names \cup {NoName}, NEW datalen \in Nat
  PROVE  /\ MakeMsg(type, id, port, file, datalen) \in Message
         /\ MakeMsg(type, id, port, file, datalen).type = type
  BY DEF MakeMsg, Message

LEMMA NoConnLemma ==
  ASSUME NEW Items
  PROVE  NoConn \in Conn(Items)
  <1>1. << >> \in Seq(Items)
    OBVIOUS
  <1>. QED
    BY <1>1 DEF NoConn, Conn, EndState

LEMMA InitType == Init => TypeInv
  <1>. SUFFICES ASSUME Init PROVE TypeInv
    OBVIOUS
  <1>. USE DEF Init, NetInit, ClientInit, SessionInit
  <1>1. NetTypeOK
    <2>1. control \in Conn(Message)
      BY NoConnLemma
    <2>2. chan \in [Ids -> Conn(Block)]
      BY NoConnLemma
    <2>. QED
      BY <2>1, <2>2 DEF NetTypeOK
  <1>2. ClientTypeOK
    <2>1. Hello \in Message /\ NoMsg \in Message
      BY MessageLemma DEF Hello, NoMsg, MsgTypes
    <2>2. OldCopy \in Seq(Block)
      <3>1. [of |-> NoName, at |-> 0] \in Block
        BY DEF Block
      <3>. QED
        BY <3>1 DEF OldCopy
    <2>3. local \in [Names -> Seq(Block)]
      BY <2>2
    <2>4. gaveUp \in BOOLEAN
      OBVIOUS
    <2>5. cdata \in 0 .. MaxCmd /\ bytesLeft \in Nat /\ got \in Nat
      OBVIOUS
    <2>6. cpc \in ClientPhase /\ report \in Report /\ after \in {"prompt", "exit"}
      BY DEF ClientPhase, Report
    <2>7. command \in Message /\ response \in Message
      BY <2>1
    <2>. QED
      BY <2>3, <2>4, <2>5, <2>6, <2>7 DEF ClientTypeOK
  <1>3. SessionTypeOK
    <2>1. NoRequest \in Message
      BY MessageLemma DEF NoRequest, MsgTypes
    <2>. QED
      BY <2>1 DEF SessionTypeOK, SessionPhase
  <1>. QED
    BY <1>1, <1>2, <1>3 DEF TypeInv, TypeOK, ReadsData, ServesFile

(* A step of the client keeps the types.                                   *)
LEMMA ClientStepType ==
  ASSUME TypeInv, ClientWork \/ UserCommand \/ ClientFails \/ ClientKilled, UNCHANGED sessionVars
  PROVE  TypeInv'
  <1>. USE DEF TypeInv, TypeOK, NetTypeOK, ClientTypeOK, SessionTypeOK,
               ReadsData, ServesFile, sessionVars
  <1>1. "client" \in Ends /\ "server" \in Ends
    BY DEF Ends
  <1>2. ASSUME Readable(control, "client")
        PROVE  /\ Take(control, "client") \in Conn(Message)
               /\ Head(control.inbox["client"]) \in Message
    BY <1>1, <1>2, TakeLemma
  <1>3. ASSUME cdata \in Ids
        PROVE  Shut(chan[cdata], "client") \in Conn(Block)
    BY <1>1, <1>3, ShutLemma
  <1>4. ASSUME cdata \in Ids, Readable(chan[cdata], "client")
        PROVE  /\ Take(chan[cdata], "client") \in Conn(Block)
               /\ Head(chan[cdata].inbox["client"]) \in Block
    BY <1>1, <1>4, TakeLemma
  <1>5. WithoutPending \in [Ids -> Conn(Block)]
    BY WithoutPendingLemma
  <1>6. ASSUME ClientVanishes PROVE TypeInv'
    <2>1. WithoutEnd("client") \in [Ids -> Conn(Block)]
      BY <1>1, WithoutEndLemma
    <2>2. Close(control, "client") \in Conn(Message)
      BY <1>1, CloseLemma
    <2>. QED
      BY <1>6, <2>1, <2>2 DEF ClientVanishes, ClientPhase
  <1>10. CASE Connect
    <2>1. [control EXCEPT !.st = [e \in Ends |-> "open"]] \in Conn(Message)
      BY DEF Conn, EndState
    <2>. QED
      BY <1>10, <2>1 DEF Connect, ClientPhase
  <1>11. CASE UserCommand
    <2>1. command' \in Message
      <3>1. CASE command.id < MaxCmd /\ \E p \in Ports :
                   command' = MakeMsg("LS", command.id + 1, p, NoName, 0)
        BY <1>11, <3>1 DEF UserCommand, Message, MsgTypes, MakeMsg
      <3>2. CASE command.id < MaxCmd /\ \E p \in Ports, f \in Names :
                   command' = MakeMsg("GET", command.id + 1, p, f, 0)
        BY <1>11, <3>2 DEF UserCommand, Message, MsgTypes, MakeMsg
      <3>3. CASE command' = MakeMsg("QUIT", command.id, NoPort, NoName, 0)
        BY <3>3 DEF Message, MsgTypes, MakeMsg
      <3>. QED
        BY <1>11, <3>1, <3>2, <3>3 DEF UserCommand
    <2>2. NoMsg \in Message
      BY DEF NoMsg, Message, MsgTypes, MakeMsg
    <2>. QED
      BY <1>11, <2>1, <2>2 DEF UserCommand, ClientPhase, Report
  <1>12. CASE ClientSend
    <2>1. control' \in Conn(Message)
      BY <1>1, <1>12, SendLemma DEF ClientSend
    <2>2. cpc' \in ClientPhase
      BY <1>12 DEF ClientSend, NextAfterSend, ClientPhase
    <2>3. (cpc = "reply" /\ command.type = "LS")' => FALSE
      BY <1>12 DEF ClientSend, NextAfterSend
    <2>. QED
      BY <1>12, <2>1, <2>2, <2>3 DEF ClientSend, NextAfterSend
  <1>13. CASE Greeted
    <2>1. NoMsg \in Message
      BY MessageLemma DEF NoMsg, MsgTypes
    <2>. QED
      BY <1>2, <1>13, <2>1 DEF Greeted, ClientPhase
  <1>14. CASE ReplyOk
    BY <1>2, <1>14 DEF ReplyOk, ClientPhase, Message
  <1>15. CASE ReplyError
    <2>1. chan' \in [Ids -> Conn(Block)]
      BY <1>3, <1>5, <1>15, ChanLemma DEF ReplyError
    <2>. QED
      BY <1>2, <1>15, <2>1 DEF ReplyError, AfterError, ClientPhase, Report
  <1>16. CASE ReplyThrows
    <2>1. NoMsg \in Message
      BY MessageLemma DEF NoMsg, MsgTypes
    <2>2. chan' \in [Ids -> Conn(Block)]
      BY <1>3, <1>16, ChanLemma DEF ReplyThrows
    <2>3. cpc' \in {"drain", "exit"}
      BY <1>16 DEF ReplyThrows
    <2>. QED
      BY <1>2, <1>16, <2>1, <2>2, <2>3 DEF ReplyThrows, ClientPhase
  <1>17. CASE Accept
    <2>1. PICK i \in Pending :
            /\ cdata' = i
            /\ \/ chan' = [chan EXCEPT ![i].st["client"] = "open"]
               \/ chan' = [chan EXCEPT ![i].st["client"] = "shut"]
      BY <1>17 DEF Accept
    <2>2. i \in Ids
      BY DEF Pending
    <2>3. /\ [chan[i] EXCEPT !.st["client"] = "open"] \in Conn(Block)
          /\ [chan[i] EXCEPT !.st["client"] = "shut"] \in Conn(Block)
      BY <2>2 DEF Conn, EndState
    <2>4. chan' \in [Ids -> Conn(Block)]
      BY <2>1, <2>3
    <2>5. local' \in [Names -> Seq(Block)]
      <3>1. << >> \in Seq(Block)
        OBVIOUS
      <3>. QED
        BY <1>17, <3>1 DEF Accept
    <2>6. cdata' \in Ids /\ cdata' \in 0 .. MaxCmd
      BY <2>1, <2>2 DEF Ids
    <2>7. cpc' \in ClientPhase /\ report' \in Report /\ after' \in {"prompt", "exit"}
      BY <1>17 DEF Accept, ClientPhase, Report
    <2>. QED
      BY <1>17, <2>4, <2>5, <2>6, <2>7 DEF Accept
  <1>18. CASE AcceptTimeout
    BY <1>5, <1>18 DEF AcceptTimeout, ClientPhase
  <1>19. CASE AcceptPoll
    BY <1>19 DEF AcceptPoll, netVars, clientVars
  <1>20. CASE RecvBlock
    <2>1. cdata \in Ids
      BY <1>20 DEF RecvBlock
    <2>2. chan' \in [Ids -> Conn(Block)]
      BY <1>4, <1>20, <2>1, ChanLemma DEF RecvBlock
    <2>3. local' \in [Names -> Seq(Block)]
      <3>. DEFINE b == Head(chan[cdata].inbox["client"])
      <3>1. b \in Block
        BY <1>4, <1>20, <2>1 DEF RecvBlock
      <3>2. CASE local' = [local EXCEPT ![command.file] = Append(@, b)]
        <4>. HIDE DEF b
        <4>1. command.file \in Names => Append(local[command.file], b) \in Seq(Block)
          BY <3>1
        <4>. QED
          BY <3>2, <4>1
      <3>. QED
        BY <1>20, <3>2 DEF RecvBlock
    <2>4. bytesLeft' \in Nat /\ got' \in Nat
      BY <1>20 DEF RecvBlock, ChunkLen, Min2
    <2>. QED
      BY <1>20, <2>2, <2>3, <2>4 DEF RecvBlock
  <1>21. CASE RecvThrows
    <2>1. chan' \in [Ids -> Conn(Block)]
      BY <1>3, <1>21, ChanLemma DEF RecvThrows
    <2>. QED
      BY <1>21, <2>1 DEF RecvThrows, Verdict, ClientPhase, Report
  <1>22. CASE WriteFails
    <2>1. cdata \in Ids
      BY <1>22 DEF WriteFails
    <2>2. Shut(Take(chan[cdata], "client"), "client") \in Conn(Block)
      BY <1>1, <1>4, <1>22, <2>1, ShutLemma DEF WriteFails
    <2>3. chan' \in [Ids -> Conn(Block)]
      BY <1>22, <2>2, ChanLemma DEF WriteFails
    <2>. QED
      BY <1>22, <2>3 DEF WriteFails, ClientPhase
  <1>23. CASE RecvSpin
    BY <1>23 DEF RecvSpin, netVars, clientVars
  <1>24. CASE RecvDone
    <2>1. chan' \in [Ids -> Conn(Block)]
      BY <1>3, <1>24, ChanLemma DEF RecvDone
    <2>. QED
      BY <1>24, <2>1 DEF RecvDone, Verdict, ClientPhase, Report
  <1>25. CASE Drain
    <2>1. CASE Readable(chan[cdata], "client")
      <3>1. chan' \in [Ids -> Conn(Block)]
        BY <1>4, <1>25, <2>1, ChanLemma DEF Drain
      <3>. QED
        BY <1>25, <2>1, <3>1 DEF Drain
    <2>2. CASE ~Readable(chan[cdata], "client")
      <3>. DEFINE rest == IF after = "prompt" THEN WithoutPending ELSE chan
      <3>1. rest \in [Ids -> Conn(Block)]
        BY <1>5
      <3>2. cdata \in Ids => Close(rest[cdata], "client") \in Conn(Block)
        BY <1>1, <3>1, CloseLemma
      <3>3. chan' = [rest EXCEPT ![cdata] = Close(rest[cdata], "client")]
        BY <1>25, <2>2 DEF Drain, CloseDrained
      <3>4. chan' \in [Ids -> Conn(Block)]
        <4>. HIDE DEF rest
        <4>. QED
          BY <3>1, <3>2, <3>3
      <3>5. cpc' \in ClientPhase /\ cpc' \notin {"recv", "reply"}
        BY <1>25, <2>2 DEF Drain, ClientPhase
      <3>. QED
        BY <1>25, <2>2, <3>4, <3>5 DEF Drain
    <2>. QED
      BY <2>1, <2>2
  <1>26. CASE Exit
    <2>1. control' \in Conn(Message)
      BY <1>1, <1>26, ShutLemma DEF Exit
    <2>. QED
      BY <1>26, <2>1 DEF Exit, ClientPhase
  <1>27. CASE ExitDrain
    <2>1. CASE Readable(control, "client")
      BY <1>2, <1>27, <2>1 DEF ExitDrain, clientVars
    <2>. QED
      BY <1>6, <1>27, <2>1 DEF ExitDrain
  <1>28. CASE ClientSignalled
    BY <1>6, <1>28 DEF ClientSignalled
  <1>29. CASE ClientKilled
    BY <1>6, <1>29 DEF ClientKilled
  <1>30. CASE CommandFails
    BY <1>30 DEF CommandFails, netVars, ClientPhase
  <1>31. CASE WelcomeFails
    <2>1. chan' \in [Ids -> Conn(Block)]
      BY <1>5, <1>31, AbortOneLemma DEF WelcomeFails, Pending
    <2>. QED
      BY <1>31, <2>1 DEF WelcomeFails, ClientPhase
  <1>. QED
    BY <1>10, <1>11, <1>12, <1>13, <1>14, <1>15, <1>16, <1>17, <1>18, <1>19,
       <1>20, <1>21, <1>22, <1>23, <1>24, <1>25, <1>26, <1>27, <1>28, <1>29,
       <1>30, <1>31
    DEF ClientWork, ClientFails

(* A step of the session keeps the types.                                  *)
LEMMA SessionStepType ==
  ASSUME TypeInv, SessionWork \/ StreamFails \/ ServerStops, UNCHANGED clientVars
  PROVE  TypeInv'
  <1>. USE DEF TypeInv, TypeOK, NetTypeOK, ClientTypeOK, SessionTypeOK,
               ReadsData, ServesFile, clientVars
  <1>1. "client" \in Ends /\ "server" \in Ends
    BY DEF Ends
  <1>2. ASSUME Readable(control, "server")
        PROVE  /\ Take(control, "server") \in Conn(Message)
               /\ Head(control.inbox["server"]) \in Message
    BY <1>1, <1>2, TakeLemma
  <1>3. [chan EXCEPT ![request.id] = Shut(@, "server")] \in [Ids -> Conn(Block)]
    BY <1>1, ShutLemma
  <1>4. ASSUME ServerVanishes PROVE TypeInv'
    <2>1. WithoutEnd("server") \in [Ids -> Conn(Block)]
      BY <1>1, WithoutEndLemma
    <2>2. Close(control, "server") \in Conn(Message)
      BY <1>1, CloseLemma
    <2>. QED
      BY <1>4, <2>1, <2>2 DEF ServerVanishes, SessionPhase
  <1>5. ASSUME NEW t \in {"idle", "close"}, Unwind(t)
        PROVE  /\ chan' \in [Ids -> Conn(Block)]
               /\ spc' \in SessionPhase
               /\ spc' \notin {"connect", "answer"}
               /\ then' \in {"idle", "close"}
    BY <1>3, <1>5 DEF Unwind, SessionPhase
  <1>6. AfterConnError \in {"idle", "close"}
    BY DEF AfterConnError
  <1>10. CASE StartThread
    BY <1>10 DEF StartThread, netVars, SessionPhase
  <1>11. CASE SendHello
    <2>1. MakeMsg("HELLO", 0, NoPort, NoName, 0) \in Message
      BY MessageLemma DEF MsgTypes
    <2>2. control' \in Conn(Message)
      BY <1>1, <1>11, <2>1, SendLemma DEF SendHello
    <2>. QED
      BY <1>11, <2>2 DEF SendHello, SessionPhase
  <1>12. CASE AwaitHello
    BY <1>2, <1>12 DEF AwaitHello, SessionPhase
  <1>13. CASE ReceiveCommand
    <2>1. NoRequest \in Message
      BY MessageLemma DEF NoRequest, MsgTypes
    <2>2. control' \in Conn(Message) /\ request' \in Message
      BY <1>2, <1>13, <2>1 DEF ReceiveCommand
    <2>3. /\ spc' \in {"connect", "check", "close"}
          /\ spc' = "connect" => request'.type = "LS"
      BY <1>13 DEF ReceiveCommand, AfterNoCommand
    <2>. QED
      BY <1>13, <2>2, <2>3 DEF ReceiveCommand, SessionPhase
  <1>14. CASE CheckFile
    <2>1. MakeMsg("ERROR", request.id, NoPort, NoName, 0) \in Message
      BY MessageLemma DEF MsgTypes, Message
    <2>2. control' \in Conn(Message)
      BY <1>1, <1>14, <2>1, SendLemma DEF CheckFile
    <2>3. /\ spc' \in {"connect", "idle", "close"}
          /\ spc' = "connect" => request.file \in Files
      BY <1>14 DEF CheckFile, Refused
    <2>. QED
      BY <1>14, <2>2, <2>3 DEF CheckFile, SessionPhase
  <1>15. CASE ConnectData
    <2>1. request.id \in Ids =>
            [chan[request.id] EXCEPT !.st = [client |-> "pending", server |-> "open"]]
              \in Conn(Block)
      <3>1. [client |-> "pending", server |-> "open"] \in [Ends -> EndState]
        BY DEF Ends, EndState
      <3>. QED
        BY <3>1 DEF Conn
    <2>2. chan' \in [Ids -> Conn(Block)]
      BY <1>15, <2>1 DEF ConnectData
    <2>. QED
      BY <1>15, <2>2 DEF ConnectData, AfterConnError, SessionPhase
  <1>16. CASE AnswerOk
    <2>1. CASE \E n \in Lengths(request) :
                 /\ control' \in AfterSend(control, "server",
                                  MakeMsg("OK", request.id, NoPort, NoName, n))
                 /\ toSend' = n
                 /\ sent' = 0 /\ spc' = "send" /\ UNCHANGED <<chan, then>>
      <3>1. PICK n \in Lengths(request) :
              /\ control' \in AfterSend(control, "server",
                               MakeMsg("OK", request.id, NoPort, NoName, n))
              /\ toSend' = n
        BY <2>1
      <3>2. n \in Nat
        BY <1>16 DEF AnswerOk, Lengths
      <3>3. MakeMsg("OK", request.id, NoPort, NoName, n) \in Message
        BY <3>2, MessageLemma DEF MsgTypes, Message
      <3>4. control' \in Conn(Message)
        BY <1>1, <3>1, <3>3, SendLemma
      <3>. QED
        BY <1>16, <2>1, <3>1, <3>2, <3>4 DEF AnswerOk, SessionPhase
    <2>2. CASE /\ Unwind(AfterConnError) \/ Unwind("close")
               /\ UNCHANGED <<control, toSend, sent>>
      BY <1>5, <1>6, <1>16, <2>2 DEF AnswerOk
    <2>. QED
      BY <1>16, <2>1, <2>2 DEF AnswerOk
  <1>17. CASE SendBlock
    <2>. DEFINE c == chan[request.id]
                b == [of |-> request.file, at |-> sent + 1]
    <2>1. CASE /\ \E d \in AfterSend(c, "server", b) :
                      chan' = [chan EXCEPT ![request.id] = d]
               /\ sent' = sent + 1 /\ toSend' = toSend - 1 /\ UNCHANGED <<spc, then>>
      <3>1. b \in Block
        BY DEF Block, Message
      <3>2. PICK d \in AfterSend(c, "server", b) :
              chan' = [chan EXCEPT ![request.id] = d]
        BY <2>1
      <3>3. request.id \in Ids => d \in Conn(Block)
        BY <1>1, <3>1, <3>2, SendLemma
      <3>4. chan' \in [Ids -> Conn(Block)]
        BY <3>2, <3>3, ChanLemma
      <3>. QED
        BY <1>17, <2>1, <3>4 DEF SendBlock, MoreToSend
    <2>2. CASE Unwind(AfterConnError) /\ UNCHANGED <<sent, toSend>>
      BY <1>5, <1>6, <1>17, <2>2 DEF SendBlock
    <2>. QED
      BY <1>17, <2>1, <2>2 DEF SendBlock
  <1>18. CASE SendDone
    BY <1>3, <1>18 DEF SendDone, SessionPhase
  <1>19. CASE CloseData
    <2>1. request.id \in Ids => Close(chan[request.id], "server") \in Conn(Block)
      BY <1>1, CloseLemma
    <2>2. chan' \in [Ids -> Conn(Block)]
      BY <1>19, <2>1, ChanLemma DEF CloseData
    <2>. QED
      BY <1>19, <2>2 DEF CloseData, SessionPhase
  <1>20. CASE CloseControl
    <2>1. control' \in Conn(Message)
      BY <1>1, <1>20, ShutLemma DEF CloseControl
    <2>. QED
      BY <1>20, <2>1 DEF CloseControl, SessionPhase
  <1>21. CASE DrainControl
    <2>1. Close(control, "server") \in Conn(Message)
      BY <1>1, CloseLemma
    <2>. QED
      BY <1>2, <1>21, <2>1 DEF DrainControl, SessionPhase
  <1>22. CASE ServerSignalled
    BY <1>4, <1>22 DEF ServerSignalled
  <1>23. CASE ServerStops
    BY <1>4, <1>23 DEF ServerStops
  <1>24. CASE StreamFails
    BY <1>5, <1>24 DEF StreamFails
  <1>. QED
    BY <1>10, <1>11, <1>12, <1>13, <1>14, <1>15, <1>16, <1>17, <1>18, <1>19,
       <1>20, <1>21, <1>22, <1>23, <1>24 DEF SessionWork

LEMMA StutterType ==
  ASSUME TypeInv, UNCHANGED vars
  PROVE  TypeInv'
  BY DEF TypeInv, TypeOK, NetTypeOK, ClientTypeOK, SessionTypeOK, ReadsData,
         ServesFile, vars, netVars, clientVars, sessionVars

(* Every value of every variable has its type, whatever the two programs   *)
(* do and however they end: no count of a transfer passes zero.            *)
THEOREM TypeCorrect == Spec => []TypeOK
  <1>1. Init => TypeInv
    BY InitType
  <1>2. TypeInv /\ [Next]_vars => TypeInv'
    BY ClientStepType, SessionStepType, StutterType DEF Next, Rest
  <1>3. TypeInv => TypeOK
    BY DEF TypeInv
  <1>. QED
    BY <1>1, <1>2, <1>3, PTL DEF Spec

-----------------------------------------------------------------------------
(* What the two programs do to local files and to sockets, proved from     *)
(* inductive invariants on top of the types.                               *)

(* LocalChangesAfterOk: a client that may write a file has taken an OK.    *)
Answered ==
  cpc = "recv" \/ (cpc = "accept" /\ command.type = "GET") => response.type = "OK"

AnsweredInv == TypeInv /\ Answered

LEMMA AnsweredStep ==
  ASSUME TypeInv, Answered, [Next]_vars
  PROVE  Answered'
  <1>. USE DEF Answered
  <1>1. CASE UNCHANGED clientVars
    BY <1>1 DEF clientVars
  <1>2. CASE ClientWork \/ UserCommand \/ ClientFails \/ ClientKilled
    <2>1. CASE ReplyOk
      BY <2>1 DEF ReplyOk
    <2>2. CASE Accept
      BY <2>2 DEF Accept
    <2>3. CASE RecvBlock
      BY <2>3 DEF RecvBlock
    <2>4. CASE AcceptPoll \/ RecvSpin
      BY <2>4 DEF AcceptPoll, RecvSpin, clientVars
    <2>5. CASE ClientSend
      BY <2>5 DEF ClientSend, NextAfterSend
    <2>6. CASE ExitDrain
      BY <2>6 DEF ExitDrain, ClientVanishes, clientVars
    <2>7. CASE \/ Connect \/ UserCommand \/ Greeted \/ ReplyError \/ ReplyThrows
               \/ AcceptTimeout \/ RecvThrows \/ WriteFails \/ RecvDone \/ Drain
               \/ Exit \/ ClientSignalled \/ ClientKilled \/ CommandFails
               \/ WelcomeFails
      <3>1. cpc' \notin {"recv", "accept"}
        BY <2>7 DEF Connect, UserCommand, Greeted, ReplyError, AfterError,
                    ReplyThrows, AcceptTimeout, RecvThrows, WriteFails, RecvDone,
                    Drain, Exit, ClientSignalled, ClientKilled, ClientVanishes,
                    CommandFails, WelcomeFails, TypeInv, TypeOK, ClientTypeOK
      <3>. QED
        BY <3>1
    <2>. QED
      BY <1>2, <2>1, <2>2, <2>3, <2>4, <2>5, <2>6, <2>7 DEF ClientWork, ClientFails
  <1>. QED
    BY <1>1, <1>2 DEF Next, Rest, vars

(* A step that changes a local file is the truncation by Accept or the     *)
(* write of a block by RecvBlock.                                          *)
LEMMA LocalStep ==
  ASSUME TypeInv, Answered, [Next]_vars, NEW f \in Names, local'[f] # local[f]
  PROVE  command.type = "GET" /\ command.file = f /\ response.type = "OK"
  <1>1. local \in [Names -> Seq(Block)]
    BY DEF TypeInv, TypeOK, ClientTypeOK
  <1>2. ClientWork \/ UserCommand \/ ClientFails \/ ClientKilled
    BY DEF Next, Rest, vars, clientVars
  <1>3. CASE Accept
    BY <1>1, <1>3 DEF Accept, Answered
  <1>4. CASE RecvBlock
    BY <1>1, <1>4 DEF RecvBlock, Answered
  <1>5. CASE \/ ClientWork /\ ~Accept /\ ~RecvBlock
             \/ UserCommand \/ ClientFails \/ ClientKilled
    <2>1. UNCHANGED local
      BY <1>5 DEF ClientWork, ClientFails, Connect, UserCommand, ClientSend, Greeted, ReplyOk,
                  ReplyError, ReplyThrows, AcceptTimeout, AcceptPoll, RecvThrows,
                  WriteFails, RecvSpin, RecvDone, Drain, Exit, ExitDrain,
                  ClientSignalled, ClientKilled, ClientVanishes, clientVars,
                  CommandFails, WelcomeFails
    <2>. QED
      BY <2>1
  <1>. QED
    BY <1>2, <1>3, <1>4, <1>5

(* A local file is only touched by the GET that names it, and only after   *)
(* the server answered OK (handle_get opens the file in onEstablished).    *)
THEOREM LocalFilesSafe == Spec => LocalChangesAfterOk
  <1>1. Init => AnsweredInv
    BY InitType DEF AnsweredInv, Answered, Init, ClientInit
  <1>2. TypeInv /\ [Next]_vars => TypeInv'
    BY ClientStepType, SessionStepType, StutterType DEF Next, Rest
  <1>3. AnsweredInv /\ [Next]_vars => AnsweredInv'
    BY <1>2, AnsweredStep DEF AnsweredInv
  <1>4. AnsweredInv /\ [Next]_vars =>
          [\A f \in Names : local'[f] # local[f] =>
             command.type = "GET" /\ command.file = f /\ response.type = "OK"]_vars
    BY LocalStep DEF AnsweredInv
  <1>. QED
    BY <1>1, <1>3, <1>4, PTL DEF Spec, LocalChangesAfterOk

-----------------------------------------------------------------------------
(* NothingLeftOpen.  A command in flight names a port, so that no session  *)
(* connects to a client that does not listen; the client has at most the   *)
(* connection it accepted and the backlog of a socket it still has open;   *)
(* the session has at most the connection of the command it serves.        *)
HasPort(m) == m.type \in {"LS", "GET"} => m.port \in Ports

PortsNamed ==
  /\ HasPort(command)
  /\ \A k \in 1 .. Len(control.inbox["server"]) : HasPort(control.inbox["server"][k])
  /\ spc \in {"check", "connect"} => request.port \in Ports

ClientEnds ==
  /\ cdata # 0 => cpc \in {"recv", "drain"} \/ (cpc = "reply" /\ command.type = "LS")
  /\ cpc \in {"connect", "greet", "prompt"} \/ (cpc = "send" /\ command.type = "HELLO")
       => listener = NoPort
  /\ \A i \in Ids :
       /\ chan[i].st["client"] \in {"open", "shut"} => i = cdata
       /\ chan[i].st["client"] = "pending" => listener # NoPort

ServerEnds ==
  \A i \in Ids :
    /\ chan[i].st["server"] # "pending"
    /\ chan[i].st["server"] \in {"open", "shut"} =>
         i = request.id /\ spc \in {"answer", "send", "drain"}

OpenInv == TypeInv /\ PortsNamed /\ ClientEnds /\ ServerEnds

LEMMA InitOpen == Init => OpenInv
  <1>. SUFFICES ASSUME Init PROVE OpenInv
    OBVIOUS
  <1>1. \A i \in Ids : chan[i].st["client"] = "none" /\ chan[i].st["server"] = "none"
    BY DEF Init, NetInit, NoConn, Ends
  <1>2. PortsNamed
    BY DEF Init, NetInit, NoConn, Ends, ClientInit, SessionInit, PortsNamed, HasPort,
           Hello, MakeMsg
  <1>3. ClientEnds /\ ServerEnds
    BY <1>1 DEF Init, NetInit, ClientInit, ClientEnds, ServerEnds
  <1>. QED
    BY <1>2, <1>3, InitType DEF OpenInv

(* What is on its way to the server: it stays, is forgotten, is taken from *)
(* the front, or is followed by the command of the client.                 *)
Onward(s, t) ==
  \/ t \in {s, << >>, Append(s, command)}
  \/ s # << >> /\ t = Tail(s)

LEMMA PortsLemma ==
  ASSUME TypeInv, PortsNamed,
         Onward(control.inbox["server"], control'.inbox["server"]),
         HasPort(command'),
         spc' \in {"check", "connect"} => request'.port \in Ports
  PROVE  PortsNamed'
  <1>. DEFINE box == control.inbox["server"]
  <1>1. box \in Seq(Message) /\ command \in Message
    BY DEF TypeInv, TypeOK, NetTypeOK, ClientTypeOK, Conn, Ends
  <1>2. \A k \in 1 .. Len(control'.inbox["server"]) : HasPort(control'.inbox["server"][k])
    <2>1. CASE control'.inbox["server"] \in {box, << >>}
      BY <2>1 DEF PortsNamed
    <2>2. CASE control'.inbox["server"] = Append(box, command)
      BY <1>1, <2>2 DEF PortsNamed
    <2>3. CASE box # << >> /\ control'.inbox["server"] = Tail(box)
      BY <1>1, <2>3 DEF PortsNamed
    <2>. QED
      BY <2>1, <2>2, <2>3 DEF Onward
  <1>. QED
    BY <1>2 DEF PortsNamed, HasPort

LEMMA PortsStep ==
  ASSUME TypeInv, PortsNamed, [Next]_vars
  PROVE  PortsNamed'
  <1>. DEFINE box  == control.inbox["server"]
              boxN == control'.inbox["server"]
  <1>1. control \in Conn(Message) /\ command \in Message /\ request \in Message
    BY DEF TypeInv, TypeOK, NetTypeOK, ClientTypeOK, SessionTypeOK
  <1>2. "client" \in Ends /\ "server" \in Ends /\ Ends \ {"client"} = {"server"}
        /\ Peer("client") = "server" /\ Peer("server") = "client"
    BY DEF Ends, Peer
  <1>3. control.inbox \in [Ends -> Seq(Message)]
    BY <1>1 DEF Conn
  <1>4. Readable(control, "client") => Take(control, "client").inbox["server"] = box
    BY <1>1, <1>2, TakeLemma
  <1>5. /\ Shut(control, "client").inbox["server"] = box
        /\ Shut(control, "server").inbox["server"] = box
        /\ Close(control, "client").inbox["server"] = box
        /\ Close(control, "server").inbox["server"] = << >>
    <2>1. /\ Shut(control, "client").inbox = control.inbox
          /\ Shut(control, "server").inbox = control.inbox
      BY <1>1, <1>2, ShutLemma
    <2>2. /\ Close(control, "client").inbox = [control.inbox EXCEPT !["client"] = << >>]
          /\ Close(control, "server").inbox = [control.inbox EXCEPT !["server"] = << >>]
      BY <1>1, <1>2, CloseLemma
    <2>. QED
      BY <1>2, <1>3, <2>1, <2>2
  <1>6. Readable(control, "server") => /\ Take(control, "server").inbox["server"] = Tail(box)
                                       /\ box # << >>
    BY <1>1, <1>2, TakeLemma DEF Readable
  <1>7. ASSUME NEW m \in Message, NEW d \in AfterSend(control, "server", m)
        PROVE  d.inbox["server"] = box
    BY <1>1, <1>2, <1>3, <1>7, SendLemma
  <1>8. ASSUME NEW d \in AfterSend(control, "client", command)
        PROVE  d.inbox["server"] \in {box, Append(box, command)}
    BY <1>1, <1>2, <1>3, <1>8, SendLemma
  <1>10. CASE (ClientWork \/ UserCommand \/ ClientFails \/ ClientKilled) /\ UNCHANGED sessionVars
    <2>1. Onward(box, boxN)
      <3>1. boxN \in {box, Append(box, command)}
        <4>1. CASE ClientSend
          BY <1>8, <4>1 DEF ClientSend
        <4>2. CASE Greeted \/ ReplyOk \/ ReplyError \/ ReplyThrows
          BY <1>4, <4>2 DEF Greeted, ReplyOk, ReplyError, ReplyThrows
        <4>3. CASE ExitDrain \/ ClientSignalled \/ ClientKilled
          BY <1>4, <1>5, <4>3 DEF ExitDrain, ClientSignalled, ClientKilled, ClientVanishes
        <4>4. CASE Connect \/ Exit
          BY <1>1, <1>5, <4>4 DEF Connect, Exit, Conn
        <4>5. CASE \/ UserCommand \/ Accept \/ AcceptTimeout \/ AcceptPoll \/ RecvBlock
                   \/ RecvThrows \/ WriteFails \/ RecvSpin \/ RecvDone \/ Drain
                   \/ CommandFails \/ WelcomeFails
          BY <4>5 DEF CommandFails, WelcomeFails, UserCommand, Accept, AcceptTimeout,
                      AcceptPoll, RecvBlock,
                      RecvThrows, WriteFails, RecvSpin, RecvDone, Drain, netVars
        <4>. QED
          BY <1>10, <4>1, <4>2, <4>3, <4>4, <4>5 DEF ClientWork, ClientFails
      <3>. QED
        BY <3>1 DEF Onward
    <2>2. HasPort(command')
      <3>1. CASE UserCommand
        BY <3>1 DEF UserCommand, MakeMsg, HasPort
      <3>2. CASE UNCHANGED command
        BY <3>2 DEF PortsNamed, HasPort
      <3>3. UserCommand \/ UNCHANGED command
        BY <1>10
        DEF ClientWork, ClientFails, Connect, UserCommand, ClientSend, Greeted, ReplyOk,
            ReplyError,
            ReplyThrows, Accept, AcceptTimeout, AcceptPoll, RecvBlock, RecvThrows,
            WriteFails, RecvSpin, RecvDone, Drain, Exit, ExitDrain, ClientSignalled,
            ClientKilled, ClientVanishes, clientVars, CommandFails, WelcomeFails
      <3>. QED
        BY <3>1, <3>2, <3>3
    <2>3. spc' \in {"check", "connect"} => request'.port \in Ports
      BY <1>10 DEF sessionVars, PortsNamed
    <2>. QED
      BY <2>1, <2>2, <2>3, PortsLemma
  <1>11. CASE (SessionWork \/ StreamFails \/ ServerStops) /\ UNCHANGED clientVars
    <2>. SUFFICES /\ boxN \in {box, << >>} \/ (box # << >> /\ boxN = Tail(box))
                  /\ spc' \in {"check", "connect"} => request'.port \in Ports
      <3>1. HasPort(command')
        BY <1>11 DEF clientVars, PortsNamed, HasPort
      <3>. QED
        BY <3>1, PortsLemma DEF Onward
    <2>1. CASE ReceiveCommand
      <3>1. CASE Readable(control, "server")
        <4>1. boxN = Tail(box) /\ box # << >> /\ request' = Head(box)
          BY <1>6, <2>1, <3>1 DEF ReceiveCommand
        <4>2. HasPort(Head(box))
          BY <1>2, <1>3, <4>1 DEF PortsNamed
        <4>3. spc' \in {"check", "connect"} => request'.type \in {"LS", "GET"}
          BY <2>1, <3>1 DEF ReceiveCommand
        <4>. QED
          BY <4>1, <4>2, <4>3 DEF HasPort
      <3>2. CASE ~Readable(control, "server")
        BY <2>1, <3>2 DEF ReceiveCommand, AfterNoCommand
      <3>. QED
        BY <3>1, <3>2
    <2>2. CASE CheckFile
      <3>1. MakeMsg("ERROR", request.id, NoPort, NoName, 0) \in Message
        BY <1>1, MessageLemma DEF MsgTypes, Message
      <3>2. boxN = box
        BY <1>7, <2>2, <3>1 DEF CheckFile
      <3>. QED
        BY <2>2, <3>2 DEF CheckFile, PortsNamed
    <2>3. CASE SendHello
      <3>1. MakeMsg("HELLO", 0, NoPort, NoName, 0) \in Message
        BY MessageLemma DEF MsgTypes
      <3>2. boxN = box
        BY <1>7, <2>3, <3>1 DEF SendHello
      <3>. QED
        BY <2>3, <3>2 DEF SendHello
    <2>4. CASE AnswerOk
      <3>1. \A n \in Lengths(request) :
              MakeMsg("OK", request.id, NoPort, NoName, n) \in Message
        <4>1. Lengths(request) \subseteq Nat
          BY <2>4 DEF AnswerOk, Lengths, TypeInv, ServesFile
        <4>. QED
          BY <1>1, <4>1, MessageLemma DEF MsgTypes, Message
      <3>2. boxN = box
        BY <1>7, <2>4, <3>1 DEF AnswerOk
      <3>. QED
        BY <2>4, <3>2 DEF AnswerOk, Unwind
    <2>5. CASE AwaitHello \/ DrainControl
      BY <1>5, <1>6, <2>5 DEF AwaitHello, DrainControl
    <2>6. CASE \/ StartThread \/ ConnectData \/ SendBlock \/ SendDone \/ CloseData
               \/ CloseControl \/ StreamFails
      BY <1>5, <2>6 DEF StreamFails, StartThread, ConnectData, AfterConnError, SendBlock, Unwind,
                        SendDone, CloseData, CloseControl, netVars, TypeInv, TypeOK,
                        SessionTypeOK
    <2>7. CASE ServerSignalled \/ ServerStops
      BY <1>5, <2>7 DEF ServerSignalled, ServerStops, ServerVanishes
    <2>. QED
      BY <1>11, <2>1, <2>2, <2>3, <2>4, <2>5, <2>6, <2>7 DEF SessionWork
  <1>12. CASE UNCHANGED vars
    BY <1>12 DEF vars, netVars, clientVars, sessionVars, PortsNamed, HasPort
  <1>. QED
    BY <1>10, <1>11, <1>12 DEF Next, Rest

(* What a step may do to the client's end of each data connection.         *)
now(i)  == chan[i].st["client"]
next(i) == chan'[i].st["client"]

ClientEndsMove ==
  \A i \in Ids :
    \/ next(i) \in {now(i), "none", "closed"}
    \/ next(i) = "pending" /\ listener # NoPort /\ listener' = listener
    \/ next(i) \in {"open", "shut"} /\ i = cdata'

(* How the client's ends move in a step of the client.                     *)
LEMMA ClientMoves ==
  ASSUME TypeInv, ClientEnds, ClientWork \/ UserCommand \/ ClientFails \/ ClientKilled
  PROVE  /\ ClientEndsMove
         /\ cdata' # cdata => \A i \in Ids : now(i) \in {"open", "shut"} =>
                                              next(i) \in {"none", "closed"}
         /\ listener' # listener => \A i \in Ids : next(i) # "pending"
  <1>1. chan \in [Ids -> Conn(Block)]
    BY DEF TypeInv, TypeOK, NetTypeOK
  <1>2. /\ "client" \in Ends
        /\ \A i \in Ids : chan[i] \in Conn(Block) /\ chan[i].st \in [Ends -> EndState]
    BY <1>1 DEF Ends, Conn
  <1>3. 0 \notin Ids
    BY DEF Ids
  <1>. USE DEF ClientEndsMove, now, next
  <1>4. ASSUME chan' = [chan EXCEPT ![cdata] = Shut(@, "client")],
               UNCHANGED <<cdata, listener>>
        PROVE  \A i \in Ids : next(i) = IF i = cdata THEN "shut" ELSE now(i)
    <2>1. ASSUME cdata \in Ids
          PROVE  Shut(chan[cdata], "client").st["client"] = "shut"
      <3>1. Shut(chan[cdata], "client").st = [chan[cdata].st EXCEPT !["client"] = "shut"]
        BY <1>2, <2>1, ShutLemma
      <3>. QED
        BY <1>2, <2>1, <3>1
    <2>. QED
      BY <1>1, <1>4, <2>1
  <1>5. ASSUME cdata \in Ids, Readable(chan[cdata], "client")
        PROVE  /\ Take(chan[cdata], "client") \in Conn(Block)
               /\ Take(chan[cdata], "client").st = chan[cdata].st
    BY <1>2, <1>5, TakeLemma
  <1>6. ASSUME chan' = WithoutPending
        PROVE  \A i \in Ids : next(i) = IF now(i) = "pending" THEN "closed" ELSE now(i)
    BY <1>1, <1>6, WithoutPendingLemma
  <1>7. ASSUME ClientVanishes
        PROVE  \A i \in Ids : next(i) \in {"none", "closed"}
    BY <1>1, <1>2, <1>7, WithoutEndLemma DEF ClientVanishes
  <1>10. CASE ExitDrain \/ ClientSignalled \/ ClientKilled
    <2>1. CASE ClientVanishes
      BY <1>7, <2>1
    <2>2. CASE UNCHANGED <<chan, listener, cdata>>
      BY <2>2
    <2>. QED
      BY <1>10, <2>1, <2>2 DEF ExitDrain, ClientSignalled, ClientKilled, clientVars
  <1>11. CASE UserCommand
    <2>1. \A i \in Ids : now(i) # "pending"
      BY <1>11 DEF UserCommand, ClientEnds
    <2>. QED
      BY <1>11, <2>1 DEF UserCommand
  <1>12. CASE ReplyError
    <2>1. CASE command.type = "LS"
      BY <1>4, <1>12, <2>1 DEF ReplyError
    <2>2. CASE command.type # "LS"
      BY <1>6, <1>12, <2>2 DEF ReplyError
    <2>. QED
      BY <2>1, <2>2
  <1>13. CASE ReplyThrows
    <2>1. CASE command.type = "LS"
      BY <1>4, <1>13, <2>1 DEF ReplyThrows
    <2>2. CASE command.type # "LS"
      BY <1>13, <2>2 DEF ReplyThrows
    <2>. QED
      BY <2>1, <2>2
  <1>14. CASE Accept
    <2>1. PICK i \in Pending :
            /\ cdata' = i
            /\ \/ chan' = [chan EXCEPT ![i].st["client"] = "open"]
               \/ chan' = [chan EXCEPT ![i].st["client"] = "shut"]
      BY <1>14 DEF Accept
    <2>2. i \in Ids
      BY DEF Pending
    <2>3. \A j \in Ids : IF j = i THEN next(j) \in {"open", "shut"} ELSE next(j) = now(j)
      BY <1>1, <1>2, <2>1, <2>2 DEF Conn
    <2>4. \A j \in Ids : now(j) \notin {"open", "shut"}
      BY <1>3, <1>14 DEF Accept, ClientEnds
    <2>5. UNCHANGED listener
      BY <1>14 DEF Accept
    <2>. QED
      BY <2>1, <2>3, <2>4, <2>5
  <1>15. CASE AcceptTimeout
    BY <1>6, <1>15 DEF AcceptTimeout
  <1>16. CASE RecvBlock \/ WriteFails
    <2>1. cdata \in Ids /\ Readable(chan[cdata], "client") /\ UNCHANGED <<cdata, listener>>
      BY <1>16 DEF RecvBlock, WriteFails, TypeInv, ReadsData
    <2>2. CASE RecvBlock
      BY <1>1, <1>5, <2>1, <2>2 DEF RecvBlock
    <2>3. CASE WriteFails
      <3>1. Shut(Take(chan[cdata], "client"), "client").st =
              [chan[cdata].st EXCEPT !["client"] = "shut"]
        BY <1>2, <1>5, <2>1, ShutLemma
      <3>. QED
        BY <1>1, <1>2, <2>1, <2>3, <3>1 DEF WriteFails
    <2>. QED
      BY <1>16, <2>2, <2>3
  <1>17. CASE RecvThrows \/ RecvDone
    BY <1>4, <1>17 DEF RecvThrows, RecvDone
  <1>18. CASE Drain
    <2>1. CASE Readable(chan[cdata], "client")
      <3>1. chan' = [chan EXCEPT ![cdata] = Take(@, "client")]
            /\ UNCHANGED <<cdata, listener>>
        BY <1>18, <2>1 DEF Drain
      <3>2. CASE cdata \in Ids
        BY <1>1, <1>5, <2>1, <3>1, <3>2
      <3>3. CASE cdata \notin Ids
        BY <1>1, <3>1, <3>3
      <3>. QED
        BY <3>2, <3>3
    <2>2. CASE ~Readable(chan[cdata], "client")
      <3>. DEFINE rest == IF after = "prompt" THEN WithoutPending ELSE chan
      <3>1. /\ rest \in [Ids -> Conn(Block)]
            /\ \A i \in Ids :
                 rest[i].st["client"] \in {now(i), "closed"}
                 /\ (after = "prompt" => rest[i].st["client"] # "pending")
        BY <1>1, WithoutPendingLemma
      <3>2. chan' = [rest EXCEPT ![cdata] = Close(rest[cdata], "client")]
        BY <1>18, <2>2 DEF Drain, CloseDrained
      <3>. HIDE DEF rest
      <3>3. cdata \in Ids => Close(rest[cdata], "client").st["client"] = "closed"
        <4>. SUFFICES ASSUME cdata \in Ids
                      PROVE  Close(rest[cdata], "client").st["client"] = "closed"
          OBVIOUS
        <4>1. rest[cdata] \in Conn(Block)
          BY <3>1
        <4>2. rest[cdata].st \in [Ends -> EndState]
          BY <4>1 DEF Conn
        <4>3. Close(rest[cdata], "client").st = [rest[cdata].st EXCEPT !["client"] = "closed"]
          BY <1>2, <4>1, CloseLemma
        <4>. QED
          BY <1>2, <4>2, <4>3
      <3>4. \A i \in Ids : IF i = cdata THEN next(i) = "closed"
                            ELSE next(i) = rest[i].st["client"]
        BY <3>1, <3>2, <3>3
      <3>5. \A i \in Ids : next(i) \in {now(i), "closed"}
                            /\ (after = "prompt" => next(i) # "pending")
        BY <3>1, <3>4
      <3>6. \A i \in Ids : now(i) \in {"open", "shut"} => next(i) = "closed"
        BY <3>4 DEF ClientEnds
      <3>7. listener' # listener => after = "prompt"
        BY <1>18, <2>2 DEF Drain
      <3>. QED
        BY <3>5, <3>6, <3>7
    <2>. QED
      BY <2>1, <2>2
  <1>19. CASE \/ Connect \/ ClientSend \/ Greeted \/ ReplyOk \/ AcceptPoll \/ RecvSpin
              \/ Exit \/ CommandFails
    BY <1>19 DEF CommandFails, Connect, ClientSend, Greeted, ReplyOk, AcceptPoll, RecvSpin, Exit,
                 netVars, clientVars
  <1>20. CASE WelcomeFails
    <2>1. CASE chan' = WithoutPending
      BY <1>6, <1>20, <2>1 DEF WelcomeFails
    <2>2. CASE (\E i \in Pending : chan' = [chan EXCEPT ![i] = Abort(@, "client")])
               /\ UNCHANGED listener
      <3>1. PICK i \in Ids : chan' = [chan EXCEPT ![i] = Abort(@, "client")]
        BY <2>2 DEF Pending
      <3>2. \A j \in Ids : next(j) \in {now(j), "closed"}
        BY <1>1, <3>1, AbortOneLemma
      <3>. QED
        BY <1>20, <2>2, <3>2 DEF WelcomeFails
    <2>. QED
      BY <1>20, <2>1, <2>2 DEF WelcomeFails
  <1>. QED
    BY <1>10, <1>11, <1>12, <1>13, <1>14, <1>15, <1>16, <1>17, <1>18, <1>19, <1>20
    DEF ClientWork, ClientFails

(* How the ends move in a step of the session: a connection it makes waits *)
(* for a client that listens, and it keeps none but that of its request.   *)
LEMMA SessionMoves ==
  ASSUME TypeInv, PortsNamed, ServerEnds, SessionWork \/ StreamFails \/ ServerStops
  PROVE  /\ UNCHANGED listener
         /\ \A i \in Ids :
              \/ next(i) = now(i)
              \/ /\ next(i) = "pending" /\ listener # NoPort
                 /\ spc = "connect" /\ i = request.id
         /\ ServerEnds'
  <1>1. chan \in [Ids -> Conn(Block)] /\ request \in Message
    BY DEF TypeInv, TypeOK, NetTypeOK, SessionTypeOK
  <1>2. /\ "client" \in Ends /\ "server" \in Ends /\ Peer("server") = "client"
        /\ \A i \in Ids : chan[i] \in Conn(Block) /\ chan[i].st \in [Ends -> EndState]
    BY <1>1 DEF Ends, Conn, Peer
  <1>. USE DEF now, next, ServerEnds
  <1>. DEFINE r == request.id
  <1>3. ASSUME chan' = [chan EXCEPT ![r] = Shut(@, "server")]
        PROVE  \A i \in Ids : /\ next(i) = now(i)
                              /\ chan'[i].st["server"] =
                                   IF i = r THEN "shut" ELSE chan[i].st["server"]
    <2>1. ASSUME r \in Ids
          PROVE  Shut(chan[r], "server").st = [chan[r].st EXCEPT !["server"] = "shut"]
      BY <1>2, <2>1, ShutLemma
    <2>. QED
      BY <1>1, <1>2, <1>3, <2>1
  <1>4. ASSUME NEW t, Unwind(t)
        PROVE  /\ \A i \in Ids : /\ next(i) = now(i)
                                 /\ chan'[i].st["server"] =
                                      IF i = r THEN "shut" ELSE chan[i].st["server"]
               /\ spc' = "drain"
    BY <1>3, <1>4 DEF Unwind
  <1>5. CASE ServerSignalled \/ ServerStops
    BY <1>1, <1>2, <1>5, WithoutEndLemma DEF ServerSignalled, ServerStops, ServerVanishes
  <1>6. CASE ConnectData
    <2>1. CASE listener = request.port /\ spc' = "answer" /\ ~UNCHANGED chan
      <3>1. listener # NoPort
        BY <1>6, <2>1 DEF ConnectData, PortsNamed
      <3>2. chan' = [chan EXCEPT ![r].st = [client |-> "pending", server |-> "open"]]
            /\ spc' = "answer" /\ UNCHANGED <<listener, request>>
        BY <1>6, <2>1 DEF ConnectData, AfterConnError
      <3>3. \A i \in Ids : IF i = r
                            THEN next(i) = "pending" /\ chan'[i].st["server"] = "open"
                            ELSE chan'[i] = chan[i]
        BY <1>1, <1>2, <3>2 DEF Conn
      <3>. QED
        BY <1>6, <3>1, <3>2, <3>3 DEF ConnectData
    <2>2. CASE UNCHANGED chan
      BY <1>6, <2>2 DEF ConnectData
    <2>. QED
      BY <1>6, <2>1, <2>2 DEF ConnectData
  <1>7. CASE AnswerOk
    <2>1. CASE Unwind(AfterConnError) \/ Unwind("close")
      BY <1>4, <1>7, <2>1 DEF AnswerOk
    <2>2. CASE spc' = "send" /\ UNCHANGED chan
      BY <1>7, <2>2 DEF AnswerOk
    <2>. QED
      BY <1>7, <2>1, <2>2 DEF AnswerOk
  <1>8. CASE SendBlock
    <2>1. CASE Unwind(AfterConnError)
      BY <1>4, <1>8, <2>1 DEF SendBlock
    <2>2. CASE \E d \in AfterSend(chan[r], "server", [of |-> request.file, at |-> sent + 1]) :
                 chan' = [chan EXCEPT ![r] = d] /\ UNCHANGED spc
      <3>1. [of |-> request.file, at |-> sent + 1] \in Block
        BY <1>1 DEF Block, Message, TypeInv, TypeOK, SessionTypeOK
      <3>2. PICK d \in AfterSend(chan[r], "server", [of |-> request.file, at |-> sent + 1]) :
              chan' = [chan EXCEPT ![r] = d] /\ UNCHANGED spc
        BY <2>2
      <3>3. r \in Ids => d.st = chan[r].st
        BY <1>2, <3>1, <3>2, SendLemma
      <3>4. \A i \in Ids : chan'[i].st = chan[i].st
        BY <1>1, <3>2, <3>3
      <3>. QED
        BY <1>8, <3>2, <3>4 DEF SendBlock
    <2>. QED
      BY <1>8, <2>1, <2>2 DEF SendBlock
  <1>9. CASE SendDone \/ StreamFails
    BY <1>3, <1>4, <1>9 DEF SendDone, StreamFails
  <1>10. CASE CloseData
    <2>1. ASSUME r \in Ids
          PROVE  Close(chan[r], "server").st = [chan[r].st EXCEPT !["server"] = "closed"]
      BY <1>2, <2>1, CloseLemma
    <2>2. \A i \in Ids : /\ next(i) = now(i)
                         /\ chan'[i].st["server"] =
                              IF i = r THEN "closed" ELSE chan[i].st["server"]
      BY <1>1, <1>2, <1>10, <2>1 DEF CloseData
    <2>. QED
      BY <1>10, <2>2 DEF CloseData
  <1>11. CASE \/ StartThread \/ SendHello \/ AwaitHello \/ ReceiveCommand \/ CheckFile
              \/ CloseControl \/ DrainControl
    BY <1>11 DEF StartThread, SendHello, AwaitHello, ReceiveCommand, CheckFile,
                 CloseControl, DrainControl, netVars
  <1>. QED
    BY <1>5, <1>6, <1>7, <1>8, <1>9, <1>10, <1>11 DEF SessionWork

(* The client leaves the server's ends alone.                              *)
LEMMA ClientKeepsServerEnds ==
  ASSUME TypeInv, ClientWork \/ UserCommand \/ ClientFails \/ ClientKilled
  PROVE  \A i \in Ids : chan'[i].st["server"] = chan[i].st["server"]
  <1>1. chan \in [Ids -> Conn(Block)]
    BY DEF TypeInv, TypeOK, NetTypeOK
  <1>2. /\ "client" \in Ends /\ "server" \in Ends /\ Peer("client") = "server"
        /\ \A i \in Ids : chan[i] \in Conn(Block) /\ chan[i].st \in [Ends -> EndState]
    BY <1>1 DEF Ends, Conn, Peer
  <1>3. ASSUME cdata \in Ids
        PROVE  Shut(chan[cdata], "client").st["server"] = chan[cdata].st["server"]
    <2>1. Shut(chan[cdata], "client").st = [chan[cdata].st EXCEPT !["client"] = "shut"]
      BY <1>2, <1>3, ShutLemma
    <2>. QED
      BY <1>2, <1>3, <2>1
  <1>4. ASSUME cdata \in Ids, Readable(chan[cdata], "client")
        PROVE  /\ Take(chan[cdata], "client") \in Conn(Block)
               /\ Take(chan[cdata], "client").st = chan[cdata].st
    BY <1>2, <1>4, TakeLemma
  <1>5. \A i \in Ids : WithoutPending[i].st["server"] = chan[i].st["server"]
    BY <1>1, WithoutPendingLemma
  <1>6. CASE ReplyError \/ ReplyThrows \/ RecvThrows \/ RecvDone
    <2>1. \/ chan' = [chan EXCEPT ![cdata] = Shut(@, "client")]
          \/ chan' = WithoutPending
          \/ chan' = chan
      BY <1>6 DEF ReplyError, ReplyThrows, RecvThrows, RecvDone
    <2>2. CASE chan' = [chan EXCEPT ![cdata] = Shut(@, "client")]
      <3>1. \A i \in Ids : chan'[i] = IF i = cdata THEN Shut(chan[i], "client") ELSE chan[i]
        BY <1>1, <2>2
      <3>. QED
        BY <1>3, <3>1
    <2>. QED
      BY <1>5, <2>1, <2>2
  <1>7. CASE RecvBlock
    BY <1>1, <1>4, <1>7 DEF RecvBlock
  <1>8. CASE WriteFails
    <2>1. cdata \in Ids /\ Readable(chan[cdata], "client")
      BY <1>8 DEF WriteFails, TypeInv, ReadsData
    <2>2. Shut(Take(chan[cdata], "client"), "client").st =
            [chan[cdata].st EXCEPT !["client"] = "shut"]
      BY <1>2, <1>4, <2>1, ShutLemma
    <2>. QED
      BY <1>1, <1>2, <1>8, <2>1, <2>2 DEF WriteFails
  <1>9. CASE Accept
    <2>1. PICK i \in Pending :
               \/ chan' = [chan EXCEPT ![i].st["client"] = "open"]
               \/ chan' = [chan EXCEPT ![i].st["client"] = "shut"]
      BY <1>9 DEF Accept
    <2>2. i \in Ids
      BY DEF Pending
    <2>3. /\ [chan[i] EXCEPT !.st["client"] = "open"].st["server"] = chan[i].st["server"]
          /\ [chan[i] EXCEPT !.st["client"] = "shut"].st["server"] = chan[i].st["server"]
      BY <1>2, <2>2 DEF Conn
    <2>4. \A j \in Ids : j # i => chan'[j] = chan[j]
      BY <1>1, <2>1
    <2>. QED
      BY <1>1, <2>1, <2>2, <2>3, <2>4
  <1>10. CASE Drain
    <2>1. CASE Readable(chan[cdata], "client")
      BY <1>1, <1>4, <1>10, <2>1 DEF Drain
    <2>2. CASE ~Readable(chan[cdata], "client")
      <3>. DEFINE rest == IF after = "prompt" THEN WithoutPending ELSE chan
      <3>1. /\ rest \in [Ids -> Conn(Block)]
            /\ \A i \in Ids : rest[i].st["server"] = chan[i].st["server"]
        BY <1>1, WithoutPendingLemma
      <3>2. chan' = [rest EXCEPT ![cdata] = Close(rest[cdata], "client")]
        BY <1>10, <2>2 DEF Drain, CloseDrained
      <3>. HIDE DEF rest
      <3>3. ASSUME cdata \in Ids
            PROVE  Close(rest[cdata], "client").st["server"] = rest[cdata].st["server"]
        <4>1. rest[cdata] \in Conn(Block)
          BY <3>1, <3>3
        <4>2. rest[cdata].st \in [Ends -> EndState]
          BY <4>1 DEF Conn
        <4>3. Close(rest[cdata], "client").st = [rest[cdata].st EXCEPT !["client"] = "closed"]
          BY <1>2, <4>1, CloseLemma
        <4>. QED
          BY <1>2, <4>2, <4>3
      <3>. QED
        BY <3>1, <3>2, <3>3
    <2>. QED
      BY <2>1, <2>2
  <1>11. CASE AcceptTimeout
    BY <1>5, <1>11 DEF AcceptTimeout
  <1>12. CASE ExitDrain \/ ClientSignalled \/ ClientKilled
    <2>1. \A i \in Ids : WithoutEnd("client")[i].st["server"] = chan[i].st["server"]
      BY <1>1, <1>2, WithoutEndLemma
    <2>. QED
      BY <1>12, <2>1 DEF ExitDrain, ClientSignalled, ClientKilled, ClientVanishes
  <1>13. CASE \/ Connect \/ UserCommand \/ ClientSend \/ Greeted \/ ReplyOk \/ AcceptPoll
              \/ RecvSpin \/ Exit \/ CommandFails
    BY <1>13 DEF CommandFails, Connect, UserCommand, ClientSend, Greeted, ReplyOk,
                 AcceptPoll, RecvSpin,
                 Exit, netVars
  <1>14. CASE WelcomeFails
    BY <1>1, <1>5, <1>14, AbortOneLemma DEF WelcomeFails, Pending
  <1>. QED
    BY <1>2, <1>6, <1>7, <1>8, <1>9, <1>10, <1>11, <1>12, <1>13, <1>14
    DEF ClientWork, ClientFails

LEMMA ServerEndsStep ==
  ASSUME TypeInv, PortsNamed, ServerEnds, [Next]_vars
  PROVE  ServerEnds'
  <1>1. CASE (ClientWork \/ UserCommand \/ ClientFails \/ ClientKilled) /\ UNCHANGED sessionVars
    <2>1. \A i \in Ids : chan'[i].st["server"] = chan[i].st["server"]
      BY <1>1, ClientKeepsServerEnds
    <2>. QED
      BY <1>1, <2>1 DEF ServerEnds, sessionVars
  <1>2. CASE SessionWork \/ StreamFails \/ ServerStops
    BY <1>2, SessionMoves
  <1>3. CASE UNCHANGED vars
    BY <1>3 DEF ServerEnds, vars, netVars, sessionVars
  <1>. QED
    BY <1>1, <1>2, <1>3 DEF Next, Rest

(* The client's bookkeeping matches the ends it has open.                  *)
LEMMA ClientEndsStep ==
  ASSUME TypeInv, PortsNamed, ClientEnds, ServerEnds, [Next]_vars
  PROVE  ClientEnds'
  <1>1. 0 \notin Ids
    BY DEF Ids
  <1>2. CASE (ClientWork \/ UserCommand \/ ClientFails \/ ClientKilled) /\ UNCHANGED sessionVars
    <2>1. (cdata # 0 => cpc \in {"recv", "drain"} \/ (cpc = "reply" /\ command.type = "LS"))'
      <3>1. CASE \/ Connect \/ UserCommand \/ CommandFails \/ ClientSend \/ Greeted
                 \/ AcceptTimeout \/ WelcomeFails \/ Exit
        BY <3>1 DEF ClientEnds, Connect, UserCommand, CommandFails, ClientSend, Greeted,
                    AcceptTimeout, WelcomeFails, Exit
      <3>2. CASE ReplyOk \/ ReplyError \/ ReplyThrows
        BY <3>2 DEF ClientEnds, ReplyOk, ReplyError, AfterError, ReplyThrows
      <3>3. CASE Accept
        BY <3>3 DEF Accept
      <3>4. CASE RecvBlock \/ RecvThrows \/ WriteFails \/ RecvDone \/ Drain
        BY <3>4 DEF RecvBlock, RecvThrows, WriteFails, RecvDone, Drain
      <3>5. CASE AcceptPoll \/ RecvSpin
        BY <3>5 DEF AcceptPoll, RecvSpin, clientVars, ClientEnds
      <3>6. CASE ExitDrain \/ ClientSignalled \/ ClientKilled
        BY <3>6 DEF ExitDrain, ClientSignalled, ClientKilled, ClientVanishes, clientVars,
                    ClientEnds
      <3>. QED
        BY <1>2, <3>1, <3>2, <3>3, <3>4, <3>5, <3>6 DEF ClientWork, ClientFails
    <2>2. (cpc \in {"connect", "greet", "prompt"} \/ (cpc = "send" /\ command.type = "HELLO")
            => listener = NoPort)'
      <3>1. CASE Connect \/ Greeted
        BY <3>1 DEF ClientEnds, Connect, Greeted
      <3>2. CASE UserCommand
        BY <3>2 DEF UserCommand, MakeMsg
      <3>3. CASE ClientSend
        BY <3>3 DEF ClientSend, NextAfterSend, ClientEnds
      <3>4. CASE ReplyOk \/ ReplyError \/ ReplyThrows
        BY <3>4 DEF ReplyOk, ReplyError, AfterError, ReplyThrows
      <3>5. CASE Drain
        BY <3>5 DEF Drain, TypeInv, TypeOK, ClientTypeOK
      <3>6. CASE \/ Accept \/ AcceptTimeout \/ RecvBlock \/ RecvThrows \/ WriteFails
                 \/ RecvDone \/ Exit \/ CommandFails \/ WelcomeFails
        BY <3>6 DEF CommandFails, WelcomeFails, Accept, AcceptTimeout, RecvBlock,
                    RecvThrows, WriteFails, RecvDone, Exit
      <3>7. CASE AcceptPoll \/ RecvSpin
        BY <3>7 DEF AcceptPoll, RecvSpin, clientVars, netVars, ClientEnds
      <3>8. CASE ExitDrain \/ ClientSignalled \/ ClientKilled
        BY <3>8 DEF ExitDrain, ClientSignalled, ClientKilled, ClientVanishes, clientVars,
                    ClientEnds
      <3>. QED
        BY <1>2, <3>1, <3>2, <3>3, <3>4, <3>5, <3>6, <3>7, <3>8 DEF ClientWork, ClientFails
    <2>3. ASSUME NEW i \in Ids
          PROVE  /\ (chan[i].st["client"] \in {"open", "shut"} => i = cdata)'
                 /\ (chan[i].st["client"] = "pending" => listener # NoPort)'
      BY <1>1, <1>2, ClientMoves DEF ClientEnds, ClientEndsMove, now, next
    <2>. QED
      BY <2>1, <2>2, <2>3 DEF ClientEnds
  <1>3. CASE (SessionWork \/ StreamFails \/ ServerStops) /\ UNCHANGED clientVars
    <2>1. \A i \in Ids : next(i) = now(i) \/ (next(i) = "pending" /\ listener # NoPort)
      BY <1>3, SessionMoves
    <2>2. UNCHANGED <<listener, cpc, command, cdata>>
      BY <1>3, SessionMoves DEF clientVars
    <2>. QED
      BY <2>1, <2>2 DEF ClientEnds, now, next
  <1>4. CASE UNCHANGED vars
    BY <1>4 DEF vars, netVars, clientVars, sessionVars, ClientEnds
  <1>. QED
    BY <1>2, <1>3, <1>4 DEF Next, Rest

LEMMA OpenIsEnough == OpenInv => NothingLeftOpen
  <1>. SUFFICES ASSUME OpenInv PROVE NothingLeftOpen
    OBVIOUS
  <1>1. \A i \in Ids : /\ chan[i].st["client"] \in EndState
                       /\ chan[i].st["server"] \in EndState
    BY DEF OpenInv, TypeInv, TypeOK, NetTypeOK, Conn, Ends
  <1>2. 0 \notin Ids
    BY DEF Ids
  <1>3. ASSUME cpc = "prompt"
        PROVE  /\ listener = NoPort
               /\ \A i \in Ids : chan[i].st["client"] \in {"none", "closed"}
    BY <1>1, <1>2, <1>3 DEF OpenInv, ClientEnds, EndState
  <1>4. ASSUME spc \notin {"answer", "send", "drain"}
        PROVE  \A i \in Ids : chan[i].st["server"] \in {"none", "closed"}
    BY <1>1, <1>4 DEF OpenInv, ServerEnds, EndState
  <1>. QED
    BY <1>3, <1>4 DEF NothingLeftOpen

LEMMA OpenStep == OpenInv /\ [Next]_vars => OpenInv'
  <1>1. TypeInv /\ [Next]_vars => TypeInv'
    BY ClientStepType, SessionStepType, StutterType DEF Next, Rest
  <1>. QED
    BY <1>1, PortsStep, ClientEndsStep, ServerEndsStep DEF OpenInv

(* However a command ended (ERROR, a give-up, a cut or a whole transfer),  *)
(* no socket of it outlives it on either side: welcome has closed its      *)
(* socket and shutdown the data connection when the client is back at its  *)
(* prompt or the session at its next receive.                              *)
THEOREM NothingStaysOpen == Spec => []NothingLeftOpen
  <1>. QED
    BY InitOpen, OpenStep, OpenIsEnough, PTL DEF Spec

-----------------------------------------------------------------------------
(* The two programs in step.                                             *)

toClient == control.inbox["client"]
toServer == control.inbox["server"]

Wants(m) == m.type \in {"LS", "GET"}
NoneWanted == \A k \in 1 .. Len(toServer) : ~Wants(toServer[k])

(* The session is working on a command it has not answered yet.            *)
Serving == spc \in {"check", "connect", "answer"}

(* The client exchanges greetings, has no use for a reply, or awaits one.  *)
Greeting == cpc = "greet" \/ (cpc = "send" /\ command.type = "HELLO")
Quiet ==
  \/ cpc \in {"prompt", "recv"}
  \/ cpc = "send" /\ command.type # "HELLO"
  \/ cpc = "accept" /\ command.type # "LS"
  \/ cpc = "drain" /\ after = "prompt"
Waiting == cpc = "reply" \/ (cpc = "accept" /\ command.type = "LS")

(* Of a command and its reply exactly one thing is under way at a time:    *)
(* the command, the work on it, or the reply.                              *)
StepInConnect == cpc = "connect" => command.type = "HELLO" /\ spc = "none"
                                    /\ control = NoConn
StepInGreeting ==
  Greeting => /\ spc \in {"none", "hello"} => toClient = << >>
              /\ Len(toClient) <= 1
              /\ ~Serving /\ NoneWanted
StepInQuiet ==
  Quiet => toClient = << >> /\ spc \notin {"none", "hello"} /\ ~Serving /\ NoneWanted
StepInWaiting ==
  Waiting =>
    /\ spc \notin {"none", "hello"}
    /\ Len(toClient) <= 1
    /\ toClient # << >> => toClient[1].id = command.id
    /\ \A k \in 1 .. Len(toServer) : Wants(toServer[k]) =>
         k = Len(toServer) /\ toServer[k] = command /\ ~Serving /\ toClient = << >>
    /\ Serving => request = command /\ toClient = << >>

InStep ==
  ~gaveUp => StepInConnect /\ StepInGreeting /\ StepInQuiet /\ StepInWaiting

(* What the client has in hand belongs to its command.                     *)
Own ==
  ~gaveUp =>
    /\ cpc \in {"send", "reply", "accept"} => \A i \in Pending : i = command.id
    /\ cpc = "recv" \/ (cpc = "accept" /\ command.type # "LS") => response.id = command.id
    /\ cpc = "recv" \/ (cpc = "reply" /\ command.type = "LS") => cdata = command.id

StepInv == OpenInv /\ Answered /\ InStep /\ Own

-----------------------------------------------------------------------------
(* What the socket calls do to the two directions of the control           *)
(* connection.                                                             *)
LEMMA ControlLemma ==
  ASSUME TypeInv
  PROVE  /\ toClient \in Seq(Message) /\ toServer \in Seq(Message)
         /\ Readable(control, "client") =>
              /\ toClient # << >>
              /\ Take(control, "client").inbox["client"] = Tail(toClient)
              /\ Take(control, "client").inbox["server"] = toServer
         /\ Readable(control, "server") =>
              /\ toServer # << >>
              /\ Take(control, "server").inbox["client"] = toClient
              /\ Take(control, "server").inbox["server"] = Tail(toServer)
         /\ Shut(control, "server").inbox["client"] = toClient
         /\ Shut(control, "server").inbox["server"] = toServer
         /\ Close(control, "server").inbox["client"] = toClient
         /\ Close(control, "server").inbox["server"] = << >>
         /\ \A m \in Message : \A d \in AfterSend(control, "client", m) :
              /\ d.inbox["client"] = toClient
              /\ d.inbox["server"] \in {toServer, Append(toServer, m)}
         /\ \A m \in Message : \A d \in AfterSend(control, "server", m) :
              /\ d.inbox["client"] \in {toClient, Append(toClient, m)}
              /\ d.inbox["server"] = toServer
  <1>1. control \in Conn(Message)
    BY DEF TypeInv, TypeOK, NetTypeOK
  <1>2. "client" \in Ends /\ "server" \in Ends /\ Ends = {"client", "server"}
        /\ Peer("client") = "server" /\ Peer("server") = "client"
    BY DEF Ends, Peer
  <1>3. control.inbox \in [Ends -> Seq(Message)]
    BY <1>1 DEF Conn
  <1>. USE DEF toClient, toServer
  <1>4. toClient \in Seq(Message) /\ toServer \in Seq(Message)
    BY <1>2, <1>3
  <1>5. Readable(control, "client") =>
          /\ toClient # << >>
          /\ Take(control, "client").inbox["client"] = Tail(toClient)
          /\ Take(control, "client").inbox["server"] = toServer
    BY <1>1, <1>2, TakeLemma DEF Readable
  <1>6. Readable(control, "server") =>
          /\ toServer # << >>
          /\ Take(control, "server").inbox["client"] = toClient
          /\ Take(control, "server").inbox["server"] = Tail(toServer)
    BY <1>1, <1>2, TakeLemma DEF Readable
  <1>7. Shut(control, "server").inbox = control.inbox
    BY <1>1, <1>2, ShutLemma
  <1>8. Close(control, "server").inbox = [control.inbox EXCEPT !["server"] = << >>]
    BY <1>1, <1>2, CloseLemma
  <1>9. /\ Close(control, "server").inbox["client"] = toClient
        /\ Close(control, "server").inbox["server"] = << >>
    BY <1>2, <1>3, <1>8
  <1>10. ASSUME NEW m \in Message, NEW d \in AfterSend(control, "client", m)
         PROVE  /\ d.inbox["client"] = toClient
                /\ d.inbox["server"] \in {toServer, Append(toServer, m)}
    <2>1. d.inbox \in {control.inbox, [control.inbox EXCEPT !["server"] = Append(@, m)]}
      BY <1>1, <1>2, <1>10, SendLemma
    <2>. QED
      BY <1>2, <1>3, <2>1
  <1>11. ASSUME NEW m \in Message, NEW d \in AfterSend(control, "server", m)
         PROVE  /\ d.inbox["client"] \in {toClient, Append(toClient, m)}
                /\ d.inbox["server"] = toServer
    <2>1. d.inbox \in {control.inbox, [control.inbox EXCEPT !["client"] = Append(@, m)]}
      BY <1>1, <1>2, <1>11, SendLemma
    <2>. QED
      BY <1>2, <1>3, <2>1
  <1>. QED
    BY <1>4, <1>5, <1>6, <1>7, <1>9, <1>10, <1>11

LEMMA InitStep == Init => StepInv
  <1>. SUFFICES ASSUME Init PROVE StepInv
    OBVIOUS
  <1>1. InStep /\ Own
    BY DEF Init, NetInit, ClientInit, SessionInit, InStep, Own, StepInConnect,
           StepInGreeting, StepInQuiet, StepInWaiting, Greeting, Quiet, Waiting, Hello,
           MakeMsg
  <1>2. Answered
    BY DEF Init, ClientInit, Answered
  <1>. QED
    BY <1>1, <1>2, InitOpen DEF StepInv

-----------------------------------------------------------------------------
(* A session that is not working on a command after its step and has said  *)
(* nothing.                                                                *)
LEMMA SilentStep ==
  ASSUME TypeInv, InStep, UNCHANGED clientVars, cpc # "connect",
         spc' \notin {"none", "hello"}, ~Serving', toClient' = toClient,
         \/ toServer' \in {toServer, << >>}
         \/ toServer # << >> /\ toServer' = Tail(toServer)
  PROVE  InStep'
  <1>1. toServer \in Seq(Message)
    BY ControlLemma
  <1>2. ASSUME NEW k \in 1 .. Len(toServer')
        PROVE  \E j \in 1 .. Len(toServer) :
                 /\ toServer'[k] = toServer[j]
                 /\ j = Len(toServer) => k = Len(toServer')
    <2>1. CASE toServer' = toServer
      BY <1>2, <2>1
    <2>2. CASE toServer' = << >>
      BY <1>2, <2>2
    <2>3. CASE toServer # << >> /\ toServer' = Tail(toServer)
      <3>1. /\ k + 1 \in 1 .. Len(toServer)
            /\ toServer'[k] = toServer[k + 1]
            /\ k + 1 = Len(toServer) => k = Len(toServer')
        BY <1>1, <1>2, <2>3
      <3>. QED
        BY <3>1
    <2>. QED
      BY <2>1, <2>2, <2>3
  <1>3. NoneWanted => NoneWanted'
    BY <1>2 DEF NoneWanted, Wants
  <1>4. UNCHANGED <<cpc, command, after, gaveUp>>
    BY DEF clientVars
  <1>5. UNCHANGED <<Greeting, Quiet, Waiting>>
    BY <1>4 DEF Greeting, Quiet, Waiting
  <1>6. ~gaveUp => StepInConnect' /\ StepInGreeting' /\ StepInQuiet'
    BY <1>3, <1>4, <1>5
    DEF InStep, StepInConnect, StepInGreeting, StepInQuiet
  <1>7. ~gaveUp => StepInWaiting'
    BY <1>2, <1>4, <1>5 DEF InStep, StepInWaiting, Wants
  <1>. QED
    BY <1>4, <1>6, <1>7 DEF InStep

(* A session that is working on a command, and says nothing or answers it. *)
LEMMA ServingStep ==
  ASSUME TypeInv, InStep, UNCHANGED clientVars, Serving, request' = request,
         spc' \notin {"none", "hello"}, toServer' = toServer,
         \/ Serving' /\ toClient' = toClient
         \/ \E m \in Message : /\ ~Serving' /\ m.id = request.id
                               /\ toClient' \in {toClient, Append(toClient, m)}
  PROVE  InStep'
  <1>1. UNCHANGED <<cpc, command, after, gaveUp>>
    BY DEF clientVars
  <1>2. UNCHANGED <<Greeting, Quiet, Waiting>>
    BY <1>1 DEF Greeting, Quiet, Waiting
  <1>3. ~gaveUp => cpc # "connect" /\ ~Greeting /\ ~Quiet
    BY DEF InStep, StepInConnect, StepInGreeting, StepInQuiet, Serving
  <1>4. ASSUME ~gaveUp, Waiting
        PROVE  /\ request = command /\ toClient = << >> /\ NoneWanted
               /\ NoneWanted'
    BY <1>4 DEF InStep, StepInWaiting, NoneWanted, Wants
  <1>5. ASSUME ~gaveUp, Waiting
        PROVE  /\ Len(toClient') <= 1
               /\ toClient' # << >> => toClient'[1].id = command.id
               /\ Serving' => toClient' = << >>
    <2>1. CASE toClient' = << >>
      BY <2>1
    <2>2. CASE \E m \in Message : /\ ~Serving' /\ m.id = request.id
                                  /\ toClient' = Append(toClient, m)
      <3>1. PICK m \in Message : /\ ~Serving' /\ m.id = request.id
                                 /\ toClient' = Append(toClient, m)
        BY <2>2
      <3>2. toClient' = << m >>
        BY <1>4, <1>5, <3>1
      <3>. QED
        BY <1>4, <1>5, <3>1, <3>2
    <2>. QED
      BY <1>4, <1>5, <2>1, <2>2
  <1>6. ~gaveUp => StepInWaiting'
    BY <1>1, <1>2, <1>4, <1>5 DEF StepInWaiting, NoneWanted, Wants
  <1>. QED
    BY <1>1, <1>2, <1>3, <1>6 DEF InStep, StepInConnect, StepInGreeting, StepInQuiet

LEMMA SessionInStep ==
  ASSUME TypeInv, InStep, SessionWork \/ StreamFails \/ ServerStops,
         UNCHANGED clientVars
  PROVE  InStep'
  <1>. USE DEF toClient, toServer
  <1>1. request \in Message /\ spc \in SessionPhase /\ then \in {"idle", "close"}
    BY DEF TypeInv, TypeOK, SessionTypeOK
  <1>2. ASSUME cpc = "connect" PROVE gaveUp
    <2>. SUFFICES ASSUME ~gaveUp PROVE FALSE
      OBVIOUS
    <2>1. spc = "none" /\ control.st["server"] = "none"
      BY <1>2 DEF InStep, StepInConnect, NoConn, Ends
    <2>. QED
      BY <2>1 DEF SessionWork, StartThread, SendHello, AwaitHello, ReceiveCommand,
                  CheckFile, ConnectData, AnswerOk, SendBlock, SendDone, CloseData,
                  CloseControl, DrainControl, ServerSignalled, StreamFails, ServerStops
  <1>3. CASE gaveUp
    BY <1>3 DEF clientVars, InStep
  <1>4. CASE StartThread /\ ~gaveUp
    <2>1. UNCHANGED <<cpc, command, after, gaveUp, control>> /\ spc = "none" /\ spc' = "hello"
      BY <1>4 DEF StartThread, netVars, clientVars
    <2>2. ~Quiet /\ ~Waiting /\ cpc # "connect"
      BY <1>2, <1>4, <2>1 DEF InStep, StepInQuiet, StepInWaiting
    <2>3. UNCHANGED <<Greeting, Quiet, Waiting>>
      BY <2>1 DEF Greeting, Quiet, Waiting
    <2>4. StepInGreeting'
      BY <1>4, <2>1, <2>3 DEF InStep, StepInGreeting, Serving, NoneWanted
    <2>. QED
      BY <2>1, <2>2, <2>3, <2>4 DEF InStep, StepInConnect, StepInQuiet, StepInWaiting
  <1>5. CASE SendHello /\ ~gaveUp
    <2>. DEFINE m == MakeMsg("HELLO", 0, NoPort, NoName, 0)
    <2>1. m \in Message
      BY MessageLemma DEF MsgTypes
    <2>. HIDE DEF m
    <2>2. UNCHANGED <<cpc, command, after, gaveUp>> /\ spc = "hello"
          /\ spc' \in {"greet", "close"}
      BY <1>5 DEF SendHello, clientVars
    <2>3. toServer' = toServer /\ toClient' \in {toClient, Append(toClient, m)}
      BY <1>5, <2>1, ControlLemma DEF SendHello, m
    <2>4. ~Quiet /\ ~Waiting /\ cpc # "connect"
      BY <1>2, <1>5, <2>2 DEF InStep, StepInQuiet, StepInWaiting
    <2>5. UNCHANGED <<Greeting, Quiet, Waiting>>
      BY <2>2 DEF Greeting, Quiet, Waiting
    <2>6. ASSUME Greeting
          PROVE  toClient = << >> /\ NoneWanted
      BY <1>5, <2>2, <2>6 DEF InStep, StepInGreeting
    <2>7. ASSUME Greeting PROVE Len(toClient') <= 1
      <3>1. Len(<< >>) <= 1 /\ Len(Append(<< >>, m)) <= 1
        BY <2>1
      <3>. QED
        BY <2>3, <2>6, <2>7, <3>1
    <2>8. Greeting => NoneWanted'
      BY <2>3, <2>6 DEF NoneWanted
    <2>9. StepInGreeting'
      BY <2>2, <2>5, <2>7, <2>8 DEF StepInGreeting, Serving
    <2>. QED
      BY <2>2, <2>4, <2>5, <2>9 DEF InStep, StepInConnect, StepInQuiet, StepInWaiting
  <1>6. CASE ReceiveCommand /\ ~gaveUp
    <2>1. CASE Readable(control, "server") /\ Wants(Head(toServer))
      <3>1. /\ toServer \in Seq(Message) /\ toServer # << >>
            /\ toServer' = Tail(toServer) /\ toClient' = toClient
            /\ request' = Head(toServer) /\ spc' \in {"connect", "check"}
        BY <1>6, <2>1, ControlLemma DEF ReceiveCommand, Wants
      <3>2. UNCHANGED <<cpc, command, after, gaveUp>>
        BY DEF clientVars
      <3>3. 1 \in 1 .. Len(toServer) /\ toServer[1] = Head(toServer)
        BY <3>1
      <3>4. ~Greeting /\ ~Quiet /\ cpc # "connect"
        BY <1>2, <1>6, <2>1, <3>3 DEF InStep, StepInGreeting, StepInQuiet, NoneWanted
      <3>5. UNCHANGED <<Greeting, Quiet, Waiting>>
        BY <3>2 DEF Greeting, Quiet, Waiting
      <3>6. ASSUME Waiting
            PROVE  Len(toServer) = 1 /\ request' = command /\ toClient = << >>
        BY <1>6, <2>1, <3>1, <3>3, <3>6 DEF InStep, StepInWaiting
      <3>7. ASSUME Waiting PROVE Len(toServer') = 0
        BY <3>1, <3>6, <3>7
      <3>8. StepInWaiting'
        BY <3>1, <3>2, <3>5, <3>6, <3>7 DEF StepInWaiting
      <3>. QED
        BY <3>2, <3>4, <3>5, <3>8 DEF InStep, StepInConnect, StepInGreeting, StepInQuiet
    <2>2. CASE ~(Readable(control, "server") /\ Wants(Head(toServer)))
      <3>1. /\ toClient' = toClient
            /\ toServer' = toServer \/ (toServer # << >> /\ toServer' = Tail(toServer))
            /\ spc' = "close"
        BY <1>6, <2>2, ControlLemma DEF ReceiveCommand, Wants, AfterNoCommand
      <3>. QED
        BY <1>2, <1>6, <3>1, SilentStep DEF Serving
    <2>. QED
      BY <2>1, <2>2
  <1>7. CASE CheckFile /\ ~gaveUp
    <2>. DEFINE m == MakeMsg("ERROR", request.id, NoPort, NoName, 0)
    <2>1. m \in Message /\ m.id = request.id
      BY <1>1, MessageLemma DEF MsgTypes, Message, MakeMsg
    <2>2. Serving /\ request' = request
      BY <1>7 DEF CheckFile, Serving
    <2>3. CASE control' \in AfterSend(control, "server", m) /\ spc' = "idle"
      <3>. HIDE DEF m
      <3>1. toServer' = toServer /\ toClient' \in {toClient, Append(toClient, m)}
        BY <2>1, <2>3, ControlLemma
      <3>. QED
        BY <2>1, <2>2, <2>3, <3>1, ServingStep DEF Serving
    <2>4. CASE UNCHANGED control /\ spc' = "connect"
      BY <2>2, <2>4, ServingStep DEF Serving
    <2>5. CASE UNCHANGED control /\ spc' \in {"idle", "close"}
      BY <1>2, <1>7, <2>5, SilentStep DEF Serving
    <2>. QED
      BY <1>7, <2>3, <2>4, <2>5 DEF CheckFile
  <1>8. CASE ConnectData /\ ~gaveUp
    <2>1. UNCHANGED <<control, request>> /\ spc = "connect"
          /\ spc' \in {"answer", "close", "idle"}
      BY <1>8 DEF ConnectData, AfterConnError
    <2>2. CASE spc' = "answer"
      BY <2>1, <2>2, ServingStep DEF Serving
    <2>3. CASE spc' # "answer"
      BY <1>2, <1>8, <2>1, <2>3, SilentStep DEF Serving
    <2>. QED
      BY <2>2, <2>3
  <1>9. CASE AnswerOk /\ ~gaveUp
    <2>1. CASE UNCHANGED control /\ spc' = "drain"
      BY <1>2, <1>9, <2>1, SilentStep DEF Serving
    <2>2. CASE \E n \in Lengths(request) :
                 control' \in AfterSend(control, "server",
                               MakeMsg("OK", request.id, NoPort, NoName, n))
                 /\ spc' = "send"
      <3>1. PICK n \in Lengths(request) :
                 control' \in AfterSend(control, "server",
                               MakeMsg("OK", request.id, NoPort, NoName, n))
                 /\ spc' = "send"
        BY <2>2
      <3>. DEFINE m == MakeMsg("OK", request.id, NoPort, NoName, n)
      <3>2. n \in Nat
        BY <1>9 DEF AnswerOk, Lengths, TypeInv, ServesFile
      <3>3. m \in Message /\ m.id = request.id
        BY <1>1, <3>2, MessageLemma DEF MsgTypes, Message, MakeMsg
      <3>. HIDE DEF m
      <3>4. toServer' = toServer /\ toClient' \in {toClient, Append(toClient, m)}
        BY <3>1, <3>3, ControlLemma DEF m
      <3>5. Serving /\ request' = request /\ ~Serving'
        BY <1>9, <3>1 DEF AnswerOk, Serving
      <3>. QED
        BY <3>1, <3>3, <3>4, <3>5, ServingStep
    <2>. QED
      BY <1>9, <2>1, <2>2 DEF AnswerOk, Unwind
  <1>10. CASE AwaitHello /\ ~gaveUp
    <2>1. /\ toClient' = toClient
          /\ toServer' = toServer \/ (toServer # << >> /\ toServer' = Tail(toServer))
          /\ spc' \in {"idle", "close"}
      BY <1>10, ControlLemma DEF AwaitHello
    <2>. QED
      BY <1>2, <1>10, <2>1, SilentStep DEF Serving
  <1>11. CASE (SendBlock \/ SendDone \/ CloseData \/ StreamFails) /\ ~gaveUp
    <2>1. UNCHANGED control /\ spc' \in {"send", "drain", "idle", "close"}
      BY <1>1, <1>11 DEF SendBlock, SendDone, CloseData, StreamFails, Unwind
    <2>. QED
      BY <1>2, <1>11, <2>1, SilentStep DEF Serving
  <1>12. CASE (CloseControl \/ DrainControl) /\ ~gaveUp
    <2>1. /\ toClient' = toClient
          /\ \/ toServer' \in {toServer, << >>}
             \/ toServer # << >> /\ toServer' = Tail(toServer)
          /\ spc' \in {"closeDrain", "gone"}
      BY <1>12, ControlLemma DEF CloseControl, DrainControl
    <2>. QED
      BY <1>2, <1>12, <2>1, SilentStep DEF Serving
  <1>13. CASE (ServerSignalled \/ ServerStops) /\ ~gaveUp
    <2>1. /\ toClient' = toClient
          /\ toServer' \in {toServer, << >>}
          /\ spc' = "gone"
      BY <1>13, ControlLemma DEF ServerSignalled, ServerStops, ServerVanishes
    <2>. QED
      BY <1>2, <1>13, <2>1, SilentStep DEF Serving
  <1>. QED
    BY <1>3, <1>4, <1>5, <1>6, <1>7, <1>8, <1>9, <1>10, <1>11, <1>12, <1>13
    DEF SessionWork

-----------------------------------------------------------------------------
(* Where the client has nothing more to do with a command, nothing is      *)
(* claimed.                                                                *)
LEMMA EndingStep ==
  ASSUME \/ cpc' \in {"exit", "exitDrain", "gone"}
         \/ cpc' = "drain" /\ after' = "exit"
         \/ gaveUp'
  PROVE  InStep' /\ Own'
  BY DEF InStep, Own, StepInConnect, StepInGreeting, StepInQuiet, StepInWaiting, Greeting,
         Quiet, Waiting

(* A step by which a client with nothing under way gets nothing under way. *)
LEMMA QuietStep ==
  ASSUME InStep, UNCHANGED <<sessionVars, control, gaveUp>>, Quiet, Quiet',
         cpc' # "connect"
  PROVE  InStep'
  <1>1. ~Greeting' /\ ~Waiting'
    BY DEF Quiet, Greeting, Waiting
  <1>. QED
    BY <1>1 DEF InStep, StepInConnect, StepInGreeting, StepInQuiet, StepInWaiting,
                sessionVars, toClient, toServer, NoneWanted, Serving

LEMMA ClientInStep ==
  ASSUME TypeInv, InStep, ClientWork \/ UserCommand \/ ClientFails \/ ClientKilled,
         UNCHANGED sessionVars
  PROVE  InStep'
  <1>. USE DEF toClient, toServer
  <1>1. CASE gaveUp
    <2>1. gaveUp'
      BY <1>1 DEF ClientWork, ClientFails, Connect, UserCommand, ClientSend, Greeted,
            ReplyOk, ReplyError, ReplyThrows, Accept, AcceptTimeout, AcceptPoll, RecvBlock,
            RecvThrows, WriteFails, RecvSpin, RecvDone, Drain, Exit, ExitDrain,
            ClientSignalled, ClientKilled, ClientVanishes, clientVars, CommandFails,
            WelcomeFails
    <2>. QED
      BY <2>1, EndingStep
  <1>2. CASE AcceptPoll \/ RecvSpin
    BY <1>2 DEF AcceptPoll, RecvSpin, netVars, clientVars, sessionVars, InStep,
            StepInConnect, StepInGreeting, StepInQuiet, StepInWaiting, Greeting, Quiet,
            Waiting, Serving, NoneWanted
  <1>3. CASE Connect /\ ~gaveUp
    <2>1. /\ UNCHANGED <<command, gaveUp, spc>> /\ command.type = "HELLO" /\ spc = "none"
          /\ cpc' \in {"send", "gone"}
      BY <1>3 DEF Connect, InStep, StepInConnect, sessionVars
    <2>2. toClient' = << >> /\ toServer' = << >>
      BY <1>3 DEF Connect, InStep, StepInConnect, NoConn, Ends
    <2>3. ~Quiet' /\ ~Waiting'
      BY <2>1 DEF Quiet, Waiting
    <2>4. StepInGreeting'
      BY <2>1, <2>2 DEF StepInGreeting, Serving, NoneWanted
    <2>. QED
      BY <2>1, <2>3, <2>4 DEF InStep, StepInConnect, StepInQuiet, StepInWaiting
  <1>4. CASE UserCommand /\ ~gaveUp
    <2>1. command'.type # "HELLO" /\ cpc = "prompt" /\ cpc' = "send"
          /\ UNCHANGED <<control, gaveUp>>
      BY <1>4 DEF UserCommand, MakeMsg
    <2>. QED
      BY <2>1, QuietStep DEF Quiet
  <1>5. CASE ClientSend /\ ~gaveUp
    <2>1. CASE cpc' = "exit"
      BY <2>1, EndingStep
    <2>2. CASE cpc' # "exit"
      <3>1. command \in Message /\ toServer \in Seq(Message)
        BY ControlLemma DEF TypeInv, TypeOK, ClientTypeOK
      <3>2. /\ toClient' = toClient /\ toServer' \in {toServer, Append(toServer, command)}
            /\ UNCHANGED <<command, gaveUp, spc, request>> /\ cpc = "send"
            /\ cpc' = NextAfterSend
        BY <1>5, <2>2, <3>1, ControlLemma DEF ClientSend, sessionVars
      <3>3. CASE command.type = "HELLO"
        <4>1. Greeting /\ Greeting' /\ ~Quiet' /\ ~Waiting' /\ cpc' # "connect"
          BY <3>2, <3>3 DEF Greeting, Quiet, Waiting, NextAfterSend
        <4>2. NoneWanted
          BY <1>5, <4>1 DEF InStep, StepInGreeting
        <4>3. NoneWanted'
          <5>1. ~Wants(command)
            BY <3>3 DEF Wants
          <5>2. CASE toServer' = toServer
            BY <4>2, <5>2 DEF NoneWanted
          <5>3. CASE toServer' = Append(toServer, command)
            <6>. SUFFICES ASSUME NEW k \in 1 .. Len(toServer') PROVE ~Wants(toServer'[k])
              BY DEF NoneWanted
            <6>1. CASE k = Len(toServer) + 1
              BY <3>1, <5>1, <5>3, <6>1
            <6>2. CASE k \in 1 .. Len(toServer)
              BY <3>1, <4>2, <5>3, <6>2 DEF NoneWanted
            <6>. QED
              BY <3>1, <5>3, <6>1, <6>2
          <5>. QED
            BY <3>2, <5>2, <5>3
        <4>4. StepInGreeting'
          BY <1>5, <3>2, <4>1, <4>3 DEF InStep, StepInGreeting, Serving
        <4>. QED
          BY <4>1, <4>4 DEF InStep, StepInConnect, StepInQuiet, StepInWaiting
      <3>4. CASE command.type # "HELLO"
        <4>1. Quiet /\ ~Quiet' /\ ~Greeting' /\ cpc' # "connect"
          BY <2>2, <3>2, <3>4 DEF Greeting, Quiet, Waiting, NextAfterSend
        <4>2. toClient = << >> /\ spc \notin {"none", "hello"} /\ ~Serving /\ NoneWanted
          BY <1>5, <4>1 DEF InStep, StepInQuiet
        <4>3. \A k \in 1 .. Len(toServer') : Wants(toServer'[k]) =>
                k = Len(toServer') /\ toServer'[k] = command
          BY <3>1, <3>2, <4>2 DEF NoneWanted, Wants
        <4>4. StepInWaiting'
          BY <3>2, <4>2, <4>3 DEF StepInWaiting, Serving, Wants
        <4>. QED
          BY <4>1, <4>4 DEF InStep, StepInConnect, StepInQuiet, StepInGreeting
      <3>. QED
        BY <3>3, <3>4
    <2>. QED
      BY <2>1, <2>2
  <1>6. CASE Greeted /\ ~gaveUp
    <2>1. CASE cpc' = "exit"
      BY <2>1, EndingStep
    <2>2. CASE cpc' # "exit"
      <3>1. /\ cpc = "greet" /\ cpc' = "prompt" /\ UNCHANGED <<spc, gaveUp>>
            /\ toClient \in Seq(Message) /\ toClient # << >>
            /\ toClient' = Tail(toClient) /\ toServer' = toServer
        BY <1>6, <2>2, ControlLemma DEF Greeted, sessionVars
      <3>2. /\ Len(toClient) <= 1 /\ spc \notin {"none", "hello"} /\ ~Serving
            /\ NoneWanted
        BY <1>6, <3>1 DEF InStep, StepInGreeting, Greeting
      <3>3. toClient' = << >>
        BY <3>1, <3>2
      <3>4. StepInQuiet'
        BY <3>1, <3>2, <3>3 DEF StepInQuiet, Serving, NoneWanted
      <3>5. ~Greeting' /\ ~Waiting' /\ cpc' # "connect"
        BY <3>1 DEF Greeting, Waiting
      <3>. QED
        BY <3>4, <3>5 DEF InStep, StepInConnect, StepInGreeting, StepInWaiting
    <2>. QED
      BY <2>1, <2>2
  <1>7. CASE (ReplyOk \/ ReplyError) /\ ~gaveUp
    <2>1. /\ cpc = "reply" /\ UNCHANGED <<spc, gaveUp, command>>
          /\ toClient \in Seq(Message) /\ toClient # << >>
          /\ toClient' = Tail(toClient) /\ toServer' = toServer
      BY <1>7, ControlLemma DEF ReplyOk, ReplyError, sessionVars
    <2>2. /\ Len(toClient) <= 1 /\ spc \notin {"none", "hello"} /\ ~Serving
          /\ NoneWanted
      BY <1>7, <2>1 DEF InStep, StepInWaiting, Waiting, NoneWanted
    <2>3. toClient' = << >>
      BY <2>1, <2>2
    <2>4. StepInQuiet'
      BY <2>1, <2>2, <2>3 DEF StepInQuiet, Serving, NoneWanted
    <2>5. ~Greeting' /\ ~Waiting' /\ cpc' # "connect"
      BY <1>7, <2>1 DEF ReplyOk, ReplyError, AfterError, Greeting, Waiting
    <2>. QED
      BY <2>4, <2>5 DEF InStep, StepInConnect, StepInGreeting, StepInWaiting
  <1>8. CASE Accept /\ ~gaveUp
    <2>1. UNCHANGED <<control, gaveUp, command, spc, request>> /\ cpc = "accept"
      BY <1>8 DEF Accept, sessionVars
    <2>2. CASE command.type = "LS"
      <3>1. cpc' = "reply"
        BY <1>8, <2>2 DEF Accept
      <3>2. Waiting /\ Waiting' /\ ~Greeting' /\ ~Quiet'
        BY <2>1, <2>2, <3>1 DEF Waiting, Greeting, Quiet
      <3>3. StepInWaiting'
        BY <1>8, <2>1, <3>2 DEF InStep, StepInWaiting, Serving, Wants
      <3>. QED
        BY <3>1, <3>2, <3>3 DEF InStep, StepInConnect, StepInGreeting, StepInQuiet
    <2>3. CASE command.type # "LS"
      <3>1. Quiet /\ Quiet' /\ cpc' # "connect"
        BY <1>8, <2>1, <2>3 DEF Accept, Quiet
      <3>. QED
        BY <2>1, <3>1, QuietStep
    <2>. QED
      BY <2>2, <2>3
  <1>9. CASE (RecvBlock \/ RecvThrows \/ RecvDone \/ Drain) /\ ~gaveUp
    <2>1. CASE Quiet /\ Quiet'
      <3>1. UNCHANGED <<control, gaveUp>> /\ cpc' # "connect"
        BY <1>9 DEF RecvBlock, RecvThrows, RecvDone, Drain, TypeInv, TypeOK, ClientTypeOK
      <3>. QED
        BY <2>1, <3>1, QuietStep
    <2>2. CASE ~(Quiet /\ Quiet')
      <3>1. cpc' = "exit" \/ (cpc' = "drain" /\ after' = "exit")
        BY <1>9, <2>2 DEF RecvBlock, RecvThrows, RecvDone, Drain, Quiet, TypeInv, TypeOK,
                          ClientTypeOK
      <3>. QED
        BY <3>1, EndingStep
    <2>. QED
      BY <2>1, <2>2
  <1>10. CASE \/ ReplyThrows \/ AcceptTimeout \/ WriteFails \/ Exit \/ ExitDrain
              \/ ClientSignalled \/ ClientKilled \/ ClientFails
    <2>1. \/ cpc' \in {"exit", "exitDrain", "gone"}
          \/ cpc' = "drain" /\ after' = "exit"
          \/ gaveUp'
      BY <1>10 DEF ReplyThrows, AcceptTimeout, WriteFails, Exit, ExitDrain, clientVars,
                   ClientSignalled, ClientKilled, ClientVanishes, ClientFails,
                   CommandFails, WelcomeFails
    <2>. QED
      BY <2>1, EndingStep
  <1>. QED
    BY <1>1, <1>2, <1>3, <1>4, <1>5, <1>6, <1>7, <1>8, <1>9, <1>10 DEF ClientWork

(* How the step leaves Own: what matters is what happens to the backlog.   *)
LEMMA ClientOwn ==
  ASSUME OpenInv, InStep, Own, UNCHANGED sessionVars,
         ClientWork \/ UserCommand \/ ClientFails \/ ClientKilled
  PROVE  Own'
  <1>1. CASE gaveUp \/ gaveUp' \/ cpc' \in {"exit", "exitDrain", "gone", "prompt", "drain"}
    <2>1. gaveUp => gaveUp'
      BY DEF ClientWork, ClientFails, Connect, UserCommand, ClientSend, Greeted,
            ReplyOk, ReplyError, ReplyThrows, Accept, AcceptTimeout, AcceptPoll, RecvBlock,
            RecvThrows, WriteFails, RecvSpin, RecvDone, Drain, Exit, ExitDrain,
            ClientSignalled, ClientKilled, ClientVanishes, clientVars, CommandFails,
            WelcomeFails
    <2>. QED
      BY <1>1, <2>1 DEF Own
  <1>2. ASSUME cpc \in {"connect", "prompt"} PROVE Pending = {}
    BY <1>2 DEF OpenInv, ClientEnds, Pending
  <1>3. CASE (Connect \/ UserCommand) /\ ~gaveUp
    <2>1. Pending = {} /\ UNCHANGED chan /\ cpc' \in {"send", "gone"}
      BY <1>2, <1>3 DEF Connect, UserCommand
    <2>. QED
      BY <2>1 DEF Own, Pending
  <1>4. CASE ClientSend /\ ~gaveUp
    <2>1. UNCHANGED <<chan, command, gaveUp>> /\ cpc = "send"
          /\ (cpc' = "accept" => command.type = "LS")
          /\ (cpc' = "reply" => command.type = "GET") /\ cpc' \notin {"recv", "send"}
      BY <1>4 DEF ClientSend, NextAfterSend
    <2>. QED
      BY <1>4, <2>1 DEF Own, Pending
  <1>5. CASE ReplyOk /\ ~gaveUp
    <2>1. /\ cpc = "reply" /\ UNCHANGED <<chan, command, gaveUp, cdata>>
          /\ Readable(control, "client") /\ response' = Head(toClient)
          /\ cpc' = IF command.type = "LS" THEN "recv" ELSE "accept"
      BY <1>5 DEF ReplyOk, toClient
    <2>2. toClient \in Seq(Message) /\ toClient # << >>
      BY <2>1, ControlLemma DEF OpenInv
    <2>3. response'.id = command.id
      BY <1>5, <2>1, <2>2 DEF InStep, StepInWaiting, Waiting
    <2>. QED
      BY <1>5, <2>1, <2>3 DEF Own, Pending
  <1>6. CASE Accept /\ ~gaveUp
    <2>1. PICK i \in Pending :
            /\ cdata' = i
            /\ \/ chan' = [chan EXCEPT ![i].st["client"] = "open"]
               \/ chan' = [chan EXCEPT ![i].st["client"] = "shut"]
      BY <1>6 DEF Accept
    <2>2. i \in Ids /\ i = command.id
      BY <1>6 DEF Own, Pending, Accept
    <2>3. \A j \in Ids : j # i => chan'[j] = chan[j]
      BY <2>1, <2>2 DEF OpenInv, TypeInv, TypeOK, NetTypeOK
    <2>4. \A j \in Pending' : j = command.id
      BY <1>6, <2>2, <2>3 DEF Own, Pending, Accept
    <2>5. UNCHANGED <<command, response, gaveUp>> /\ cpc = "accept"
          /\ (cpc' = "recv" => command.type = "GET") /\ cpc' # "accept"
      BY <1>6 DEF Accept
    <2>. QED
      BY <1>6, <2>1, <2>2, <2>4, <2>5 DEF Own
  <1>7. CASE (RecvBlock \/ AcceptPoll \/ RecvSpin) /\ ~gaveUp
    <2>1. /\ UNCHANGED <<cpc, command, response, gaveUp, cdata>>
          /\ cpc = "recv" \/ UNCHANGED chan
      BY <1>7 DEF RecvBlock, AcceptPoll, RecvSpin, netVars, clientVars
    <2>. QED
      BY <1>7, <2>1 DEF Own, Pending
  <1>8. CASE \/ Greeted \/ ReplyError \/ ReplyThrows \/ AcceptTimeout \/ RecvThrows
             \/ WriteFails \/ RecvDone \/ Drain \/ Exit \/ ExitDrain
             \/ ClientSignalled \/ ClientKilled \/ ClientFails
    <2>1. gaveUp' \/ cpc' \in {"exit", "exitDrain", "gone", "prompt"}
          \/ cpc' \in {"drain", "accept"}
      BY <1>8 DEF OpenInv, TypeInv, TypeOK, ClientTypeOK,
            Greeted, ReplyError, AfterError, ReplyThrows, AcceptTimeout, RecvThrows,
            WriteFails, RecvDone, Drain, Exit, ExitDrain, clientVars, ClientSignalled,
            ClientKilled, ClientVanishes, ClientFails, CommandFails, WelcomeFails
    <2>2. cpc' # "accept"
      BY <1>8 DEF OpenInv, TypeInv, TypeOK, ClientTypeOK,
            Greeted, ReplyError, AfterError, ReplyThrows, AcceptTimeout, RecvThrows,
            WriteFails, RecvDone, Drain, Exit, ExitDrain, clientVars, ClientSignalled,
            ClientKilled, ClientVanishes, ClientFails, CommandFails, WelcomeFails
    <2>. QED
      BY <1>1, <2>1, <2>2
  <1>. QED
    BY <1>1, <1>3, <1>4, <1>5, <1>6, <1>7, <1>8 DEF ClientWork

(* The session connects for the command the client is waiting with.        *)
LEMMA SessionOwn ==
  ASSUME OpenInv, InStep, Own, UNCHANGED clientVars,
         SessionWork \/ StreamFails \/ ServerStops
  PROVE  Own'
  <1>1. UNCHANGED <<cpc, command, response, cdata, gaveUp>>
    BY DEF clientVars
  <1>2. ASSUME ~gaveUp, cpc \in {"send", "reply", "accept"}, NEW i \in Pending'
        PROVE  i = command.id
    <2>1. i \in Ids /\ next(i) = "pending"
      BY <1>2 DEF Pending, next
    <2>2. CASE next(i) = now(i)
      BY <1>2, <2>1, <2>2 DEF Own, Pending, now
    <2>3. CASE spc = "connect" /\ i = request.id
      BY <1>2, <2>3 DEF InStep, StepInGreeting, StepInQuiet, StepInWaiting, Greeting,
                        Quiet, Waiting, Serving
    <2>. QED
      BY <2>1, <2>2, <2>3, SessionMoves DEF OpenInv
  <1>. QED
    BY <1>1, <1>2 DEF Own

LEMMA StepStep == StepInv /\ [Next]_vars => StepInv'
  <1>. SUFFICES ASSUME StepInv, [Next]_vars PROVE StepInv'
    OBVIOUS
  <1>. USE DEF StepInv
  <1>1. OpenInv'
    BY OpenStep
  <1>2. Answered'
    BY AnsweredStep DEF OpenInv
  <1>3. CASE (ClientWork \/ UserCommand \/ ClientFails \/ ClientKilled)
             /\ UNCHANGED sessionVars
    BY <1>1, <1>2, <1>3, ClientInStep, ClientOwn DEF OpenInv
  <1>4. CASE (SessionWork \/ StreamFails \/ ServerStops) /\ UNCHANGED clientVars
    BY <1>1, <1>2, <1>4, SessionInStep, SessionOwn DEF OpenInv
  <1>5. CASE UNCHANGED vars
    BY <1>1, <1>2, <1>5
    DEF vars, netVars, clientVars, sessionVars, InStep, Own, StepInConnect,
        StepInGreeting, StepInQuiet, StepInWaiting, Greeting, Quiet, Waiting, Serving,
        NoneWanted, toClient, toServer, Pending
  <1>. QED
    BY <1>3, <1>4, <1>5 DEF Next, Rest

(* As long as no LS gave up waiting, no reply is left on the control       *)
(* connection when the user is prompted: each was taken by the command it  *)
(* answers (kControl->receive of handle_ls and handle_get).                *)
THEOREM RepliesAreTaken == Spec => []NoReplyLeftOver
  <1>1. StepInv => NoReplyLeftOver
    BY DEF StepInv, InStep, StepInQuiet, Quiet, NoReplyLeftOver, toClient, Readable
  <1>. QED
    BY <1>1, InitStep, StepStep, PTL DEF Spec

(* As long as no LS gave up waiting, a client that transfers acts on the   *)
(* OK to its own command and reads the connection made for that command.   *)
THEOREM TransfersAreOwn == Spec => []TransferIsOwn
  <1>1. StepInv => TransferIsOwn
    BY DEF StepInv, Own, Answered, TransferIsOwn
  <1>. QED
    BY <1>1, InitStep, StepStep, PTL DEF Spec

-----------------------------------------------------------------------------
(* A file reported as received is whole, as long as no LS gave up: proved  *)
(* by following the blocks of a GET from the server to the local file.     *)

(* The client is busy with a command, or ready for one, and still in step. *)
Active == ~gaveUp /\ (cpc = "connect" \/ Greeting \/ Quiet \/ Waiting)

(* What the client can still read from a data connection.                  *)
seen(i)     == chan[i].inbox["client"]
seenNext(i) == chan'[i].inbox["client"]

Unused(i)       == seen(i) = << >> /\ now(i) = "none"
IsRun(s, f, n)  == \A k \in 1 .. Len(s) : s[k] = [of |-> f, at |-> n + k]

(* Data connections are used in the order of the commands.                 *)
LaterUnused ==
  /\ \A i \in Ids : i > command.id => Unused(i)
  /\ spc \in {"check", "connect", "answer", "send", "drain"} => request.id <= command.id
  /\ cdata <= command.id

(* The blocks of a chunk are counted from zero and short of its end.       *)
CountKept ==
  /\ cpc # "recv" => got = 0
  /\ cpc = "recv" => got = 0 \/ (got < bytesLeft /\ got < Chunk)

(* A GET before the server connects, and once its OK is there.             *)
NotConnected ==
  \/ cpc = "send"
  \/ /\ cpc = "reply"
     /\ \/ spc \in {"check", "connect"}
        \/ \E k \in 1 .. Len(toServer) : Wants(toServer[k])
Accepted ==
  \/ cpc = "reply" /\ toClient # << >> /\ toClient[1].type = "OK"
  \/ cpc \in {"accept", "recv"}

Received  == IF cpc = "recv" THEN local[command.file] ELSE << >>
StillToCome == IF cpc = "reply" THEN toClient[1].datalen ELSE bytesLeft

(* Received, then in flight, then still to be sent: one run of blocks.     *)
OneRun ==
  /\ command.file \in Files
  /\ now(command.id) # "closed"
  /\ IsRun(Received, command.file, 0)
  /\ IsRun(seen(command.id), command.file, Len(Received))
  /\ Len(Received) + StillToCome = FileLen[command.file] + got
  /\ spc = "send" /\ request.id = command.id =>
       request = command /\ sent = Len(Received) + Len(seen(command.id))

GetInv ==
  command.type = "GET" =>
    /\ command.id \in Ids
    /\ NotConnected => /\ Unused(command.id)
                       /\ spc \in {"send", "drain"} => request.id < command.id
    /\ cpc = "reply" /\ spc = "answer" =>
         seen(command.id) = << >> /\ now(command.id) = "pending"
    /\ Accepted => OneRun

Data == Active => LaterUnused /\ CountKept /\ GetInv

Reported ==
  ~gaveUp => /\ ReceivedIsWhole
             /\ cpc \in {"connect", "send", "reply", "accept", "recv"} =>
                  report # "received"

(* Only LS and GET await a reply or transfer anything.                     *)
Asked == cpc \in {"reply", "accept", "recv"} => command.type \in {"LS", "GET"}

WholeInv == StepInv /\ Data /\ Reported /\ Asked

LEMMA InitWhole == Init => WholeInv
  <1>. SUFFICES ASSUME Init PROVE WholeInv
    OBVIOUS
  <1>1. \A i \in Ids : Unused(i)
    BY DEF Init, NetInit, NoConn, Ends, Unused, seen, now
  <1>2. LaterUnused /\ CountKept
    BY <1>1 DEF Init, ClientInit, SessionInit, LaterUnused, CountKept, Hello, MakeMsg
  <1>3. GetInv /\ Reported /\ Asked
    BY DEF Init, ClientInit, GetInv, Hello, MakeMsg, Reported, ReceivedIsWhole, Asked
  <1>. QED
    BY <1>2, <1>3, InitStep DEF WholeInv, Data

-----------------------------------------------------------------------------
(* What a step of the session does to the client's end of a connection.    *)
SendsOne(i) == SendBlock /\ spc' = "send" /\ i = request.id
Connects(i) == ConnectData /\ spc' = "answer" /\ i = request.id

LEMMA SessionFlow ==
  ASSUME TypeInv, SessionWork \/ StreamFails \/ ServerStops, NEW i \in Ids
  PROVE  /\ \/ seenNext(i) = seen(i) /\ next(i) = now(i)
            \/ Connects(i) \/ SendsOne(i)
         /\ Connects(i) => seenNext(i) = seen(i) /\ next(i) = "pending"
         /\ SendsOne(i) => next(i) = now(i)
         /\ SendsOne(i) /\ now(i) # "closed" =>
              seenNext(i) = Append(seen(i), [of |-> request.file, at |-> sent + 1])
  <1>1. chan \in [Ids -> Conn(Block)] /\ request \in Message
    BY DEF TypeInv, TypeOK, NetTypeOK, SessionTypeOK
  <1>2. /\ "client" \in Ends /\ "server" \in Ends /\ Peer("server") = "client"
        /\ chan[i] \in Conn(Block) /\ chan[i].st \in [Ends -> EndState]
        /\ chan[i].inbox \in [Ends -> Seq(Block)]
    BY <1>1 DEF Ends, Conn, Peer
  <1>. USE DEF now, next, seen, seenNext
  <1>. DEFINE r == request.id
  <1>3. ASSUME chan' = [chan EXCEPT ![r] = Shut(@, "server")]
        PROVE  seenNext(i) = seen(i) /\ next(i) = now(i)
    <2>1. /\ Shut(chan[i], "server").st = [chan[i].st EXCEPT !["server"] = "shut"]
          /\ Shut(chan[i], "server").inbox = chan[i].inbox
      BY <1>2, ShutLemma
    <2>2. chan'[i] = IF i = r THEN Shut(chan[i], "server") ELSE chan[i]
      BY <1>1, <1>3
    <2>. QED
      BY <1>2, <2>1, <2>2
  <1>4. CASE ServerSignalled \/ ServerStops
    <2>1. chan' = WithoutEnd("server") /\ spc' = "gone"
      BY <1>4 DEF ServerSignalled, ServerStops, ServerVanishes
    <2>. QED
      BY <1>1, <1>2, <2>1, WithoutEndLemma DEF Connects, SendsOne
  <1>5. CASE ConnectData
    <2>1. ~SendsOne(i)
      BY <1>5 DEF ConnectData, SendsOne, SendBlock
    <2>2. CASE Connects(i)
      <3>1. chan' = [chan EXCEPT ![r].st = [client |-> "pending", server |-> "open"]] /\ i = r
        BY <2>2 DEF Connects, ConnectData, AfterConnError
      <3>2. next(i) = "pending" /\ seenNext(i) = seen(i)
        BY <1>1, <1>2, <3>1 DEF Conn
      <3>. QED
        BY <2>1, <2>2, <3>2
    <2>3. CASE ~Connects(i)
      <3>1. chan'[i] = chan[i]
        BY <1>1, <1>5, <2>3 DEF ConnectData, Connects
      <3>. QED
        BY <2>1, <2>3, <3>1
    <2>. QED
      BY <2>2, <2>3
  <1>6. CASE SendBlock
    <2>1. ~Connects(i)
      BY <1>6 DEF ConnectData, Connects, SendBlock
    <2>2. CASE spc' # "send"
      <3>1. chan' = [chan EXCEPT ![r] = Shut(@, "server")]
        BY <1>6, <2>2 DEF SendBlock, Unwind
      <3>. QED
        BY <1>3, <2>1, <2>2, <3>1 DEF SendsOne
    <2>3. CASE spc' = "send"
      <3>. DEFINE b == [of |-> request.file, at |-> sent + 1]
      <3>1. PICK d \in AfterSend(chan[r], "server", b) : chan' = [chan EXCEPT ![r] = d]
        BY <1>6, <2>3 DEF SendBlock, Unwind
      <3>2. b \in Block
        BY <1>1 DEF Block, Message, TypeInv, TypeOK, SessionTypeOK
      <3>3. CASE i = r
        <4>. HIDE DEF b
        <4>1. d.st = chan[i].st
          BY <1>2, <3>1, <3>2, <3>3, SendLemma
        <4>2. now(i) # "closed" => d.inbox["client"] = Append(chan[i].inbox["client"], b)
          BY <1>2, <3>1, <3>3 DEF AfterSend, Conn
        <4>3. chan'[i] = d
          BY <1>1, <3>1, <3>3
        <4>4. SendsOne(i)
          BY <1>6, <2>3, <3>3 DEF SendsOne
        <4>. QED
          BY <2>1, <4>1, <4>2, <4>3, <4>4 DEF b
      <3>4. CASE i # r
        BY <1>1, <2>1, <3>1, <3>4 DEF SendsOne
      <3>. QED
        BY <3>3, <3>4
    <2>. QED
      BY <2>2, <2>3
  <1>7. CASE /\ StartThread \/ SendHello \/ AwaitHello \/ ReceiveCommand \/ CheckFile
                \/ AnswerOk \/ SendDone \/ StreamFails \/ CloseData \/ CloseControl
                \/ DrainControl
             /\ ~ConnectData /\ ~SendBlock
    <2>1. CASE chan' = chan
      BY <1>7, <2>1 DEF Connects, SendsOne
    <2>2. CASE chan' = [chan EXCEPT ![r] = Shut(@, "server")]
      BY <1>3, <1>7, <2>2 DEF Connects, SendsOne
    <2>3. CASE CloseData
      <3>1. /\ Close(chan[i], "server").st = [chan[i].st EXCEPT !["server"] = "closed"]
            /\ Close(chan[i], "server").inbox = [chan[i].inbox EXCEPT !["server"] = << >>]
        BY <1>2, CloseLemma
      <3>2. chan'[i] = IF i = r THEN Close(chan[i], "server") ELSE chan[i]
        BY <1>1, <2>3 DEF CloseData
      <3>3. seenNext(i) = seen(i) /\ next(i) = now(i)
        BY <1>2, <3>1, <3>2
      <3>. QED
        BY <1>7, <3>3 DEF Connects, SendsOne
    <2>. QED
      BY <1>7, <2>1, <2>2, <2>3
      DEF StartThread, SendHello, AwaitHello, ReceiveCommand, CheckFile, AnswerOk, Unwind,
          SendDone, StreamFails, CloseControl, DrainControl, netVars
  <1>. QED
    BY <1>4, <1>5, <1>6, <1>7 DEF SessionWork, StreamFails, ConnectData, SendBlock,
       StartThread, SendHello, AwaitHello, ReceiveCommand, CheckFile, AnswerOk, SendDone,
       CloseData, CloseControl, DrainControl

(* What it does to the control connection: nothing, unless it owes an      *)
(* answer; and commands on their way only get fewer.                       *)
LEMMA SessionMail ==
  ASSUME TypeInv, SessionWork \/ StreamFails \/ ServerStops
  PROVE  /\ ~Serving /\ spc # "hello" => toClient' = toClient
         /\ (\E k \in 1 .. Len(toServer') : Wants(toServer'[k])) =>
              \E k \in 1 .. Len(toServer) : Wants(toServer[k])
  <1>. USE DEF toClient, toServer
  <1>1. request \in Message /\ toServer \in Seq(Message)
    BY ControlLemma DEF TypeInv, TypeOK, SessionTypeOK
  <1>2. \/ toServer' \in {toServer, << >>}
        \/ toServer # << >> /\ toServer' = Tail(toServer)
    <2>1. CASE SendHello
      <3>1. MakeMsg("HELLO", 0, NoPort, NoName, 0) \in Message
        BY MessageLemma DEF MsgTypes
      <3>. QED
        BY <2>1, <3>1, ControlLemma DEF SendHello
    <2>2. CASE CheckFile
      <3>1. MakeMsg("ERROR", request.id, NoPort, NoName, 0) \in Message
        BY <1>1, MessageLemma DEF MsgTypes, Message
      <3>. QED
        BY <2>2, <3>1, ControlLemma DEF CheckFile
    <2>3. CASE AnswerOk
      <3>1. \A n \in Lengths(request) :
              MakeMsg("OK", request.id, NoPort, NoName, n) \in Message
        <4>1. Lengths(request) \subseteq Nat
          BY <2>3 DEF AnswerOk, Lengths, TypeInv, ServesFile
        <4>. QED
          BY <1>1, <4>1, MessageLemma DEF MsgTypes, Message
      <3>. QED
        BY <2>3, <3>1, ControlLemma DEF AnswerOk
    <2>4. CASE AwaitHello \/ ReceiveCommand \/ CloseControl \/ DrainControl
               \/ ServerSignalled \/ ServerStops
      BY <2>4, ControlLemma DEF AwaitHello, ReceiveCommand, CloseControl, DrainControl,
                                ServerSignalled, ServerStops, ServerVanishes
    <2>5. CASE StartThread \/ ConnectData \/ SendBlock \/ SendDone \/ StreamFails
               \/ CloseData
      BY <2>5 DEF StartThread, ConnectData, SendBlock, SendDone, StreamFails, CloseData,
                  netVars
    <2>. QED
      BY <2>1, <2>2, <2>3, <2>4, <2>5 DEF SessionWork
  <1>3. ASSUME ~Serving, spc # "hello" PROVE toClient' = toClient
    BY <1>3, ControlLemma
    DEF Serving, SessionWork, StartThread, SendHello, AwaitHello, ReceiveCommand,
        CheckFile, ConnectData, AnswerOk, SendBlock, SendDone, StreamFails, CloseData,
        CloseControl, DrainControl, ServerSignalled, ServerStops, ServerVanishes, netVars
  <1>4. ASSUME NEW k \in 1 .. Len(toServer')
        PROVE  \E j \in 1 .. Len(toServer) : toServer'[k] = toServer[j]
    <2>1. CASE toServer' = toServer
      BY <1>4, <2>1
    <2>2. CASE toServer' = << >>
      BY <1>4, <2>2
    <2>3. CASE toServer # << >> /\ toServer' = Tail(toServer)
      <3>1. k + 1 \in 1 .. Len(toServer) /\ toServer'[k] = toServer[k + 1]
        BY <1>1, <1>4, <2>3
      <3>. QED
        BY <3>1
    <2>. QED
      BY <1>2, <2>1, <2>2, <2>3
  <1>. QED
    BY <1>3, <1>4

(* Which steps of the session lead into its phases.                        *)
LEMMA SessionPhases ==
  ASSUME TypeInv, SessionWork \/ StreamFails \/ ServerStops
  PROVE  /\ spc' \in {"send", "drain"} => spc \in {"answer", "send"} /\ request' = request
         /\ spc' = "send" => AnswerOk \/ (SendBlock /\ sent' = sent + 1)
         /\ spc' = "answer" => ConnectData /\ request' = request
         /\ spc' = "connect" => spc \in {"check", "idle"}
         /\ spc' = "check" => spc = "idle"
         /\ spc' \in {"check", "connect"} =>
              spc = "check" \/ (toServer # << >> /\ Wants(Head(toServer)))
  BY DEF SessionWork, StartThread, SendHello, AwaitHello, ReceiveCommand, CheckFile,
         ConnectData, AfterConnError, AnswerOk, SendBlock, SendDone, StreamFails,
         CloseData, CloseControl, DrainControl, ServerSignalled, ServerStops,
         ServerVanishes, Unwind, Wants, AfterNoCommand, toServer, Readable,
         TypeInv, TypeOK, SessionTypeOK

-----------------------------------------------------------------------------
(* A step of the session while the client is in step.                      *)
LEMMA SessionLater ==
  ASSUME StepInv, Data, Active, LaterUnused, UNCHANGED clientVars,
         SessionWork \/ StreamFails \/ ServerStops
  PROVE  LaterUnused'
  <1>1. UNCHANGED <<command, cdata>> /\ TypeInv
    BY DEF clientVars, StepInv, OpenInv
  <1>2. InStep' /\ UNCHANGED <<cpc, command, after, gaveUp>>
    BY <1>1, SessionInStep DEF StepInv, clientVars
  <1>3. Active' /\ UNCHANGED <<Greeting, Quiet, Waiting>>
    BY <1>2 DEF Active, Greeting, Quiet, Waiting
  <1>4. command \in Message /\ request \in Message /\ cdata \in 0 .. MaxCmd
    BY <1>1 DEF TypeInv, TypeOK, ClientTypeOK, SessionTypeOK
  <1>5. command.id \in 0 .. MaxCmd /\ request.id \in 0 .. MaxCmd
    BY <1>4 DEF Message
  <1>6. ASSUME NEW i \in Ids, i > command.id PROVE Unused(i)'
    <2>1. ~Connects(i) /\ ~SendsOne(i)
      BY <1>5, <1>6 DEF Connects, SendsOne, ConnectData, SendBlock, LaterUnused, Ids
    <2>2. seenNext(i) = seen(i) /\ next(i) = now(i)
      BY <1>1, <2>1, SessionFlow
    <2>3. Unused(i)
      BY <1>6 DEF LaterUnused
    <2>. QED
      BY <2>2, <2>3 DEF Unused, seen, seenNext, now, next
  <1>7. ASSUME spc' \in {"check", "connect", "answer"} PROVE request'.id <= command'.id
    <2>1. Serving'
      BY <1>7 DEF Serving
    <2>2. Waiting'
      BY <1>2, <1>3, <2>1, <1>7
      DEF Active, InStep, StepInConnect, StepInGreeting, StepInQuiet
    <2>3. request' = command'
      BY <1>2, <1>3, <2>1, <2>2 DEF Active, InStep, StepInWaiting
    <2>. QED
      BY <1>1, <1>5, <2>3
  <1>8. ASSUME spc' \in {"send", "drain"} PROVE request'.id <= command'.id
    BY <1>1, <1>8, SessionPhases DEF LaterUnused
  <1>. QED
    BY <1>1, <1>6, <1>7, <1>8 DEF LaterUnused

LEMMA SessionGet ==
  ASSUME StepInv, Active, LaterUnused, CountKept, GetInv, UNCHANGED clientVars,
         SessionWork \/ StreamFails \/ ServerStops
  PROVE  GetInv'
  <1>. SUFFICES ASSUME command'.type = "GET" PROVE GetInv'
    BY DEF GetInv
  <1>1. /\ UNCHANGED <<cpc, command, after, gaveUp, cdata, local, bytesLeft, got>>
        /\ TypeInv /\ InStep
    BY DEF clientVars, StepInv, OpenInv
  <1>2. InStep'
    BY <1>1, SessionInStep
  <1>3. Active' /\ UNCHANGED <<Greeting, Quiet, Waiting, Received>>
    BY <1>1 DEF Active, Greeting, Quiet, Waiting, Received
  <1>. DEFINE i == command.id
  <1>4. i \in Ids /\ command.type = "GET"
    BY <1>1 DEF GetInv
  <1>5. command \in Message /\ request \in Message /\ i \in Nat /\ request.id \in Nat
        /\ sent \in Nat /\ toClient \in Seq(Message)
    BY <1>1, ControlLemma
    DEF TypeInv, TypeOK, ClientTypeOK, SessionTypeOK, Message
  <1>6. cpc = "send" \/ cpc \in {"accept", "recv"} => ~Serving /\ spc # "hello"
    BY <1>1, <1>4 DEF Active, InStep, StepInQuiet, Quiet
  <1>7. cpc = "reply" => Waiting
    BY DEF Waiting
  <1>8. cpc = "reply" => /\ spc # "hello"
                         /\ Serving => /\ request = command /\ toClient = << >>
                                       /\ ~\E k \in 1 .. Len(toServer) : Wants(toServer[k])
    BY <1>1, <1>7 DEF Active, InStep, StepInWaiting
  <1>9. NotConnected' => NotConnected
    <2>. SUFFICES ASSUME NotConnected', cpc = "reply" PROVE NotConnected
      BY <1>1 DEF NotConnected
    <2>1. CASE spc' \in {"check", "connect"}
      <3>1. CASE spc = "check"
        BY <3>1 DEF NotConnected
      <3>2. CASE toServer # << >> /\ Wants(Head(toServer))
        <4>1. 1 \in 1 .. Len(toServer) /\ toServer[1] = Head(toServer)
          BY <1>1, <3>2, ControlLemma
        <4>. QED
          BY <3>2, <4>1 DEF NotConnected
      <3>. QED
        BY <1>1, <2>1, <3>1, <3>2, SessionPhases
    <2>2. CASE \E k \in 1 .. Len(toServer') : Wants(toServer'[k])
      BY <1>1, <2>2, SessionMail DEF NotConnected
    <2>. QED
      BY <1>1, <2>1, <2>2 DEF NotConnected
  <1>10. ASSUME NotConnected'
         PROVE  /\ Unused(i)'
                /\ spc' \in {"send", "drain"} => request'.id < i
    <2>1. Unused(i) /\ (spc \in {"send", "drain"} => request.id < i)
      BY <1>4, <1>9, <1>10 DEF GetInv
    <2>2. ~SendsOne(i)
      BY <1>5, <2>1 DEF SendsOne, SendBlock
    <2>3. ~Connects(i)
      <3>. SUFFICES ASSUME Connects(i) PROVE FALSE
        OBVIOUS
      <3>1. /\ spc = "connect" /\ spc' = "answer" /\ UNCHANGED control
        BY DEF Connects, ConnectData
      <3>2. cpc = "reply"
        BY <1>6, <1>9, <1>10, <3>1 DEF Serving, NotConnected
      <3>. QED
        BY <1>1, <1>8, <1>10, <3>1, <3>2 DEF NotConnected, toServer, Serving
    <2>4. seenNext(i) = seen(i) /\ next(i) = now(i)
      BY <1>1, <1>4, <2>2, <2>3, SessionFlow
    <2>5. spc' \in {"send", "drain"} => spc = "send" /\ request' = request
      <3>. SUFFICES ASSUME spc' \in {"send", "drain"} PROVE spc = "send" /\ request' = request
        OBVIOUS
      <3>1. spc \in {"answer", "send"} /\ request' = request
        BY <1>1, SessionPhases
      <3>2. CASE spc = "answer"
        BY <1>6, <1>8, <1>9, <1>10, <3>2 DEF NotConnected, Serving
      <3>. QED
        BY <3>1, <3>2
    <2>. QED
      BY <1>1, <2>1, <2>4, <2>5 DEF Unused, seen, seenNext, now, next
  <1>11. ASSUME cpc = "reply", spc' = "answer"
         PROVE  seenNext(i) = << >> /\ next(i) = "pending"
    <2>1. ConnectData
      BY <1>1, <1>11, SessionPhases
    <2>2. request = command /\ Serving /\ NotConnected
      BY <1>8, <1>11, <2>1 DEF ConnectData, Serving, NotConnected
    <2>3. Connects(i)
      BY <1>11, <2>1, <2>2 DEF Connects
    <2>4. seen(i) = << >>
      BY <1>4, <2>2 DEF GetInv, Unused
    <2>. QED
      BY <1>1, <1>4, <2>3, <2>4, SessionFlow
  <1>12. ASSUME Accepted, Accepted' PROVE OneRun'
    <2>1. OneRun /\ ~Serving /\ spc # "hello"
      <3>1. cpc = "reply" => toClient # << >>
        BY <1>12 DEF Accepted
      <3>2. cpc \in {"reply", "accept", "recv"}
        BY <1>12 DEF Accepted
      <3>. QED
        BY <1>4, <1>6, <1>8, <1>12, <3>1, <3>2 DEF GetInv
    <2>2. toClient' = toClient
      BY <1>1, <2>1, SessionMail
    <2>3. StillToCome' = StillToCome
      BY <1>1, <2>2 DEF StillToCome
    <2>4. ~Connects(i) /\ ~AnswerOk
      BY <2>1 DEF Connects, ConnectData, AnswerOk, Serving
    <2>5. CASE SendsOne(i)
      <3>. DEFINE s == seen(i)
                  b == [of |-> command.file, at |-> sent + 1]
                  n == Len(Received)
      <3>1. request = command /\ sent = n + Len(s) /\ request' = request
            /\ sent' = sent + 1
        BY <1>1, <1>4, <2>1, <2>4, <2>5, SessionPhases DEF OneRun, SendsOne, SendBlock
      <3>2. seenNext(i) = Append(s, b) /\ next(i) = now(i)
        BY <1>1, <1>4, <2>1, <2>5, <3>1, SessionFlow DEF OneRun
      <3>3. s \in Seq(Block) /\ n \in Nat
        <4>1. chan[i] \in Conn(Block)
          BY <1>1, <1>4 DEF TypeInv, TypeOK, NetTypeOK
        <4>2. s \in Seq(Block)
          BY <4>1 DEF seen, Conn, Ends
        <4>3. Received \in Seq(Block)
          <5>1. command.file \in Names /\ local \in [Names -> Seq(Block)]
            BY <1>1, <2>1 DEF OneRun, TypeInv, TypeOK, ClientTypeOK
          <5>2. << >> \in Seq(Block)
            OBVIOUS
          <5>. QED
            BY <5>1, <5>2 DEF Received
        <4>. QED
          BY <4>2, <4>3
      <3>. HIDE DEF s
      <3>4. IsRun(s, command.file, n)
        BY <2>1 DEF OneRun, s
      <3>5. IsRun(Append(s, b), command.file, n) /\ Len(Append(s, b)) = Len(s) + 1
        BY <1>5, <3>1, <3>3, <3>4 DEF IsRun
      <3>6. seen(i)' = Append(s, b) /\ now(i)' = now(i)
        BY <1>1, <3>2 DEF seen, seenNext, now, next
      <3>7. IsRun(Received, command.file, 0)' /\ Len(Received)' = n
        BY <1>1, <1>3, <2>1 DEF OneRun, IsRun
      <3>8. IsRun(seen(i), command.file, n)'
        BY <1>1, <1>3, <3>5, <3>6 DEF IsRun
      <3>9. (spc = "send" /\ request.id = i =>
               request = command /\ sent = n + Len(seen(i)))'
        BY <1>1, <1>3, <3>1, <3>3, <3>5, <3>6
      <3>. QED
        BY <1>1, <1>3, <2>1, <2>3, <3>6, <3>7, <3>8, <3>9 DEF OneRun
    <2>6. CASE ~SendsOne(i)
      <3>1. seenNext(i) = seen(i) /\ next(i) = now(i)
        BY <1>1, <1>4, <2>4, <2>6, SessionFlow
      <3>2. ~(spc' = "send" /\ request'.id = i)
        BY <1>1, <2>4, <2>6, SessionPhases DEF SendsOne
      <3>. QED
        BY <1>1, <1>3, <2>1, <2>3, <3>1, <3>2 DEF OneRun, IsRun, seen, seenNext, now, next
    <2>. QED
      BY <2>5, <2>6
  <1>13. ASSUME ~Accepted, Accepted' PROVE OneRun'
    <2>1. /\ cpc = "reply" /\ toClient' # << >> /\ toClient'[1].type = "OK"
          /\ toClient' # toClient
      BY <1>1, <1>13 DEF Accepted
    <2>2. Serving /\ request = command /\ toClient = << >>
      BY <1>1, <1>8, <2>1, SessionMail
    <2>3. AnswerOk
      <3>1. CASE CheckFile
        <4>. DEFINE m == MakeMsg("ERROR", request.id, NoPort, NoName, 0)
        <4>1. m \in Message /\ m.type = "ERROR"
          BY <1>5, MessageLemma DEF MsgTypes, Message, MakeMsg
        <4>. HIDE DEF m
        <4>2. toClient' \in {toClient, Append(toClient, m)}
          BY <1>1, <3>1, <4>1, ControlLemma DEF CheckFile, m, toClient
        <4>3. toClient' = << m >>
          BY <2>1, <2>2, <4>2
        <4>. QED
          BY <2>1, <4>1, <4>3
      <3>2. CASE ConnectData \/ ServerSignalled \/ ServerStops
        BY <1>1, <2>1, <3>2, ControlLemma
        DEF ConnectData, ServerSignalled, ServerStops, ServerVanishes, toClient
      <3>. QED
        BY <2>2, <3>1, <3>2
        DEF Serving, SessionWork, StartThread, SendHello, AwaitHello, ReceiveCommand,
            SendBlock, SendDone, StreamFails, CloseData, CloseControl, DrainControl
    <2>4. CASE UNCHANGED control
      BY <2>1, <2>4 DEF toClient
    <2>5. CASE spc' = "send" /\ \E n \in Lengths(request) :
                 /\ control' \in AfterSend(control, "server",
                                  MakeMsg("OK", request.id, NoPort, NoName, n))
                 /\ sent' = 0 /\ UNCHANGED chan
      <3>1. PICK n \in Lengths(request) :
                 /\ control' \in AfterSend(control, "server",
                                  MakeMsg("OK", request.id, NoPort, NoName, n))
                 /\ sent' = 0 /\ UNCHANGED chan
        BY <2>5
      <3>2. command.file \in Files /\ n = FileLen[command.file] /\ n \in Nat
        BY <1>1, <1>4, <2>2, <2>3, <3>1 DEF AnswerOk, Lengths, TypeInv, ServesFile
      <3>. DEFINE m == MakeMsg("OK", request.id, NoPort, NoName, n)
      <3>3. m \in Message /\ m.datalen = n
        BY <1>5, <3>2, MessageLemma DEF MsgTypes, Message, MakeMsg
      <3>. HIDE DEF m
      <3>4. toClient' = << m >>
        <4>1. toClient' \in {toClient, Append(toClient, m)}
          BY <1>1, <3>1, <3>3, ControlLemma DEF m, toClient
        <4>. QED
          BY <2>1, <2>2, <4>1
      <3>5. StillToCome' = n
        BY <1>1, <2>1, <3>3, <3>4 DEF StillToCome
      <3>6. seen(i) = << >> /\ now(i) = "pending" /\ got = 0
        BY <1>4, <2>1, <2>3 DEF GetInv, CountKept, AnswerOk
      <3>7. Received' = << >>
        BY <1>1, <2>1 DEF Received
      <3>8. request' = command'
        BY <1>1, <2>2, <2>3 DEF AnswerOk
      <3>. QED
        BY <1>1, <3>1, <3>2, <3>5, <3>6, <3>7, <3>8 DEF OneRun, IsRun, seen, now
    <2>. QED
      BY <2>3, <2>4, <2>5 DEF AnswerOk
  <1>. QED
    BY <1>1, <1>4, <1>10, <1>11, <1>12, <1>13 DEF GetInv, seen, seenNext, now, next

-----------------------------------------------------------------------------
(* A step of the client.  It leaves alone what no command has used yet.    *)
LEMMA ClientFlow ==
  ASSUME TypeInv, ClientWork \/ UserCommand, ~ExitDrain, ~ClientSignalled,
         NEW i \in Ids, Unused(i), i # cdata, i # cdata'
  PROVE  Unused(i)'
  <1>1. chan \in [Ids -> Conn(Block)]
    BY DEF TypeInv, TypeOK, NetTypeOK
  <1>2. now(i) # "pending"
    BY DEF Unused
  <1>3. WithoutPending[i] = chan[i] /\ WithoutPending \in [Ids -> Conn(Block)]
    BY <1>1, <1>2, WithoutPendingLemma DEF WithoutPending, Pending, now
  <1>4. chan'[i] = chan[i]
    <2>1. CASE Connect \/ UserCommand \/ ClientSend \/ Greeted \/ ReplyOk \/ AcceptPoll
               \/ RecvSpin \/ Exit
      BY <2>1 DEF Connect, UserCommand, ClientSend, Greeted, ReplyOk, AcceptPoll,
                  RecvSpin, Exit, netVars
    <2>2. CASE ReplyError \/ ReplyThrows \/ AcceptTimeout \/ RecvBlock \/ RecvThrows
               \/ WriteFails \/ RecvDone
      BY <1>1, <1>3, <2>2 DEF ReplyError, ReplyThrows, AcceptTimeout, RecvBlock,
                              RecvThrows, WriteFails, RecvDone
    <2>3. CASE Accept
      BY <1>1, <2>3 DEF Accept
    <2>4. CASE Drain
      <3>1. CASE Readable(chan[cdata], "client")
        BY <1>1, <2>4, <3>1 DEF Drain
      <3>2. CASE ~Readable(chan[cdata], "client")
        <4>. DEFINE rest == IF after = "prompt" THEN WithoutPending ELSE chan
        <4>1. rest[i] = chan[i] /\ rest \in [Ids -> Conn(Block)]
          BY <1>1, <1>3
        <4>2. chan' = [rest EXCEPT ![cdata] = CloseDrained(rest[cdata])]
          BY <2>4, <3>2 DEF Drain
        <4>. HIDE DEF rest
        <4>. QED
          BY <4>1, <4>2
      <3>. QED
        BY <3>1, <3>2
    <2>. QED
      BY <2>1, <2>2, <2>3, <2>4 DEF ClientWork
  <1>. QED
    BY <1>4 DEF Unused, seen, now

(* The client stays in step only by these steps.                           *)
LEMMA ActiveStep ==
  ASSUME TypeInv, ClientWork \/ UserCommand \/ ClientFails \/ ClientKilled, Active'
  PROVE  /\ Active /\ ~ExitDrain /\ ~ClientSignalled
         /\ \/ Connect \/ UserCommand \/ ClientSend \/ Greeted \/ ReplyOk \/ ReplyError
            \/ Accept \/ AcceptPoll \/ RecvBlock \/ RecvThrows \/ RecvSpin \/ RecvDone
            \/ Drain
  <1>1. ~gaveUp' /\ cpc' \notin {"exit", "exitDrain", "gone"}
        /\ ~(cpc' = "drain" /\ after' = "exit")
    BY DEF Active, Greeting, Quiet, Waiting
  <1>2. ~(\/ ReplyThrows \/ AcceptTimeout \/ WriteFails \/ Exit \/ ClientSignalled
          \/ ClientKilled \/ ClientFails)
    BY <1>1 DEF ReplyThrows, AcceptTimeout, WriteFails, Exit, ClientSignalled,
                ClientKilled, ClientVanishes, ClientFails, CommandFails, WelcomeFails
  <1>3. ~ExitDrain
    BY <1>1 DEF ExitDrain, ClientVanishes, clientVars
  <1>4. Active
    <2>. USE DEF Active, Greeting, Quiet, Waiting
    <2>1. CASE Drain
      BY <1>1, <2>1 DEF Drain, TypeInv, TypeOK, ClientTypeOK
    <2>2. CASE AcceptPoll \/ RecvSpin
      BY <1>1, <2>2 DEF AcceptPoll, RecvSpin, clientVars
    <2>3. CASE \/ Connect \/ UserCommand \/ ClientSend \/ Greeted \/ ReplyOk \/ ReplyError
               \/ Accept \/ RecvBlock \/ RecvThrows \/ RecvDone
      BY <1>1, <2>3 DEF Connect, UserCommand, ClientSend, Greeted, ReplyOk, ReplyError,
            Accept, RecvBlock, RecvThrows, RecvDone
    <2>. QED
      BY <1>2, <1>3, <2>1, <2>2, <2>3 DEF ClientWork
  <1>. QED
    BY <1>2, <1>3, <1>4 DEF ClientWork

LEMMA ClientLater ==
  ASSUME StepInv, Active, Active', LaterUnused, CountKept, UNCHANGED sessionVars,
         ClientWork \/ UserCommand \/ ClientFails \/ ClientKilled
  PROVE  LaterUnused' /\ CountKept'
  <1>1. TypeInv /\ Own
    BY DEF StepInv, OpenInv
  <1>2. /\ ~ExitDrain /\ ~ClientSignalled
        /\ \/ Connect \/ UserCommand \/ ClientSend \/ Greeted \/ ReplyOk \/ ReplyError
           \/ Accept \/ AcceptPoll \/ RecvBlock \/ RecvThrows \/ RecvSpin \/ RecvDone
           \/ Drain
    BY <1>1, ActiveStep
  <1>3. command \in Message /\ request \in Message /\ cdata \in 0 .. MaxCmd
        /\ bytesLeft \in Nat /\ got \in Nat
    BY <1>1 DEF TypeInv, TypeOK, ClientTypeOK, SessionTypeOK
  <1>4. command.id \in 0 .. MaxCmd /\ request.id \in 0 .. MaxCmd
    BY <1>3 DEF Message
  <1>5. command'.id \in {command.id, command.id + 1}
    BY <1>2, <1>4 DEF Connect, UserCommand, MakeMsg, ClientSend, Greeted, ReplyOk,
         ReplyError, Accept, AcceptPoll, RecvBlock, RecvThrows, RecvSpin, RecvDone, Drain,
         clientVars
  <1>6. cdata' \in {cdata, 0, command.id}
    <2>1. CASE Accept
      BY <1>1, <2>1 DEF Accept, Own, Active
    <2>2. CASE ~Accept
      BY <1>2, <2>2 DEF Connect, UserCommand, ClientSend, Greeted, ReplyOk, ReplyError,
         AcceptPoll, RecvBlock, RecvThrows, RecvSpin, RecvDone, Drain, clientVars
    <2>. QED
      BY <2>1, <2>2
  <1>7. cdata' <= command'.id
    BY <1>3, <1>4, <1>5, <1>6 DEF LaterUnused
  <1>8. ASSUME NEW i \in Ids, i > command'.id PROVE Unused(i)'
    <2>1. i > command.id /\ i # cdata /\ i # cdata'
      BY <1>3, <1>4, <1>5, <1>6, <1>7, <1>8 DEF LaterUnused, Ids
    <2>2. Unused(i)
      BY <2>1 DEF LaterUnused
    <2>3. ClientWork \/ UserCommand
      BY <1>2 DEF ClientWork
    <2>. QED
      BY <1>1, <1>2, <2>1, <2>2, <2>3, ClientFlow
  <1>9. spc' \in {"check", "connect", "answer", "send", "drain"} => request'.id <= command'.id
    BY <1>4, <1>5 DEF LaterUnused, sessionVars
  <1>10. CountKept'
    <2>1. CASE RecvBlock
      BY <1>3, <2>1 DEF RecvBlock, CountKept, ChunkLen, Min2
    <2>2. CASE RecvDone \/ RecvThrows
      BY <1>3, <2>2 DEF RecvDone, RecvThrows, CountKept
    <2>3. CASE Drain
      BY <2>3 DEF Drain, CountKept, TypeInv, TypeOK, ClientTypeOK, StepInv, OpenInv
    <2>4. CASE AcceptPoll \/ RecvSpin
      BY <2>4 DEF AcceptPoll, RecvSpin, CountKept, clientVars
    <2>5. CASE \/ Connect \/ UserCommand \/ ClientSend \/ Greeted \/ ReplyOk \/ ReplyError
               \/ Accept
      BY <2>5 DEF Connect, UserCommand, ClientSend, Greeted, ReplyOk, ReplyError, Accept,
                  CountKept
    <2>. QED
      BY <1>2, <2>1, <2>2, <2>3, <2>4, <2>5
  <1>. QED
    BY <1>7, <1>8, <1>9, <1>10 DEF LaterUnused

LEMMA ClientGet ==
  ASSUME StepInv, Active, Active', LaterUnused, CountKept, GetInv, UNCHANGED sessionVars,
         ClientWork \/ UserCommand \/ ClientFails \/ ClientKilled
  PROVE  GetInv'
  <1>. SUFFICES ASSUME command'.type = "GET" PROVE GetInv'
    BY DEF GetInv
  <1>1. TypeInv /\ Own /\ InStep /\ UNCHANGED <<spc, request, sent>>
    BY DEF StepInv, OpenInv, sessionVars
  <1>2. /\ ~ExitDrain /\ ~ClientSignalled
        /\ \/ Connect \/ UserCommand \/ ClientSend \/ Greeted \/ ReplyOk \/ ReplyError
           \/ Accept \/ AcceptPoll \/ RecvBlock \/ RecvThrows \/ RecvSpin \/ RecvDone
           \/ Drain
    BY <1>1, ActiveStep
  <1>3. /\ command \in Message /\ command.id \in 0 .. MaxCmd /\ request.id \in 0 .. MaxCmd
        /\ local \in [Names -> Seq(Block)] /\ bytesLeft \in Nat /\ got \in Nat
        /\ toClient \in Seq(Message) /\ toServer \in Seq(Message)
        /\ chan \in [Ids -> Conn(Block)]
    BY <1>1, ControlLemma
    DEF TypeInv, TypeOK, ClientTypeOK, SessionTypeOK, NetTypeOK, Message
  <1>. DEFINE i == command.id
  <1>4. CASE Connect
    BY <1>1, <1>4 DEF Connect, Active, InStep, StepInConnect
  <1>5. CASE UserCommand
    <2>1. /\ command'.id = i + 1 /\ i < MaxCmd /\ UNCHANGED <<chan, control, gaveUp>>
          /\ cpc' = "send"
      BY <1>5 DEF UserCommand, MakeMsg
    <2>2. i + 1 \in Ids /\ i + 1 > i
      BY <1>3, <2>1 DEF Ids
    <2>3. Unused(i)'
      BY <2>1, <2>2 DEF LaterUnused, Unused, seen, now
    <2>4. (spc \in {"send", "drain"} => request.id < i)'
      BY <1>1, <1>3, <2>1 DEF LaterUnused
    <2>5. ~Accepted' /\ cpc' # "reply" /\ i' \in Ids
      BY <2>1, <2>2 DEF Accepted
    <2>. QED
      BY <2>3, <2>4, <2>5 DEF GetInv
  <1>6. CASE ClientSend
    <2>1. /\ UNCHANGED <<chan, command>> /\ cpc = "send" /\ cpc' \in {"reply", "exit"}
          /\ toClient' = toClient
      BY <1>1, <1>3, <1>6, ControlLemma DEF ClientSend, NextAfterSend, toClient
    <2>2. NotConnected /\ ~Serving /\ toClient = << >>
      BY <1>1, <2>1 DEF NotConnected, Active, InStep, StepInQuiet, Quiet
    <2>3. ~Accepted'
      BY <2>1, <2>2 DEF Accepted
    <2>. QED
      BY <1>1, <2>1, <2>2, <2>3 DEF GetInv, Unused, seen, now, Serving
  <1>7. CASE Greeted \/ ReplyError \/ RecvThrows \/ RecvDone \/ Drain
    <2>1. cpc' \in {"prompt", "drain", "exit"} /\ UNCHANGED command
      BY <1>1, <1>7 DEF Greeted, ReplyError, AfterError, RecvThrows, RecvDone, Drain,
                        TypeInv, TypeOK, ClientTypeOK
    <2>2. ~NotConnected' /\ ~Accepted' /\ cpc' # "reply"
      BY <2>1 DEF NotConnected, Accepted
    <2>. QED
      BY <2>1, <2>2 DEF GetInv
  <1>8. CASE AcceptPoll \/ RecvSpin
    BY <1>8, <1>1
    DEF AcceptPoll, RecvSpin, netVars, clientVars, GetInv, NotConnected, Accepted, OneRun,
        Received, StillToCome, Unused, seen, now, toClient, toServer
  <1>9. CASE ReplyOk
    <2>1. /\ UNCHANGED <<chan, command, got, local>> /\ cpc = "reply" /\ cpc' = "accept"
          /\ toClient # << >> /\ bytesLeft' = Head(toClient).datalen
          /\ Head(toClient).type = "OK"
      BY <1>9 DEF ReplyOk, Readable, toClient
    <2>2. toClient[1] = Head(toClient)
      BY <1>3, <2>1
    <2>3. OneRun /\ command.id \in Ids
      BY <2>1, <2>2 DEF GetInv, Accepted
    <2>4. Received' = Received /\ StillToCome' = StillToCome
      BY <2>1, <2>2 DEF Received, StillToCome
    <2>5. OneRun'
      BY <1>1, <2>1, <2>3, <2>4 DEF OneRun, IsRun, seen, now
    <2>. QED
      BY <2>1, <2>3, <2>5 DEF GetInv, NotConnected
  <1>10. CASE Accept
    <2>1. /\ UNCHANGED <<command, got, bytesLeft>> /\ cpc = "accept"
          /\ cpc' \in {"recv", "drain"}
      BY <1>10 DEF Accept
    <2>2. CASE cpc' = "drain"
      <3>1. ~NotConnected' /\ ~Accepted' /\ cpc' # "reply"
        BY <2>2 DEF NotConnected, Accepted
      <3>. QED
        BY <2>1, <3>1 DEF GetInv
    <2>3. CASE cpc' = "recv"
      <3>1. i \in Ids /\ OneRun
        BY <2>1 DEF GetInv, Accepted
      <3>2. /\ chan' = [chan EXCEPT ![i].st["client"] = "open"]
            /\ local' = [local EXCEPT ![command.file] = << >>]
        BY <1>1, <1>10, <2>1, <2>3 DEF Accept, Own, Active
      <3>3. seen(i)' = seen(i) /\ now(i)' = "open"
        <4>1. chan[i] \in Conn(Block) /\ "client" \in Ends
          BY <1>3, <3>1 DEF Ends
        <4>. QED
          BY <1>3, <2>1, <3>1, <3>2, <4>1 DEF seen, now, Conn
      <3>4. Received = << >> /\ Received' = << >>
        BY <1>3, <2>1, <2>3, <3>1, <3>2 DEF Received, OneRun
      <3>5. StillToCome' = StillToCome
        BY <2>1, <2>3 DEF StillToCome
      <3>6. OneRun'
        BY <1>1, <2>1, <3>1, <3>3, <3>4, <3>5 DEF OneRun, IsRun
      <3>. QED
        BY <2>1, <2>3, <3>1, <3>6 DEF GetInv, NotConnected
    <2>. QED
      BY <2>1, <2>2, <2>3
  <1>11. CASE RecvBlock
    <2>1. /\ UNCHANGED <<command, cpc>> /\ cpc = "recv" /\ cdata = i /\ i \in Ids
          /\ OneRun /\ bytesLeft > 0
      BY <1>1, <1>11 DEF RecvBlock, GetInv, Accepted, Own, Active
    <2>. DEFINE f == command.file
                s == seen(i)
                r == local[f]
    <2>2. /\ f \in Names /\ r \in Seq(Block) /\ Received = r /\ s \in Seq(Block)
          /\ s # << >>
      <3>1. chan[i] \in Conn(Block)
        BY <1>3, <2>1
      <3>2. s \in Seq(Block)
        BY <3>1 DEF seen, Conn, Ends
      <3>3. s # << >>
        BY <1>11, <2>1 DEF RecvBlock, Readable, seen
      <3>. QED
        BY <1>3, <2>1, <3>2, <3>3 DEF OneRun, Received
    <2>3. local' = [local EXCEPT ![f] = Append(r, Head(s))]
          /\ chan' = [chan EXCEPT ![i] = Take(chan[i], "client")]
      BY <1>11, <2>1 DEF RecvBlock, seen
    <2>4. Received' = Append(r, Head(s))
      BY <1>3, <2>1, <2>2, <2>3 DEF Received
    <2>5. seen(i)' = Tail(s) /\ now(i)' = now(i)
      <3>1. chan[i] \in Conn(Block) /\ "client" \in Ends /\ Readable(chan[i], "client")
        BY <1>3, <1>11, <2>1 DEF Ends, RecvBlock
      <3>2. Take(chan[i], "client").inbox["client"] = Tail(s)
            /\ Take(chan[i], "client").st = chan[i].st
        BY <3>1, TakeLemma DEF seen
      <3>3. chan'[i] = Take(chan[i], "client") /\ i' = i
        BY <1>3, <2>1, <2>3
      <3>. QED
        BY <3>2, <3>3 DEF seen, now
    <2>6. bytesLeft' + got + 1 = bytesLeft + got'
      <3>1. CASE got + 1 = ChunkLen
        <4>1. ChunkLen <= bytesLeft
          BY <1>3 DEF ChunkLen, Min2
        <4>. QED
          BY <1>3, <1>11, <3>1, <4>1 DEF RecvBlock
      <3>2. CASE got + 1 # ChunkLen
        BY <1>3, <1>11, <3>2 DEF RecvBlock
      <3>. QED
        BY <3>1, <3>2
    <2>7. bytesLeft' \in Nat /\ got' \in Nat
      BY <1>3, <1>11, <2>1 DEF RecvBlock, ChunkLen, Min2
    <2>8. IsRun(r, f, 0) /\ IsRun(s, f, Len(r)) /\ Len(r) + bytesLeft = FileLen[f] + got
          /\ f \in Files
      BY <2>1, <2>2 DEF OneRun, StillToCome
    <2>. HIDE DEF s, r
    <2>9. Head(s) = [of |-> f, at |-> Len(r) + 1]
      <3>1. 1 \in 1 .. Len(s) /\ Head(s) = s[1]
        BY <2>2
      <3>. QED
        BY <2>8, <3>1 DEF IsRun
    <2>10. /\ IsRun(Append(r, Head(s)), f, 0)
           /\ Len(Append(r, Head(s))) = Len(r) + 1
      <3>1. Len(Append(r, Head(s))) = Len(r) + 1
        BY <2>2
      <3>2. ASSUME NEW k \in 1 .. Len(r) + 1
            PROVE  Append(r, Head(s))[k] = [of |-> f, at |-> 0 + k]
        <4>1. CASE k = Len(r) + 1
          BY <2>2, <2>9, <4>1
        <4>2. CASE k \in 1 .. Len(r)
          BY <2>2, <2>8, <4>2 DEF IsRun
        <4>. QED
          BY <2>2, <3>2, <4>1, <4>2
      <3>. QED
        BY <3>1, <3>2 DEF IsRun
    <2>11. IsRun(Tail(s), f, Len(r) + 1) /\ Len(Tail(s)) + 1 = Len(s)
      <3>1. Len(Tail(s)) + 1 = Len(s)
        BY <2>2
      <3>2. ASSUME NEW k \in 1 .. Len(Tail(s))
            PROVE  Tail(s)[k] = [of |-> f, at |-> (Len(r) + 1) + k]
        <4>1. k + 1 \in 1 .. Len(s) /\ Tail(s)[k] = s[k + 1]
          BY <2>2, <3>2
        <4>2. s[k + 1] = [of |-> f, at |-> Len(r) + (k + 1)]
          BY <2>8, <4>1 DEF IsRun
        <4>3. Len(r) + (k + 1) = (Len(r) + 1) + k
          BY <2>2, <3>2
        <4>. QED
          BY <4>1, <4>2, <4>3
      <3>. QED
        BY <3>1, <3>2 DEF IsRun
    <2>12. StillToCome' = bytesLeft'
      BY <2>1 DEF StillToCome
    <2>13. FileLen[f] \in Nat /\ Len(r) \in Nat /\ Len(s) \in Nat
      BY <2>2, <2>8
    <2>14. Len(r) + 1 + bytesLeft' = FileLen[f] + got'
      <3>1. bytesLeft \in Nat /\ got \in Nat
        BY <1>3
      <3>2. PICK n \in Nat, x \in Nat : n = Len(r) /\ x = FileLen[f]
        BY <2>13, Zenon
      <3>3. n + bytesLeft = x + got
        BY <2>8, <3>2, Zenon
      <3>4. n + 1 + bytesLeft' = x + got'
        BY <2>6, <2>7, <3>1, <3>3
      <3>. QED
        BY <3>2, <3>4, Zenon
    <2>15. spc = "send" /\ request.id = i =>
             request = command /\ sent = Len(r) + 1 + Len(Tail(s))
      <3>1. spc = "send" /\ request.id = i => request = command /\ sent = Len(r) + Len(s)
        BY <2>1, <2>2 DEF OneRun, s
      <3>2. Len(Tail(s)) \in Nat
        BY <2>2
      <3>3. Len(r) + Len(s) = Len(r) + 1 + Len(Tail(s))
        <4>1. PICK n \in Nat, k \in Nat, t \in Nat :
                n = Len(r) /\ k = Len(s) /\ t = Len(Tail(s))
          BY <2>13, <3>2, Zenon
        <4>2. t + 1 = k
          BY <2>11, <4>1, Zenon
        <4>3. n + k = n + 1 + t
          BY <4>2
        <4>. QED
          BY <4>1, <4>3, Zenon
      <3>. QED
        BY <3>1, <3>3
    <2>16. OneRun'
      <3>1. now(i)' # "closed"
        BY <2>1, <2>5 DEF OneRun
      <3>2. seen(i)' = Tail(s) /\ command' = command
        BY <2>1, <2>5
      <3>3. IsRun(Received, command.file, 0)' /\ Len(Received)' = Len(r) + 1
        BY <2>1, <2>4, <2>10 DEF IsRun
      <3>4. IsRun(seen(command.id), command.file, Len(Received))'
        BY <2>11, <3>2, <3>3 DEF IsRun
      <3>5. (Len(Received) + StillToCome = FileLen[command.file] + got)'
        BY <2>12, <2>14, <3>2, <3>3
      <3>6. (spc = "send" /\ request.id = command.id =>
               request = command /\ sent = Len(Received) + Len(seen(command.id)))'
        BY <1>1, <2>15, <3>2, <3>3
      <3>. QED
        BY <2>8, <3>1, <3>2, <3>3, <3>4, <3>5, <3>6 DEF OneRun
    <2>. QED
      BY <2>1, <2>16 DEF GetInv, NotConnected
  <1>. QED
    BY <1>2, <1>4, <1>5, <1>6, <1>7, <1>8, <1>9, <1>10, <1>11

-----------------------------------------------------------------------------
(* A transfer that ends with nothing left has put the whole file there.    *)
LEMMA DoneIsWhole ==
  ASSUME StepInv, Data, ~gaveUp, RecvDone, command.type = "GET"
  PROVE  command.file \in Files /\ local[command.file] = Contents(command.file)
  <1>1. Active /\ cpc = "recv" /\ bytesLeft = 0
    BY DEF RecvDone, Active, Quiet
  <1>2. got = 0 /\ OneRun
    <2>1. got \in Nat /\ CountKept /\ GetInv
      BY <1>1 DEF Data, StepInv, OpenInv, TypeInv, TypeOK, ClientTypeOK
    <2>2. got = 0
      BY <1>1, <2>1 DEF CountKept
    <2>. QED
      BY <1>1, <2>1, <2>2 DEF GetInv, Accepted
  <1>. DEFINE f == command.file
              r == local[f]
  <1>3. f \in Files /\ f \in Names /\ r \in Seq(Block) /\ FileLen[f] \in Nat
    BY <1>2 DEF OneRun, StepInv, OpenInv, TypeInv, TypeOK, ClientTypeOK
  <1>4. IsRun(r, f, 0) /\ Len(r) + 0 = FileLen[f] + 0
    BY <1>1, <1>2 DEF OneRun, Received, StillToCome
  <1>. HIDE DEF r
  <1>5. Len(r) \in Nat /\ Len(r) = FileLen[f]
    BY <1>3, <1>4
  <1>6. \A k \in 1 .. Len(r) : r[k] = [of |-> f, at |-> k]
    BY <1>4, <1>5 DEF IsRun
  <1>7. r = [k \in 1 .. Len(r) |-> r[k]]
    BY <1>3
  <1>8. r = Contents(f)
    BY <1>5, <1>6, <1>7 DEF Contents
  <1>. QED
    BY <1>3, <1>8 DEF r

LEMMA ClientReported ==
  ASSUME StepInv, Data, Reported, Asked, ClientWork \/ UserCommand \/ ClientFails \/ ClientKilled
  PROVE  Reported'
  <1>. SUFFICES ASSUME ~gaveUp', report' = "received" PROVE Reported'
    BY DEF Reported, ReceivedIsWhole
  <1>1. ~gaveUp /\ ~AcceptTimeout /\ ~UserCommand
    BY DEF ClientWork, ClientFails, Connect, UserCommand, ClientSend, Greeted,
          ReplyOk, ReplyError, ReplyThrows, Accept, AcceptTimeout, AcceptPoll, RecvBlock,
          RecvThrows, WriteFails, RecvSpin, RecvDone, Drain, Exit, ExitDrain,
          ClientSignalled, ClientKilled, ClientVanishes, clientVars, CommandFails,
          WelcomeFails
  <1>2. CASE RecvDone
    <2>1. /\ command.type = "GET" /\ UNCHANGED <<command, local>> /\ cpc' = "drain"
      <3>1. report' = Verdict(bytesLeft) /\ UNCHANGED <<command, local>> /\ cpc' = "drain"
        BY <1>2 DEF RecvDone
      <3>2. command.type = "GET" \/ command.type = "LS"
        BY <1>2 DEF RecvDone, Asked
      <3>. QED
        BY <3>1, <3>2 DEF Verdict
    <2>2. command.file \in Files /\ local[command.file] = Contents(command.file)
      BY <1>1, <1>2, <2>1, DoneIsWhole
    <2>. QED
      BY <2>1, <2>2 DEF Reported, ReceivedIsWhole, Contents
  <1>3. CASE ~RecvDone
    <2>1. ~RecvThrows /\ ~ReplyError
      BY DEF RecvThrows, ReplyError, Verdict, Reported, StepInv, OpenInv, TypeInv, TypeOK,
             ClientTypeOK
    <2>2. report = "received"
      BY <1>1, <1>3, <2>1 DEF ClientWork, ClientFails, Connect, ClientSend, Greeted,
          ReplyOk, ReplyThrows, Accept, AcceptPoll, RecvBlock, WriteFails, RecvSpin,
          Drain, Exit, ExitDrain, ClientSignalled, ClientKilled, ClientVanishes,
          clientVars, CommandFails, WelcomeFails
    <2>3. /\ cpc \notin {"connect", "send", "reply", "accept", "recv"}
          /\ command.file \in Files /\ local[command.file] = Contents(command.file)
      BY <1>1, <2>2 DEF Reported, ReceivedIsWhole
    <2>4. /\ UNCHANGED <<command, local>>
          /\ cpc' \notin {"connect", "send", "reply", "accept", "recv"}
      <3>1. \/ Greeted \/ Drain \/ Exit \/ ExitDrain \/ CommandFails \/ ClientKilled
        BY <1>1, <1>3, <2>1, <2>3 DEF ClientWork, ClientFails, Connect, ClientSend,
          ReplyOk, ReplyThrows, Accept, AcceptPoll, RecvBlock, WriteFails, RecvSpin,
          ClientSignalled, WelcomeFails
      <3>2. after \in {"prompt", "exit"}
        BY DEF StepInv, OpenInv, TypeInv, TypeOK, ClientTypeOK
      <3>3. CASE Greeted \/ Exit \/ CommandFails \/ ClientKilled
        BY <3>3 DEF Greeted, Exit, CommandFails, ClientKilled, ClientVanishes
      <3>4. CASE Drain
        BY <2>3, <3>2, <3>4 DEF Drain
      <3>5. CASE ExitDrain
        BY <2>3, <3>5 DEF ExitDrain, ClientVanishes, clientVars
      <3>. QED
        BY <3>1, <3>3, <3>4, <3>5
    <2>. QED
      BY <2>3, <2>4 DEF Reported, ReceivedIsWhole, Contents
  <1>. QED
    BY <1>2, <1>3

LEMMA ClientAsked ==
  ASSUME TypeInv, Asked, ClientWork \/ UserCommand \/ ClientFails \/ ClientKilled
  PROVE  Asked'
  <1>. SUFFICES ASSUME cpc' \in {"reply", "accept", "recv"}
                PROVE  command'.type \in {"LS", "GET"}
    BY DEF Asked
  <1>1. CASE ClientSend
    BY <1>1 DEF ClientSend, NextAfterSend
  <1>2. CASE Drain
    BY <1>2 DEF Drain, TypeInv, TypeOK, ClientTypeOK
  <1>3. CASE ~ClientSend /\ ~Drain
    BY <1>3 DEF Asked, ClientWork, ClientFails, Connect, UserCommand, Greeted, ReplyOk,
          ReplyError, AfterError, ReplyThrows, Accept, AcceptTimeout, AcceptPoll, RecvBlock,
          RecvThrows, WriteFails, RecvSpin, RecvDone, Exit, ExitDrain, ClientSignalled,
          ClientKilled, ClientVanishes, clientVars, CommandFails, WelcomeFails
  <1>. QED
    BY <1>1, <1>2, <1>3

LEMMA WholeStep == WholeInv /\ [Next]_vars => WholeInv'
  <1>. SUFFICES ASSUME WholeInv, [Next]_vars PROVE WholeInv'
    OBVIOUS
  <1>1. StepInv /\ Data /\ Reported /\ Asked /\ TypeInv
    BY DEF WholeInv, StepInv, OpenInv
  <1>2. StepInv'
    BY <1>1, StepStep
  <1>3. CASE (ClientWork \/ UserCommand \/ ClientFails \/ ClientKilled)
             /\ UNCHANGED sessionVars
    <2>1. ASSUME Active' PROVE LaterUnused' /\ CountKept' /\ GetInv'
      <3>1. Active
        BY <1>1, <1>3, <2>1, ActiveStep
      <3>. QED
        BY <1>1, <1>3, <2>1, <3>1, ClientLater, ClientGet DEF Data
    <2>. QED
      BY <1>1, <1>2, <1>3, <2>1, ClientReported, ClientAsked DEF WholeInv, Data
  <1>4. CASE (SessionWork \/ StreamFails \/ ServerStops) /\ UNCHANGED clientVars
    <2>1. UNCHANGED <<cpc, command, after, gaveUp, got, bytesLeft, report, local>>
      BY <1>4 DEF clientVars
    <2>2. Active' <=> Active
      BY <2>1 DEF Active, Greeting, Quiet, Waiting
    <2>3. ASSUME Active PROVE LaterUnused' /\ CountKept' /\ GetInv'
      <3>1. LaterUnused' /\ GetInv'
        BY <1>1, <1>4, <2>3, SessionLater, SessionGet DEF Data
      <3>2. CountKept'
        BY <1>1, <2>1, <2>3 DEF Data, CountKept, ChunkLen
      <3>. QED
        BY <3>1, <3>2
    <2>4. Reported' /\ Asked'
      BY <1>1, <2>1 DEF Reported, ReceivedIsWhole, Contents, Asked
    <2>. QED
      BY <1>2, <2>2, <2>3, <2>4 DEF WholeInv, Data
  <1>5. CASE UNCHANGED vars
    <2>1. Data'
      BY <1>1, <1>5 DEF vars, netVars, clientVars, sessionVars, Data, Active, Greeting,
        Quiet, Waiting, LaterUnused, CountKept, GetInv, NotConnected, Accepted, OneRun,
        Received, StillToCome, Unused, seen, now, toClient, toServer, IsRun
    <2>2. Reported' /\ Asked'
      BY <1>1, <1>5 DEF vars, clientVars, Reported, ReceivedIsWhole, Contents, Asked
    <2>. QED
      BY <1>2, <2>1, <2>2 DEF WholeInv
  <1>. QED
    BY <1>3, <1>4, <1>5 DEF Next, Rest

(* As long as no LS gave up waiting, "Received ... successfully"           *)
(* (handle_get) is said of nothing but the whole file: every block of it,  *)
(* in order, and nothing else, is in the local file.                       *)
THEOREM FilesAreWhole == Spec => []ReceivedIsWholeInStep
  <1>1. WholeInv => ReceivedIsWholeInStep
    BY DEF WholeInv, Reported, ReceivedIsWholeInStep
  <1>. QED
    BY <1>1, InitWhole, WholeStep, PTL DEF Spec

-----------------------------------------------------------------------------
(* The client keeps the promise of FtpService: every step of the two       *)
(* programs is a step of it under the mapping of Ftp, or changes nothing   *)
(* of what the user sees.                                                  *)

(* The user is told the end of a command once, before its connections go.  *)
Told ==
  /\ cpc = "connect" => command.type = "HELLO"
  /\ cpc \in {"connect", "send", "reply", "accept", "recv"} => report = "none"
  /\ cpc = "drain" /\ after = "prompt" => report # "none"

PromiseInv == WholeInv /\ Told

LEMMA ClientTold ==
  ASSUME TypeInv, Told, ClientWork \/ UserCommand \/ ClientFails \/ ClientKilled
  PROVE  Told'
  <1>. USE DEF Told
  <1>1. after \in {"prompt", "exit"}
    BY DEF TypeInv, TypeOK, ClientTypeOK
  <1>2. CASE Connect \/ UserCommand \/ ClientSend \/ Greeted \/ ReplyOk \/ ReplyError
    BY <1>2 DEF Connect, UserCommand, ClientSend, NextAfterSend, Greeted, ReplyOk,
                ReplyError, AfterError
  <1>3. CASE ReplyThrows \/ Accept \/ AcceptTimeout \/ RecvBlock \/ WriteFails
    BY <1>3 DEF ReplyThrows, Accept, AcceptTimeout, RecvBlock, WriteFails
  <1>4. CASE RecvThrows \/ RecvDone
    BY <1>4 DEF RecvThrows, RecvDone, Verdict
  <1>5. CASE Drain
    BY <1>1, <1>5 DEF Drain
  <1>6. CASE AcceptPoll \/ RecvSpin
    BY <1>6 DEF AcceptPoll, RecvSpin, clientVars
  <1>7. CASE Exit \/ ExitDrain \/ ClientSignalled \/ ClientFails \/ ClientKilled
    BY <1>7 DEF Exit, ExitDrain, ClientSignalled, ClientFails, CommandFails, WelcomeFails,
                ClientKilled, ClientVanishes, clientVars
  <1>. QED
    BY <1>2, <1>3, <1>4, <1>5, <1>6, <1>7 DEF ClientWork

LEMMA PromiseStep == PromiseInv /\ [Next]_vars => PromiseInv'
  <1>. SUFFICES ASSUME PromiseInv, [Next]_vars PROVE Told'
    BY WholeStep DEF PromiseInv
  <1>1. Told /\ TypeInv
    BY DEF PromiseInv, WholeInv, StepInv, OpenInv
  <1>2. CASE UNCHANGED clientVars
    BY <1>1, <1>2 DEF Told, clientVars
  <1>. QED
    BY <1>1, <1>2, ClientTold DEF Next, Rest, vars

-----------------------------------------------------------------------------
LEMMA ContentsLemma ==
  ASSUME NEW f \in Files
  PROVE  /\ FileLen[f] \in Nat /\ Len(Contents(f)) = FileLen[f]
         /\ \A k \in 1 .. FileLen[f] : Contents(f)[k] = [of |-> f, at |-> k]
  <1>1. FileLen[f] \in Nat
    OBVIOUS
  <1>. QED
    BY <1>1 DEF Contents

(* What a step of the client is to its user.                               *)
LEMMA ClientServes ==
  ASSUME PromiseInv, PromiseInv',
         ClientWork \/ UserCommand \/ ClientFails \/ ClientKilled
  PROVE  Service!Next \/ UNCHANGED Service!serviceVars
  <1>. USE DEF Service!Next
  <1>. DEFINE Same == UNCHANGED Service!serviceVars
  <1>1. TypeInv /\ Told /\ Data /\ Asked
    BY DEF PromiseInv, WholeInv, StepInv, OpenInv
  <1>2. /\ cpc \in ClientPhase /\ after \in {"prompt", "exit"}
        /\ local \in [Names -> Seq(Block)] /\ command \in Message
    BY <1>1 DEF TypeInv, TypeOK, ClientTypeOK
  <1>3. CASE Connect
    <2>1. CASE cpc' = "send"
      <3>1. Same
        BY <1>1, <1>3, <2>1 DEF Connect, Status, Service!serviceVars, Told
      <3>. QED
        BY <3>1
    <2>2. CASE cpc' = "gone"
      <3>1. Service!Stop
        BY <1>3, <2>2 DEF Connect, Status, Service!Stop
      <3>. QED
        BY <3>1
    <2>. QED
      BY <1>3, <2>1, <2>2 DEF Connect
  <1>4. CASE UserCommand
    <2>1. Service!Ask
      BY <1>4 DEF UserCommand, MakeMsg, Status, Service!Ask
    <2>. QED
      BY <2>1
  <1>5. CASE ClientSend
    <2>1. /\ cpc = "send" /\ UNCHANGED <<command, local, report, gaveUp>>
          /\ cpc' = "exit" \/ cpc' = NextAfterSend
      BY <1>5 DEF ClientSend
    <2>2. CASE cpc' = "exit"
      <3>1. Service!Stop
        BY <2>1, <2>2 DEF Status, Service!Stop
      <3>. QED
        BY <3>1
    <2>3. CASE cpc' # "exit"
      <3>1. Same
        BY <2>1, <2>3 DEF NextAfterSend, Status, Service!serviceVars
      <3>. QED
        BY <3>1
    <2>. QED
      BY <2>2, <2>3
  <1>6. CASE Greeted
    <2>1. Service!Start \/ Service!Stop
      BY <1>6 DEF Greeted, Status, Service!Start, Service!Stop
    <2>. QED
      BY <2>1
  <1>7. CASE ReplyOk \/ AcceptPoll \/ RecvSpin \/ WriteFails
    <2>1. Same
      BY <1>7 DEF ReplyOk, AcceptPoll, RecvSpin, WriteFails, clientVars, Status,
                  Service!serviceVars
    <2>. QED
      BY <2>1
  <1>8. CASE ReplyError
    <2>1. Service!Tell
      BY <1>1, <1>8 DEF ReplyError, AfterError, Told, Status, Service!Tell,
                        Service!Outcomes
    <2>. QED
      BY <2>1
  <1>9. CASE ReplyThrows
    <2>1. Same \/ Service!Stop
      BY <1>9 DEF ReplyThrows, Status, Service!serviceVars, Service!Stop
    <2>. QED
      BY <2>1
  <1>10. CASE AcceptTimeout
    <2>1. Service!GiveUp
      BY <1>10 DEF AcceptTimeout, Status, Service!GiveUp
    <2>. QED
      BY <2>1
  <1>11. CASE Drain
    <2>1. Same \/ Service!Return \/ Service!Stop
      BY <1>1, <1>2, <1>11 DEF Drain, Told, Status, Service!serviceVars, Service!Return,
                               Service!Stop
    <2>. QED
      BY <2>1
  <1>12. CASE Exit \/ ExitDrain
    <2>1. Same
      BY <1>12 DEF Exit, ExitDrain, ClientVanishes, clientVars, Status, Service!serviceVars
    <2>. QED
      BY <2>1
  <1>13. CASE ClientSignalled \/ ClientKilled \/ ClientFails
    <2>1. /\ UNCHANGED <<command, local, report, gaveUp>>
          /\ cpc' \in {"exit", "gone"}
      BY <1>13 DEF ClientSignalled, ClientKilled, ClientVanishes, ClientFails, CommandFails,
                   WelcomeFails
    <2>2. Same \/ Service!Stop
      BY <2>1 DEF Status, Service!serviceVars, Service!Stop
    <2>. QED
      BY <2>2
  <1>14. CASE RecvThrows
    <2>1. Same \/ Service!Tell
      BY <1>1, <1>2, <1>14 DEF RecvThrows, Verdict, Told, Status, Service!serviceVars,
           Service!Tell, Service!Outcomes, TypeInv, TypeOK, ClientTypeOK
    <2>. QED
      BY <2>1
  <1>15. CASE RecvDone
    <2>1. /\ report = "none" /\ report' = Verdict(bytesLeft) /\ bytesLeft = 0
          /\ cpc = "recv" /\ cpc' = "drain" /\ UNCHANGED <<command, local, gaveUp>>
          /\ command.type \in {"LS", "GET"}
      BY <1>1, <1>15 DEF RecvDone, Told, Asked
    <2>2. ~gaveUp /\ command.type = "GET" => local[command.file] = Contents(command.file)
      BY <1>15, DoneIsWhole DEF PromiseInv, WholeInv
    <2>3. Service!Tell
      BY <2>1, <2>2 DEF Verdict, Status, Service!Tell, Service!Outcomes
    <2>. QED
      BY <2>3
  <1>16. CASE Accept
    <2>1. cpc = "accept" /\ report = "none" /\ UNCHANGED <<command, gaveUp>>
      BY <1>1, <1>16 DEF Accept, Told
    <2>2. CASE command.type = "LS"
      <3>1. Same
        BY <1>16, <2>2 DEF Accept, Status, Service!serviceVars
      <3>. QED
        BY <3>1
    <2>3. CASE command.type = "GET" /\ cpc' = "drain"
      <3>1. Service!Tell
        BY <1>16, <2>1, <2>3 DEF Accept, Status, Service!Tell, Service!Outcomes
      <3>. QED
        BY <3>1
    <2>4. CASE command.type = "GET" /\ cpc' = "recv"
      <3>1. local' = [local EXCEPT ![command.file] = << >>] /\ UNCHANGED report
        BY <1>16, <2>4 DEF Accept
      <3>2. CASE command.file \notin Names
        <4>1. local' = local
          BY <1>2, <3>1, <3>2
        <4>2. Same
          BY <2>1, <2>4, <3>1, <4>1 DEF Status, Service!serviceVars
        <4>. QED
          BY <4>2
      <3>3. CASE command.file \in Names
        <4>1. /\ local'[command.file] = << >>
              /\ \A g \in Names \ {command.file} : local'[g] = local[g]
          BY <1>2, <3>1, <3>3
        <4>2. ASSUME ~gaveUp
              PROVE  command.file \in Files /\ Len(Contents(command.file)) \in Nat
          <5>1. OneRun
            BY <1>1, <2>1, <2>4, <4>2 DEF Data, Active, Quiet, GetInv, Accepted
          <5>. QED
            BY <5>1, ContentsLemma DEF OneRun
        <4>3. Len(<< >>) = 0 /\ \A k \in 1 .. Len(<< >>) : FALSE
          OBVIOUS
        <4>4. Service!Copy
          BY <2>1, <2>4, <3>1, <4>1, <4>2, <4>3 DEF Status, Service!Copy
        <4>. QED
          BY <4>4
      <3>. QED
        BY <3>2, <3>3
    <2>. QED
      BY <1>16, <2>2, <2>3, <2>4 DEF Accept
  <1>17. CASE RecvBlock
    <2>1. /\ cpc = "recv" /\ report = "none"
          /\ UNCHANGED <<cpc, command, report, gaveUp>>
          /\ command.type \in {"LS", "GET"}
      BY <1>1, <1>17 DEF RecvBlock, Told, Asked
    <2>2. CASE command.type = "LS" \/ command.file \notin Names
      <3>1. local' = local
        BY <1>2, <1>17, <2>2 DEF RecvBlock
      <3>2. Same
        BY <2>1, <3>1 DEF Status, Service!serviceVars
      <3>. QED
        BY <3>2
    <2>3. CASE command.type = "GET" /\ command.file \in Names
      <3>. DEFINE f == command.file
                  r == local[f]
                  c == local'[f]
      <3>1. PICK b : local' = [local EXCEPT ![f] = Append(r, b)] /\ b \in Block
        <4>1. cdata \in Ids /\ chan[cdata] \in Conn(Block)
              /\ Readable(chan[cdata], "client")
          BY <1>1, <1>17, <2>1
          DEF TypeInv, TypeOK, NetTypeOK, ReadsData, RecvBlock
        <4>2. Head(chan[cdata].inbox["client"]) \in Block
          BY <4>1, TakeLemma DEF Ends
        <4>. QED
          BY <1>17, <2>3, <4>2 DEF RecvBlock
      <3>2. \A g \in Names \ {f} : local'[g] = local[g]
        BY <1>2, <3>1
      <3>3. Len(c) = Len(r) + 1 /\ \A k \in 1 .. Len(r) : c[k] = r[k]
        <4>1. r \in Seq(Block) /\ c = Append(r, b)
          BY <1>2, <2>3, <3>1
        <4>. QED
          BY <3>1, <4>1
      <3>4. ASSUME ~gaveUp
            PROVE  /\ f \in Files /\ Len(c) <= Len(Contents(f))
                   /\ \A k \in 1 .. Len(c) : c[k] = Contents(f)[k]
        <4>1. OneRun' /\ CountKept' /\ TypeInv'
          BY <2>1, <2>3, <3>4
          DEF PromiseInv, WholeInv, StepInv, OpenInv, Data, Active, Quiet, GetInv, Accepted
        <4>2. f \in Files /\ IsRun(c, f, 0) /\ Len(c) + bytesLeft' = FileLen[f] + got'
          BY <2>1, <4>1 DEF OneRun, Received, StillToCome
        <4>3. /\ bytesLeft' \in Nat /\ got' \in Nat /\ Len(c) \in Nat
              /\ got' = 0 \/ got' < bytesLeft'
          <5>1. c \in Seq(Block)
            BY <2>3, <4>1 DEF TypeInv, TypeOK, ClientTypeOK
          <5>. QED
            BY <2>1, <4>1, <5>1 DEF CountKept, TypeInv, TypeOK, ClientTypeOK
        <4>. HIDE DEF c
        <4>4. /\ FileLen[f] \in Nat /\ Len(Contents(f)) = FileLen[f]
              /\ \A k \in 1 .. FileLen[f] : Contents(f)[k] = [of |-> f, at |-> k]
          BY <4>2, ContentsLemma
        <4>5. Len(c) <= FileLen[f]
          BY <4>2, <4>3, <4>4
        <4>6. \A k \in 1 .. Len(c) : c[k] = [of |-> f, at |-> k]
          BY <4>2, <4>3 DEF IsRun
        <4>7. 1 .. Len(c) \subseteq 1 .. FileLen[f]
          <5>1. PICK n \in Nat, x \in Nat : n = Len(c) /\ x = FileLen[f]
            BY <4>3, <4>4, Zenon
          <5>2. n <= x
            BY <4>5, <5>1, Zenon
          <5>3. 1 .. n \subseteq 1 .. x
            BY <5>2
          <5>. QED
            BY <5>1, <5>3, Zenon
        <4>8. \A k \in 1 .. Len(c) : c[k] = Contents(f)[k]
          BY <4>4, <4>6, <4>7, Zenon
        <4>9. Len(c) <= Len(Contents(f))
          BY <4>4, <4>5, Zenon
        <4>. QED
          BY <4>2, <4>8, <4>9
      <3>5. Service!Copy
        BY <2>1, <2>3, <3>2, <3>3, <3>4 DEF Status, Service!Copy
      <3>. QED
        BY <3>5
    <2>. QED
      BY <2>1, <2>2, <2>3
  <1>. QED
    BY <1>3, <1>4, <1>5, <1>6, <1>7, <1>8, <1>9, <1>10, <1>11, <1>12, <1>13, <1>14, <1>15,
       <1>16, <1>17 DEF ClientWork

(* Client and session together keep the promise of FtpService to the user. *)
(* main, run_client and the two handlers of Client.cpp do one command at a *)
(* time, replace only the local copy a GET names, by a prefix of the       *)
(* server's file, and say "received" of the whole file alone.              *)
THEOREM PromiseIsKept == Spec => KeepsPromise
  <1>1. Init => PromiseInv
    BY InitWhole DEF PromiseInv, Told, Init, ClientInit, Hello, MakeMsg
  <1>2. Init => Service!Init
    BY DEF Init, ClientInit, Service!Init, Status
  <1>3. PromiseInv /\ [Next]_vars => PromiseInv'
    BY PromiseStep
  <1>4. PromiseInv /\ PromiseInv' /\ [Next]_vars => [Service!Next]_(Service!serviceVars)
    <2>1. UNCHANGED clientVars => UNCHANGED Service!serviceVars
      BY DEF clientVars, Status, Service!serviceVars
    <2>. QED
      BY <2>1, ClientServes DEF Next, Rest, vars
  <1>. QED
    BY <1>1, <1>2, <1>3, <1>4, PTL DEF Spec, KeepsPromise, Service!Spec

-----------------------------------------------------------------------------
(* What leads back to the prompt has told the user how the command ended.  *)
EndTold == OnlyListingsEndSilently /\ (cpc = "greet" => command.type = "HELLO")

LEMMA EndToldStep ==
  ASSUME TypeInv, Told, EndTold, ClientWork \/ UserCommand \/ ClientFails \/ ClientKilled
  PROVE  EndTold'
  <1>. USE DEF EndTold, OnlyListingsEndSilently
  <1>1. CASE Greeted
    BY <1>1 DEF Greeted
  <1>2. CASE ReplyError
    BY <1>2 DEF ReplyError, AfterError
  <1>3. CASE AcceptTimeout
    BY <1>3 DEF AcceptTimeout
  <1>4. CASE Drain
    <2>1. cpc = "drain" /\ cpc' \in {"drain", after} /\ UNCHANGED <<command, report, after>>
      BY <1>4 DEF Drain
    <2>2. after \in {"prompt", "exit"} /\ (after = "prompt" => report # "none")
      BY <2>1 DEF Told, TypeInv, TypeOK, ClientTypeOK
    <2>. QED
      BY <2>1, <2>2
  <1>5. CASE ClientSend
    <2>1. /\ cpc' \in {"exit", NextAfterSend} /\ UNCHANGED command
          /\ NextAfterSend # "prompt" /\ (NextAfterSend = "greet" => command.type = "HELLO")
      BY <1>5 DEF ClientSend, NextAfterSend
    <2>. QED
      BY <2>1
  <1>6. CASE AcceptPoll \/ RecvSpin
    BY <1>6 DEF AcceptPoll, RecvSpin, clientVars
  <1>7. ASSUME cpc' \notin {"prompt", "greet"} PROVE EndTold'
    BY <1>7
  <1>8. ASSUME UNCHANGED clientVars PROVE EndTold'
    BY <1>8 DEF clientVars
  <1>9. CASE Connect \/ UserCommand \/ ReplyOk \/ ReplyThrows \/ Accept
    BY <1>7, <1>9 DEF Connect, UserCommand, ReplyOk, ReplyThrows, Accept
  <1>10. CASE RecvBlock \/ RecvThrows \/ WriteFails \/ RecvDone
    BY <1>7, <1>10 DEF RecvBlock, RecvThrows, WriteFails, RecvDone
  <1>11. CASE Exit \/ ExitDrain \/ ClientSignalled \/ ClientFails \/ ClientKilled
    BY <1>7, <1>8, <1>11 DEF Exit, ExitDrain, ClientSignalled, ClientFails, CommandFails,
                             WelcomeFails, ClientKilled, ClientVanishes
  <1>. QED
    BY <1>1, <1>2, <1>3, <1>4, <1>5, <1>6, <1>9, <1>10, <1>11 DEF ClientWork

LEMMA EndToldHolds == PromiseInv /\ EndTold /\ [Next]_vars => EndTold'
  <1>. SUFFICES ASSUME PromiseInv, EndTold, [Next]_vars PROVE EndTold'
    OBVIOUS
  <1>1. Told /\ TypeInv
    BY DEF PromiseInv, WholeInv, StepInv, OpenInv
  <1>2. CASE UNCHANGED clientVars
    BY <1>2 DEF EndTold, OnlyListingsEndSilently, clientVars
  <1>3. CASE ClientWork \/ UserCommand \/ ClientFails \/ ClientKilled
    BY <1>1, <1>3, EndToldStep
  <1>. QED
    BY <1>2, <1>3 DEF Next, Rest, vars

(* Back at the prompt, every GET has said how it ended, and every LS but   *)
(* one that ran into the time limit of its welcome (handle_ls:250).    *)
THEOREM EndsAreTold == Spec => []OnlyListingsEndSilently
  <1>1. Init => PromiseInv /\ EndTold
    <2>1. Init => PromiseInv
      BY InitWhole DEF PromiseInv, Told, Init, ClientInit, Hello, MakeMsg
    <2>2. Init => EndTold
      BY DEF EndTold, OnlyListingsEndSilently, Init, ClientInit
    <2>. QED
      BY <2>1, <2>2
  <1>2. PromiseInv /\ EndTold /\ [Next]_vars => (PromiseInv /\ EndTold)'
    BY PromiseStep, EndToldHolds
  <1>3. EndTold => OnlyListingsEndSilently
    BY DEF EndTold
  <1>. QED
    BY <1>1, <1>2, <1>3, PTL DEF Spec

=============================================================================
