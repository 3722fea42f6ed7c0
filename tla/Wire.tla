-------------------------------- MODULE Wire --------------------------------
(***************************************************************************)
(* Messages as bytes: commands of the client and the replies of the        *)
(* handlers of ClientSession, with the fields they give a message, the     *)
(* limit of send and the decoding of receive.  Pieces of a message are the *)
(* subject of Receive, a sent message is there here.                       *)
(***************************************************************************)
EXTENDS ByteOrder

CONSTANTS
  LenBytes, DataBytes, PortBytes,  \* bytes of msglen, datalen and port
  MaxPayload,                      \* MAX_PAYLOAD_LEN
  NameLens, Sizes, Ports,          \* lengths of names; files; ports (bounds)
  Frame                            \* characters a reply adds to a name

MESSAGE_BYTE_LEN == 1 + LenBytes + DataBytes + PortBytes

MSGID == [LS |-> 1, GET |-> 2, PUT |-> 3, QUIT |-> 4, OK |-> 5, ERROR |-> 6]

MSGECODE == [FAILED_TO_OPEN |-> 1, DOES_NOT_EXIST |-> 2, INVALID_FILENAME |-> 3,
             NOT_A_FILE |-> 4, ALREADY_EXISTS |-> 5, UNKNOWN |-> 7]

(* An id or an error code is a byte, and the longest message, of 1037      *)
(* bytes, has a length that msglen, a uint16_t, can hold.                  *)
ASSUME WireAssumption ==
  /\ {LenBytes, DataBytes, PortBytes} \subseteq Nat \ {0}
  /\ MaxPayload \in Nat /\ Frame \in Nat /\ NameLens \subseteq Nat
  /\ Sizes \subseteq 0 .. Values(DataBytes) - 1 /\ Sizes # {}
  /\ Ports \subseteq 0 .. Values(PortBytes) - 1
  /\ MSGECODE.UNKNOWN \in Byte
  /\ MESSAGE_BYTE_LEN + MaxPayload < Values(LenBytes)

VARIABLES
  order,      \* byte orders of the client's and the server's host
  phase,      \* "prompt", "sent", "asked", "answered", or "over"
  command,    \* the Message the client sends
  asked,      \* the one the server receives
  answer,     \* the one the server sends
  answered,   \* the one the client receives
  wire,       \* the bytes on their way
  ended       \* what ended the exchange: "quit"; send of the "client" or of the
              \* server ("refused"); "silent": no answer; "unexpected"; or "no"

vars == <<order, phase, command, asked, answer, answered, wire, ended>>

\* Mutant: only the payload is counted.
MessageLength_Payload(payload) == Len(payload)

(* Message::length, a uint16_t.                                            *)
MessageLength(payload) == (MESSAGE_BYTE_LEN + Len(payload)) % Values(LenBytes)

(* port and ecode share their bytes, so one field stands for both.         *)
Message(id, datalen, port, payload) ==
  [msgid |-> id, msglen |-> MessageLength(payload), datalen |-> datalen,
   port |-> port, payload |-> payload]

Emsg(code, payload) == Message(MSGID.ERROR, 0, code, payload)
Ok(datalen)         == Message(MSGID.OK, datalen, 0, << >>)

NoMsg == Message(MSGID.ERROR, 0, 0, << >>)    \* ZERO_MSG, but for its msglen

Name(n)    == [i \in 1 .. n |-> i % Base]
Framed(s)  == [i \in 1 .. Frame |-> 0] \o s
Names      == {Name(n) : n \in NameLens}
Goodbye    == Name(1)

Init ==
  /\ order \in [{"client", "server"} -> Orders]
  /\ phase = "prompt" /\ ended = "no"
  /\ command = NoMsg /\ asked = NoMsg /\ answer = NoMsg /\ answered = NoMsg
  /\ wire = << >>

-----------------------------------------------------------------------------
(* operator<< of the fields, with length() for msglen, and the payload.    *)
Bytes(m, host) ==
  Inserted(m.msgid, 1, host) \o Inserted(MessageLength(m.payload), LenBytes, host)
    \o Inserted(m.datalen, DataBytes, host) \o Inserted(m.port, PortBytes, host)
    \o m.payload

\* Mutant: a payload of exactly the limit is refused.
Fits_Below(payload) == Len(payload) < MaxPayload

(* send refuses a longer payload with invalid_argument.                    *)
Fits(payload) == Len(payload) <= MaxPayload

Slice(bytes, from, n) == SubSeq(bytes, from + 1, from + n)

\* Mutant: port and datalen are extracted in the wrong order.
PortAt_BeforeData == 1 + LenBytes

PortAt == 1 + LenBytes + DataBytes

(* operator>> of a MSGID takes one byte, which has no order.               *)
IdOf(bytes) == bytes[1]

(* receive: the header says how many bytes the message has.                *)
Parsed(bytes, host) ==
  LET msglen == Extracted(Slice(bytes, 1, LenBytes), host)
  IN [msgid   |-> IdOf(bytes),
      msglen  |-> msglen,
      datalen |-> Extracted(Slice(bytes, 1 + LenBytes, DataBytes), host),
      port    |-> Extracted(Slice(bytes, PortAt, PortBytes), host),
      payload |-> Slice(bytes, MESSAGE_BYTE_LEN, msglen - MESSAGE_BYTE_LEN)]

(* The commands: handle_ls, handle_get and handle_put send the port of     *)
(* their listening socket; handle_put checks the name before.              *)
Commands ==
  {Message(MSGID.LS, 0, p, << >>) : p \in Ports}
    \cup {Message(MSGID.GET, 0, p, n) : p \in Ports, n \in Names}
    \cup {Message(MSGID.PUT, s, p, n) : s \in Sizes, p \in Ports, n \in Names \ {<< >>}}
    \cup {Message(MSGID.QUIT, 0, 0, Goodbye)}

(* The user gives a command.  A name too long for a message ends the       *)
(* client with the exception of send.                                      *)
SendCommand ==
  /\ phase = "prompt"
  /\ \E m \in Commands :
       /\ command' = m
       /\ IF Fits(m.payload)
            THEN phase' = "sent" /\ wire' = Bytes(m, order["client"]) /\ UNCHANGED ended
            ELSE phase' = "over" /\ ended' = "client" /\ UNCHANGED wire
  /\ asked' = NoMsg /\ answer' = NoMsg /\ answered' = NoMsg
  /\ UNCHANGED order

ReceiveCommand ==
  /\ phase = "sent"
  /\ asked' = Parsed(wire, order["server"])
  /\ wire' = << >> /\ phase' = "asked"
  /\ UNCHANGED <<order, command, answer, answered, ended>>

(* What each handler may answer.  An error of a GET repeats the name, or is*)
(* none: the response was not initialized, and is sent as it was found if  *)
(* it happens to be an ERROR.  A PUT gets its error code only.             *)
Answers(m) ==
  CASE m.msgid = MSGID.LS  -> {Ok(s) : s \in Sizes}
    [] m.msgid = MSGID.GET ->
         IF m.payload = << >>
           THEN {Emsg(MSGECODE.INVALID_FILENAME, << >>)}
           ELSE {Ok(s) : s \in Sizes}
                  \cup {Emsg(MSGECODE[e], Framed(m.payload)) :
                          e \in {"INVALID_FILENAME", "DOES_NOT_EXIST", "NOT_A_FILE"}}
                  \cup {Emsg(MSGECODE.UNKNOWN, Framed(<< >>))}
                  \cup {Message(MSGID.ERROR, s, p, << >>) : s \in Sizes, p \in Ports}
    [] m.msgid = MSGID.PUT ->
         {Ok(0)} \cup {Emsg(MSGECODE[e], << >>) :
                         e \in {"ALREADY_EXISTS", "INVALID_FILENAME", "FAILED_TO_OPEN"}}
    [] OTHER -> {}

(* The handler answers.  The exception of send is no ConnectionException:  *)
(* it passes the handler and ends the session.                             *)
SendAnswer ==
  /\ phase = "asked"
  /\ \E m \in Answers(asked) :
       /\ answer' = m
       /\ IF Fits(m.payload)
            THEN phase' = "answered" /\ wire' = Bytes(m, order["server"]) /\ UNCHANGED ended
            ELSE phase' = "over" /\ ended' = "refused" /\ UNCHANGED wire
  /\ UNCHANGED <<order, command, asked, answered>>

(* No answer at all: handle_ls and handle_get connect before they answer,  *)
(* and connect may throw; so may the directory of handle_ls, and fs::exists*)
(* of a name (one the file system finds too long, for instance) in the two *)
(* others.  The session goes on after a failed connect of handle_get only, *)
(* but the client has stopped waiting by then.                             *)
Unanswered ==
  /\ phase = "asked"
  /\ \/ asked.msgid = MSGID.LS
     \/ asked.msgid \in {MSGID.GET, MSGID.PUT} /\ asked.payload # << >>
  /\ phase' = "over" /\ ended' = "silent"
  /\ UNCHANGED <<order, command, asked, answer, answered, wire>>

(* handle_quit does not answer; any other message ends the session too.    *)
EndSession ==
  /\ phase = "asked" /\ Answers(asked) = {}
  /\ phase' = "over" /\ ended' = IF asked.msgid = MSGID.QUIT THEN "quit" ELSE "unexpected"
  /\ UNCHANGED <<order, command, asked, answer, answered, wire>>

ReceiveAnswer ==
  /\ phase = "answered"
  /\ answered' = Parsed(wire, order["client"])
  /\ wire' = << >> /\ phase' = "prompt"
  /\ UNCHANGED <<order, command, asked, answer, ended>>

Next ==
  \/ SendCommand \/ ReceiveCommand
  \/ SendAnswer \/ Unanswered \/ EndSession
  \/ ReceiveAnswer

Spec == Init /\ [][Next]_vars

-----------------------------------------------------------------------------
(* A message arrives with every field it was sent with, whatever the byte  *)
(* orders of the two hosts, and the client's errors are the server's.      *)
MessagesArrive ==
  /\ phase = "asked" => asked = command
  /\ phase = "prompt" => answered = answer

(* What receive relies on when it asks for the rest of a message: the      *)
(* msglen in the header is the number of bytes sent, at most the limit.    *)
LengthIsWhole ==
  wire # << >> =>
    /\ Number(Slice(wire, 1, LenBytes)) = Len(wire)
    /\ Len(wire) <= MESSAGE_BYTE_LEN + MaxPayload

(* "the client is waiting on an OK or ERROR message" (ClientSession.cpp:   *)
(* 156), and send may refuse it: but only the error of a GET, never an OK  *)
(* nor an answer to LS or PUT, and only for a name that was short enough   *)
(* to be sent and leaves no room for the words of the error (167-187).     *)
OnlyLongNamesRefused ==
  ended = "refused" =>
    /\ asked.msgid = MSGID.GET /\ answer.msgid = MSGID.ERROR
    /\ Len(asked.payload) <= MaxPayload /\ Len(asked.payload) + Frame > MaxPayload

=============================================================================
