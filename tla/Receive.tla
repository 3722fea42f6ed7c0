------------------------------ MODULE Receive ------------------------------
(***************************************************************************)
(* Connection::receive: how a message is put together from the bytes of    *)
(* the control connection.  The peer sends whole messages, a header of     *)
(* HeaderLen bytes and a payload; they arrive in any pieces.  The header   *)
(* is read with the caller's time limit, the rest without one.             *)
(*                                                                         *)
(* A byte is known by its position in the stream, so a message is known by *)
(* the position at which it ends.  The bytes base+1 .. read are those that *)
(* the call in progress has put into its NetworkDataStream.                *)
(***************************************************************************)
EXTENDS Integers, Sequences

CONSTANTS
  HeaderLen,   \* MESSAGE_BYTE_LEN
  MaxPayload,  \* MAX_PAYLOAD_LEN
  MaxSent,     \* messages the peer sends (bound)
  Endings      \* how the connection may end

ASSUME ReceiveAssumption ==
  /\ HeaderLen \in Nat \ {0}
  /\ MaxPayload \in Nat
  /\ MaxSent \in Nat
  /\ Endings \subseteq {"closed", "reset", "silent"}

VARIABLES
  ends,      \* ends[i]: the position of the last byte of message i
  arrived,   \* bytes that have reached the receiver's kernel
  link,      \* "up", or how the connection ended
  rpc,       \* "idle", "header", "body", or "failed": an exception was thrown
  timed,     \* timeoutMs of the call is not TIMEOUT_NEVER
  base,      \* position at which the stream of the call begins
  read,      \* bytes recv has returned
  howMany,   \* bytes the receive in progress still wants
  total,     \* totalBytes of the receive in progress
  timedOut,  \* internalTimeout
  msglen,    \* the length the header announced
  delivered  \* the messages returned to the caller, by number

peerVars == <<ends, arrived, link>>
callVars == <<rpc, timed, base, read, howMany, total, timedOut, msglen, delivered>>
vars == <<peerVars, callVars>>

Busy == rpc \in {"header", "body"}

(* Position p is where message i begins.                                   *)
EndOf(i)     == IF i = 0 THEN 0 ELSE ends[i]
Begins(i, p) == i \in 1 .. Len(ends) /\ EndOf(i - 1) = p

(* What the bytes after position p say msglen is: the length of the message*)
(* that begins there, or anything if none does.                            *)
LengthsAt(p) ==
  IF \E i \in 1 .. Len(ends) : Begins(i, p)
    THEN {ends[i] - p : i \in {j \in 1 .. Len(ends) : Begins(j, p)}}
    ELSE 0 .. HeaderLen + MaxPayload

(* The message those bytes decode to; 0 if they are not a message's.       *)
MessageAt(p) ==
  IF \E i \in 1 .. Len(ends) : Begins(i, p)
    THEN CHOOSE i \in 1 .. Len(ends) : Begins(i, p) ELSE 0

Init ==
  /\ ends = << >> /\ arrived = 0 /\ link = "up"
  /\ rpc = "idle" /\ timed = FALSE /\ base = 0 /\ read = 0
  /\ howMany = 0 /\ total = 0 /\ timedOut = FALSE /\ msglen = 0
  /\ delivered = << >>

-----------------------------------------------------------------------------
(* Connection::send of a message; ::send takes it whole.                   *)
PeerSends ==
  /\ link = "up"
  /\ Len(ends) < MaxSent
  /\ \E payload \in 0 .. MaxPayload :
       ends' = Append(ends, EndOf(Len(ends)) + HeaderLen + payload)
  /\ UNCHANGED <<arrived, link, callVars>>

(* A piece of the stream arrives.                                          *)
Arrive ==
  /\ link = "up"
  /\ \E upTo \in arrived + 1 .. EndOf(Len(ends)) : arrived' = upTo
  /\ UNCHANGED <<ends, link, callVars>>

(* The peer ends, or the network does; what has not arrived is lost.       *)
PeerEnds ==
  /\ link = "up"
  /\ link' \in Endings
  /\ UNCHANGED <<ends, arrived, callVars>>

-----------------------------------------------------------------------------
(* The message receive begins: ZERO_MSG, a fresh stream, the header first. *)
Call ==
  /\ rpc = "idle"
  /\ rpc' = "header"
  /\ timed' \in BOOLEAN
  /\ base' = read
  /\ howMany' = HeaderLen
  /\ total' = 0
  /\ timedOut' = FALSE
  /\ msglen' = 0
  /\ UNCHANGED <<peerVars, read, delivered>>

(* recv returns what has arrived, as far as it was asked for.              *)
TakeBytes ==
  /\ Busy /\ howMany > 0 /\ read < arrived
  /\ \E n \in {IF howMany < arrived - read THEN howMany ELSE arrived - read} :
       /\ read' = read + n
       /\ howMany' = howMany - n
       /\ total' = total + n
  /\ timedOut' = FALSE
  /\ UNCHANGED <<peerVars, rpc, timed, base, msglen, delivered>>

\* Mutant: a timeout after the first byte ends the call too.
AfterTimeout_AnyTime == "idle"

\* Mutant: the break of line 222 is missing.
AfterTimeout_Never == rpc

(* The break of receive, then the return of 0 by receive of the message.   *)
AfterTimeout == IF total = 0 THEN "idle" ELSE rpc

(* select gives up: before the first byte the call returns without a       *)
(* message, later the loop asks again.                                     *)
TimesOut ==
  /\ rpc = "header" /\ timed /\ howMany > 0
  /\ read = arrived /\ link \in {"up", "silent"}
  /\ timedOut' = TRUE
  /\ rpc' = AfterTimeout
  /\ UNCHANGED <<peerVars, timed, base, read, howMany, total, msglen, delivered>>

(* recv returns 0: before the first byte of this receive the client "has   *)
(* disconnected unexpectedly", later the loop asks again.                  *)
EndOfStream ==
  /\ Busy /\ howMany > 0 /\ read = arrived /\ link = "closed"
  /\ timedOut' = FALSE
  /\ rpc' = IF total = 0 THEN "failed" ELSE rpc
  /\ UNCHANGED <<peerVars, timed, base, read, howMany, total, msglen, delivered>>

(* recv returns SOCKET_ERROR.                                              *)
RecvFails ==
  /\ Busy /\ howMany > 0 /\ read = arrived /\ link = "reset"
  /\ rpc' = "failed"
  /\ UNCHANGED <<peerVars, timed, base, read, howMany, total, timedOut, msglen, delivered>>

(* The header is complete: msglen says how much more there is to read.     *)
HeaderDone ==
  /\ rpc = "header" /\ howMany = 0
  /\ rpc' = "body"
  /\ msglen' \in LengthsAt(base)
  /\ howMany' = msglen' - HeaderLen
  /\ total' = 0
  /\ timedOut' = FALSE
  /\ UNCHANGED <<peerVars, timed, base, read, delivered>>

(* The rest is complete: a message of another length than announced throws,*)
(* any other is decoded and returned.                                      *)
BodyDone ==
  /\ rpc = "body" /\ howMany <= 0
  /\ LET complete == HeaderLen + total = msglen
     IN /\ rpc' = IF complete THEN "idle" ELSE "failed"
        /\ delivered' = IF complete THEN Append(delivered, MessageAt(base)) ELSE delivered
  /\ UNCHANGED <<peerVars, timed, base, read, howMany, total, timedOut, msglen>>

ReceiveStep ==
  TakeBytes \/ TimesOut \/ EndOfStream \/ RecvFails \/ HeaderDone \/ BodyDone

Next == PeerSends \/ Arrive \/ PeerEnds \/ Call \/ ReceiveStep

Spec == Init /\ [][Next]_vars

(* The thread runs, and a connection that is up carries its bytes.         *)
FairSpec == Spec /\ WF_vars(ReceiveStep) /\ WF_vars(Arrive)

-----------------------------------------------------------------------------
TypeOK ==
  /\ ends \in Seq(Nat) /\ arrived \in Nat /\ link \in {"up"} \cup Endings
  /\ rpc \in {"idle", "header", "body", "failed"} /\ timed \in BOOLEAN
  /\ base \in Nat /\ read \in Nat /\ howMany \in Int /\ total \in Nat
  /\ timedOut \in BOOLEAN /\ msglen \in Nat /\ delivered \in Seq(1 .. Len(ends))

(* Between two calls the stream stands at the end of a message: whatever   *)
(* pieces a message came in and whichever calls gave up before (the break  *)
(* of receive:221), the next byte read is the first of the next header.    *)
InFrame ==
  rpc = "idle" => /\ Len(delivered) <= Len(ends)
                  /\ read = EndOf(Len(delivered))

(* receive implements a queue of whole messages: every message comes once, *)
(* in order, and a call that timed out has taken no part of one.           *)
Queue == INSTANCE MessageQueue WITH
  sent <- Len(ends),
  call <- CASE Busy /\ timed  -> "timed"
            [] Busy /\ ~timed -> "untimed"
            [] rpc = "idle"   -> "none"
            [] OTHER          -> "failed",
  peerGone <- link # "up"

IsQueue == Queue!QueueSpec

(* A call with a time limit ends, and so does any call when a message is   *)
(* on its way, unless the connection ends (receive:204-229).               *)
CallReturnsWhileUp ==
  (Busy /\ (timed \/ Len(delivered) < Len(ends))) ~> (~Busy \/ link # "up")

(* TIMEOUT_HELLO_MS: the client has so many milliseconds to respond, or the*)
(* connection is closed.  So a call with a time limit always returns.      *)
TimedCallReturns == (Busy /\ timed) ~> ~Busy

=============================================================================
