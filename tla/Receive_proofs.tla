--------------------------- MODULE Receive_proofs ---------------------------
(***************************************************************************)
(* However a message is cut into pieces and whichever calls time out,      *)
(* Connection::receive keeps in step with the messages of its peer, and    *)
(* implements the queue of MessageQueue.                                   *)
(***************************************************************************)
EXTENDS Receive, TLAPS

(* Every message has a header, so no two end at the same position.         *)
Framing ==
  /\ ends \in Seq(Nat)
  /\ \A i \in 1 .. Len(ends) : HeaderLen <= ends[i]
  /\ \A i, j \in 1 .. Len(ends) : i < j => ends[i] + HeaderLen <= ends[j]

Flow ==
  /\ arrived \in Nat /\ read \in Nat
  /\ read <= arrived /\ arrived <= EndOf(Len(ends))
  /\ delivered \in Seq(Nat) /\ Len(delivered) <= Len(ends)

AtRest == rpc = "idle" => read = EndOf(Len(delivered))

(* Both receives of a call count from the beginning of a message.          *)
InHeader ==
  rpc = "header" =>
    /\ base = EndOf(Len(delivered))
    /\ total \in Nat /\ howMany \in Nat
    /\ read = base + total /\ total + howMany = HeaderLen

InBody ==
  rpc = "body" =>
    /\ Len(delivered) < Len(ends)
    /\ base = EndOf(Len(delivered))
    /\ total \in Nat /\ howMany \in Nat
    /\ msglen = ends[Len(delivered) + 1] - base
    /\ read = base + HeaderLen + total /\ HeaderLen + total + howMany = msglen

IInv ==
  /\ Framing /\ Flow /\ AtRest /\ InHeader /\ InBody
  /\ link \in {"up", "closed", "reset", "silent"}
  /\ rpc \in {"idle", "header", "body", "failed"}

LEMMA EndsGrow ==
  ASSUME Framing
  PROVE  /\ \A i \in 0 .. Len(ends) : EndOf(i) \in Nat
         /\ \A i, j \in 0 .. Len(ends) : i < j => EndOf(i) + HeaderLen <= EndOf(j)
<1>1. HeaderLen \in Nat \ {0}
  BY ReceiveAssumption
<1>2. \A i \in 0 .. Len(ends) : EndOf(i) \in Nat
  BY DEF Framing, EndOf
<1>3. ASSUME NEW i \in 0 .. Len(ends), NEW j \in 0 .. Len(ends), i < j
      PROVE  EndOf(i) + HeaderLen <= EndOf(j)
  <2>1. j \in 1 .. Len(ends) /\ EndOf(j) = ends[j] /\ ends[j] \in Nat
    BY <1>3 DEF Framing, EndOf
  <2>2. CASE i = 0
    BY <1>1, <2>1, <2>2 DEF Framing, EndOf
  <2>3. CASE i # 0
    BY <1>1, <1>3, <2>1, <2>3 DEF Framing, EndOf
  <2> QED
    BY <2>2, <2>3
<1> QED
  BY <1>2, <1>3

(* At the end of a message the next one begins, and no other.              *)
LEMMA NextMessage ==
  ASSUME Framing, NEW d \in Nat, d < Len(ends)
  PROVE  /\ \A i \in 1 .. Len(ends) : Begins(i, EndOf(d)) <=> i = d + 1
         /\ LengthsAt(EndOf(d)) = {ends[d + 1] - EndOf(d)}
         /\ MessageAt(EndOf(d)) = d + 1
<1>1. Len(ends) \in Nat /\ d \in 0 .. Len(ends) /\ d + 1 \in 1 .. Len(ends)
  BY DEF Framing
<1>2. \A i \in 1 .. Len(ends) : Begins(i, EndOf(d)) <=> i = d + 1
  <2> TAKE i \in 1 .. Len(ends)
  <2>1. HeaderLen \in Nat \ {0}
    BY ReceiveAssumption
  <2>2. i - 1 \in 0 .. Len(ends) /\ EndOf(i - 1) \in Nat /\ EndOf(d) \in Nat
    BY <1>1, EndsGrow
  <2>3. i - 1 < d => EndOf(i - 1) + HeaderLen <= EndOf(d)
    BY <1>1, <2>2, EndsGrow
  <2>4. d < i - 1 => EndOf(d) + HeaderLen <= EndOf(i - 1)
    BY <1>1, <2>2, EndsGrow
  <2>5. EndOf(i - 1) = EndOf(d) <=> i - 1 = d
    BY <1>1, <2>1, <2>2, <2>3, <2>4
  <2> QED
    BY <1>1, <2>5 DEF Begins
<1>3. \E i \in 1 .. Len(ends) : Begins(i, EndOf(d))
  BY <1>1, <1>2
<1>4. {j \in 1 .. Len(ends) : Begins(j, EndOf(d))} = {d + 1}
  BY <1>1, <1>2
<1>5. LengthsAt(EndOf(d)) = {ends[d + 1] - EndOf(d)}
  BY <1>3, <1>4 DEF LengthsAt
<1>6. MessageAt(EndOf(d)) = d + 1
  BY <1>1, <1>2, <1>3 DEF MessageAt
<1> QED
  BY <1>2, <1>5, <1>6

LEMMA InitHolds == Init => IInv
<1> SUFFICES ASSUME Init PROVE IInv
  OBVIOUS
<1>1. ends \in Seq(Nat) /\ Len(ends) = 0 /\ delivered \in Seq(Nat) /\ Len(delivered) = 0
  BY DEF Init
<1> QED
  BY <1>1, ReceiveAssumption
  DEF Init, IInv, Framing, Flow, AtRest, InHeader, InBody, EndOf

-----------------------------------------------------------------------------
LEMMA PeerSendsHolds == IInv /\ PeerSends => IInv'
<1> SUFFICES ASSUME IInv, PeerSends PROVE IInv'
  OBVIOUS
<1>1. PICK payload \in 0 .. MaxPayload :
        ends' = Append(ends, EndOf(Len(ends)) + HeaderLen + payload)
  BY DEF PeerSends
<1> DEFINE e == EndOf(Len(ends)) + HeaderLen + payload
<1>2. HeaderLen \in Nat \ {0} /\ MaxPayload \in Nat /\ payload \in Nat
  BY ReceiveAssumption
<1>3. Framing /\ ends \in Seq(Nat) /\ Len(ends) \in Nat /\ EndOf(Len(ends)) \in Nat
  BY EndsGrow DEF IInv, Framing
<1>4. e \in Nat /\ e >= EndOf(Len(ends)) + HeaderLen
  BY <1>2, <1>3
<1>5. ends' = Append(ends, e)
  BY <1>1
<1> HIDE DEF e
<1>6. /\ ends' \in Seq(Nat) /\ Len(ends') = Len(ends) + 1
      /\ \A i \in 1 .. Len(ends) : ends'[i] = ends[i]
      /\ ends'[Len(ends) + 1] = e
  BY <1>3, <1>4, <1>5
<1>7. \A i \in 1 .. Len(ends) : ends[i] \in Nat /\ ends[i] <= EndOf(Len(ends))
  <2> TAKE i \in 1 .. Len(ends)
  <2>1. EndOf(i) = ends[i] /\ EndOf(i) \in Nat
    BY <1>3, EndsGrow DEF EndOf
  <2>2. CASE i = Len(ends)
    BY <1>3, <2>1, <2>2
  <2>3. CASE i < Len(ends)
    BY <1>2, <1>3, <2>1, <2>3, EndsGrow
  <2> QED
    BY <1>3, <2>2, <2>3
<1>8. Framing'
  <2>1. ASSUME NEW i \in 1 .. Len(ends') PROVE HeaderLen <= ends'[i]
    <3>1. CASE i \in 1 .. Len(ends)
      <4>1. ends'[i] = ends[i] /\ HeaderLen <= ends[i]
        BY <1>3, <1>6, <3>1 DEF Framing
      <4> QED
        BY <4>1
    <3>2. CASE i = Len(ends) + 1
      BY <1>2, <1>3, <1>4, <1>6, <3>2
    <3> QED
      BY <1>3, <1>6, <2>1, <3>1, <3>2
  <2>2. ASSUME NEW i \in 1 .. Len(ends'), NEW j \in 1 .. Len(ends'), i < j
        PROVE  ends'[i] + HeaderLen <= ends'[j]
    <3>1. i \in 1 .. Len(ends) /\ ends'[i] = ends[i]
      BY <1>3, <1>6, <2>2
    <3>2. CASE j \in 1 .. Len(ends)
      <4>1. ends'[j] = ends[j] /\ ends[i] + HeaderLen <= ends[j]
        BY <1>3, <1>6, <2>2, <3>1, <3>2 DEF Framing
      <4> QED
        BY <3>1, <4>1
    <3>3. CASE j = Len(ends) + 1
      <4>1. ends'[j] = e /\ ends[i] \in Nat /\ ends[i] <= EndOf(Len(ends))
        BY <1>6, <1>7, <3>1, <3>3
      <4> QED
        BY <1>2, <1>3, <1>4, <3>1, <4>1
    <3>4. Len(ends') = Len(ends) + 1 /\ Len(ends) \in Nat
      BY <1>3, <1>6
    <3>5. j \in 1 .. Len(ends) \/ j = Len(ends) + 1
      BY <3>4
    <3> QED
      BY <3>2, <3>3, <3>5
  <2> QED
    BY <1>6, <2>1, <2>2 DEF Framing
<1>9. /\ UNCHANGED <<arrived, link, callVars>>
      /\ \A i \in 0 .. Len(ends) : EndOf(i)' = EndOf(i)
  BY <1>6 DEF PeerSends, EndOf
<1>10. /\ Len(delivered) \in 0 .. Len(ends) /\ Len(delivered') = Len(delivered)
  BY <1>3, <1>9 DEF IInv, Flow, callVars
<1>11. EndOf(Len(delivered))' = EndOf(Len(delivered))
  BY <1>9, <1>10 DEF EndOf, callVars
<1>12. EndOf(Len(ends))' = e
  BY <1>3, <1>6 DEF EndOf
<1>13. Flow'
  BY <1>2, <1>3, <1>4, <1>6, <1>9, <1>12 DEF IInv, Flow, callVars
<1>14. InBody'
  <2>1. Len(delivered) < Len(ends) => ends'[Len(delivered) + 1] = ends[Len(delivered) + 1]
    <3>1. Len(delivered) \in Nat /\ Len(ends) \in Nat
      BY <1>3, <1>10
    <3>2. Len(delivered) < Len(ends) => Len(delivered) + 1 \in 1 .. Len(ends)
      BY <3>1
    <3> QED
      BY <1>6, <3>2
  <2>2. Len(delivered') = Len(delivered) /\ Len(ends) < Len(ends')
    BY <1>3, <1>6, <1>10
  <2>3. Len(delivered) < Len(ends) => Len(delivered') < Len(ends')
    BY <1>3, <1>10, <2>2, <1>6
  <2>4. UNCHANGED <<rpc, base, total, howMany, msglen, read>>
    BY <1>9 DEF callVars
  <2>5. InBody
    BY DEF IInv
  <2> SUFFICES ASSUME rpc = "body"
               PROVE  /\ Len(delivered') < Len(ends')
                      /\ base' = EndOf(Len(delivered))'
                      /\ total' \in Nat /\ howMany' \in Nat
                      /\ msglen' = ends'[Len(delivered') + 1] - base'
                      /\ read' = base' + HeaderLen + total'
                      /\ HeaderLen + total' + howMany' = msglen'
    BY <2>4 DEF InBody, EndOf
  <2>6. ends'[Len(delivered') + 1] = ends[Len(delivered) + 1]
    BY <2>1, <2>2, <2>5 DEF InBody
  <2> QED
    BY <1>11, <2>3, <2>4, <2>5, <2>6 DEF InBody
<1>15. AtRest' /\ InHeader'
  BY <1>9, <1>11 DEF IInv, AtRest, InHeader, callVars
<1> QED
  BY <1>8, <1>9, <1>13, <1>14, <1>15 DEF IInv, callVars

LEMMA NetworkHolds == IInv /\ (Arrive \/ PeerEnds) => IInv'
<1> SUFFICES ASSUME IInv, Arrive \/ PeerEnds PROVE IInv'
  OBVIOUS
<1>1. /\ UNCHANGED <<ends, callVars>>
      /\ Len(ends) \in Nat /\ EndOf(Len(ends)) \in Nat
  BY EndsGrow DEF IInv, Framing, Arrive, PeerEnds
<1>2. arrived' \in Nat /\ arrived <= arrived' /\ arrived' <= EndOf(Len(ends))
  BY <1>1 DEF IInv, Flow, Arrive, PeerEnds
<1>3. link' \in {"up", "closed", "reset", "silent"}
  BY ReceiveAssumption DEF IInv, Arrive, PeerEnds
<1> QED
  BY <1>1, <1>2, <1>3
  DEF IInv, Framing, Flow, AtRest, InHeader, InBody, EndOf, callVars

LEMMA CallHolds == IInv /\ Call => IInv'
<1> SUFFICES ASSUME IInv, Call PROVE IInv'
  OBVIOUS
<1>1. /\ UNCHANGED <<ends, arrived, link, read, delivered>>
      /\ rpc = "idle" /\ rpc' = "header"
      /\ base' = read /\ howMany' = HeaderLen /\ total' = 0
  BY DEF Call, peerVars
<1>2. read \in Nat /\ HeaderLen \in Nat
  BY ReceiveAssumption DEF IInv, Flow
<1> QED
  BY <1>1, <1>2 DEF IInv, Framing, Flow, AtRest, InHeader, InBody, EndOf

LEMMA TakeBytesHolds == IInv /\ TakeBytes => IInv'
<1> SUFFICES ASSUME IInv, TakeBytes PROVE IInv'
  OBVIOUS
<1> DEFINE n == IF howMany < arrived - read THEN howMany ELSE arrived - read
<1>1. /\ UNCHANGED <<ends, arrived, link, rpc, base, msglen, delivered>>
      /\ rpc \in {"header", "body"} /\ read < arrived /\ howMany > 0
      /\ read' = read + n /\ howMany' = howMany - n /\ total' = total + n
  BY DEF TakeBytes, peerVars, Busy
<1>2. /\ read \in Nat /\ arrived \in Nat /\ howMany \in Nat /\ total \in Nat
  BY <1>1 DEF IInv, Flow, InHeader, InBody
<1>3. n \in Nat /\ n <= howMany /\ n <= arrived - read
  BY <1>1, <1>2
<1> HIDE DEF n
<1>4. /\ read' \in Nat /\ read' <= arrived /\ howMany' \in Nat /\ total' \in Nat
      /\ total' + howMany' = total + howMany /\ read' - total' = read - total
  BY <1>1, <1>2, <1>3
<1>5. Flow' /\ Framing' /\ AtRest'
  BY <1>1, <1>4 DEF IInv, Framing, Flow, AtRest, EndOf
<1>6. EndOf(Len(delivered))' = EndOf(Len(delivered))
  BY <1>1 DEF EndOf
<1>7. EndOf(Len(delivered)) \in Nat
  BY EndsGrow DEF IInv, Framing, Flow
<1>8. InHeader'
  <2>1. HeaderLen \in Nat
    BY ReceiveAssumption
  <2> QED
    BY <1>1, <1>2, <1>3, <1>4, <1>6, <1>7, <2>1 DEF IInv, InHeader
<1>9. InBody'
  <2> SUFFICES ASSUME rpc = "body" PROVE InBody'
    BY <1>1 DEF InBody
  <2>1. /\ Len(delivered) < Len(ends) /\ base = EndOf(Len(delivered))
        /\ msglen = ends[Len(delivered) + 1] - base
        /\ read = base + HeaderLen + total /\ HeaderLen + total + howMany = msglen
    BY DEF IInv, InBody
  <2>2. HeaderLen \in Nat
    BY ReceiveAssumption
  <2>3. read' = base + HeaderLen + total' /\ HeaderLen + total' + howMany' = msglen
    BY <1>1, <1>2, <1>3, <1>7, <2>1, <2>2
  <2> QED
    BY <1>1, <1>4, <1>6, <2>1, <2>3 DEF InBody
<1> QED
  BY <1>1, <1>5, <1>8, <1>9 DEF IInv

(* A time limit ends a call only before its first byte.                    *)
LEMMA TimesOutHolds == IInv /\ TimesOut => IInv'
<1> SUFFICES ASSUME IInv, TimesOut PROVE IInv'
  OBVIOUS
<1>1. /\ UNCHANGED <<ends, arrived, link, base, read, howMany, total, msglen, delivered>>
      /\ rpc = "header" /\ rpc' = (IF total = 0 THEN "idle" ELSE rpc)
  BY DEF TimesOut, AfterTimeout, peerVars
<1>2. /\ base = EndOf(Len(delivered)) /\ total \in Nat /\ read = base + total
      /\ EndOf(Len(delivered)) \in Nat
  BY <1>1, EndsGrow DEF IInv, InHeader, Framing, Flow
<1>3. rpc' = "idle" => read = EndOf(Len(delivered))
  BY <1>1, <1>2
<1> QED
  BY <1>1, <1>3 DEF IInv, Framing, Flow, AtRest, InHeader, InBody, EndOf

LEMMA EndOfStreamHolds == IInv /\ (EndOfStream \/ RecvFails) => IInv'
<1> SUFFICES ASSUME IInv, EndOfStream \/ RecvFails PROVE IInv'
  OBVIOUS
<1>1. /\ UNCHANGED <<ends, arrived, link, base, read, howMany, total, msglen, delivered>>
      /\ rpc' \in {"failed", rpc} /\ rpc \in {"header", "body"}
  BY DEF EndOfStream, RecvFails, peerVars, Busy
<1> QED
  BY <1>1 DEF IInv, Framing, Flow, AtRest, InHeader, InBody, EndOf

(* The header belongs to the next message, whose length it says.           *)
LEMMA HeaderDoneHolds == IInv /\ HeaderDone => IInv'
<1> SUFFICES ASSUME IInv, HeaderDone PROVE IInv'
  OBVIOUS
<1> DEFINE d == Len(delivered)
<1>1. /\ UNCHANGED <<ends, arrived, link, base, read, delivered>>
      /\ rpc = "header" /\ howMany = 0 /\ rpc' = "body"
      /\ msglen' \in LengthsAt(base) /\ howMany' = msglen' - HeaderLen /\ total' = 0
  BY DEF HeaderDone, peerVars
<1>2. HeaderLen \in Nat \ {0}
  BY ReceiveAssumption
<1>3. /\ d \in 0 .. Len(ends) /\ Len(ends) \in Nat
      /\ EndOf(d) \in Nat /\ EndOf(Len(ends)) \in Nat
  BY EndsGrow DEF IInv, Framing, Flow
<1>4. base = EndOf(d) /\ read = EndOf(d) + HeaderLen
  BY <1>1, <1>2, <1>3 DEF IInv, InHeader
<1>5. d < Len(ends)
  <2>1. EndOf(d) + HeaderLen <= EndOf(Len(ends))
    BY <1>2, <1>3, <1>4 DEF IInv, Flow
  <2> QED
    BY <1>2, <1>3, <2>1
<1>6. msglen' = ends[d + 1] - EndOf(d)
  BY <1>1, <1>3, <1>4, <1>5, NextMessage DEF IInv
<1> DEFINE len == ends[d + 1] - EndOf(d)
<1>7. HeaderLen <= len /\ len \in Nat
  <2>1. EndOf(d + 1) = ends[d + 1] /\ d + 1 \in 0 .. Len(ends)
    BY <1>3, <1>5 DEF EndOf
  <2>2. EndOf(d) + HeaderLen <= EndOf(d + 1) /\ EndOf(d + 1) \in Nat
    BY <1>3, <2>1, EndsGrow DEF IInv
  <2> QED
    BY <1>2, <1>3, <2>1, <2>2
<1> HIDE DEF d, len
<1>8. InBody'
  <2>1. Len(delivered') = d /\ EndOf(Len(delivered))' = EndOf(d)
    BY <1>1 DEF d, EndOf
  <2>2. howMany' \in Nat /\ HeaderLen + total' + howMany' = msglen' /\ total' = 0
    <3>1. howMany' = len - HeaderLen /\ total' = 0 /\ msglen' = len
      BY <1>1, <1>6 DEF len
    <3>2. len - HeaderLen \in Nat /\ HeaderLen + 0 + (len - HeaderLen) = len
      BY <1>2, <1>7
    <3> QED
      BY <3>1, <3>2
  <2>3. read' = base' + HeaderLen + total' /\ base' = EndOf(d)
    BY <1>1, <1>2, <1>3, <1>4
  <2>4. Len(delivered') < Len(ends') /\ ends'[Len(delivered') + 1] = ends[d + 1]
    BY <1>1, <1>5, <2>1
  <2> QED
    BY <1>1, <1>6, <2>1, <2>2, <2>3, <2>4 DEF InBody
<1> QED
  BY <1>1, <1>8 DEF IInv, Framing, Flow, AtRest, InHeader, EndOf

(* The message is complete: its length is the one its header announced.    *)
LEMMA BodyDoneIsNext ==
  ASSUME IInv, BodyDone
  PROVE  /\ Len(delivered) < Len(ends)
         /\ rpc' = "idle" /\ delivered' = Append(delivered, Len(delivered) + 1)
         /\ read = EndOf(Len(delivered) + 1)
<1> DEFINE d == Len(delivered)
<1>1. rpc = "body" /\ howMany <= 0
  BY DEF BodyDone
<1>2. HeaderLen \in Nat
  BY ReceiveAssumption
<1>3. /\ d \in Nat /\ d < Len(ends) /\ base = EndOf(d)
      /\ total \in Nat /\ howMany \in Nat /\ msglen = ends[d + 1] - base
      /\ read = base + HeaderLen + total /\ HeaderLen + total + howMany = msglen
  BY <1>1 DEF IInv, InBody, Flow
<1>4. EndOf(d) \in Nat /\ EndOf(d + 1) = ends[d + 1] /\ EndOf(d + 1) \in Nat
  BY <1>3, EndsGrow DEF IInv, Framing, EndOf
<1>5. HeaderLen + total = msglen /\ read = EndOf(d + 1)
  BY <1>1, <1>2, <1>3, <1>4
<1>6. MessageAt(base) = d + 1
  BY <1>3, NextMessage DEF IInv
<1> QED
  BY <1>3, <1>5, <1>6 DEF BodyDone

LEMMA BodyDoneHolds == IInv /\ BodyDone => IInv'
<1> SUFFICES ASSUME IInv, BodyDone PROVE IInv'
  OBVIOUS
<1>1. /\ UNCHANGED <<ends, arrived, link, base, read, howMany, total, msglen>>
      /\ Len(delivered) < Len(ends) /\ rpc' = "idle"
      /\ delivered' = Append(delivered, Len(delivered) + 1)
      /\ read = EndOf(Len(delivered) + 1)
  BY BodyDoneIsNext DEF BodyDone, peerVars
<1>2. delivered' \in Seq(Nat) /\ Len(delivered') = Len(delivered) + 1
  BY <1>1 DEF IInv, Flow
<1>3. Len(delivered') <= Len(ends)
  BY <1>1, <1>2 DEF IInv, Flow, Framing
<1>4. EndOf(Len(delivered))' = EndOf(Len(delivered) + 1)
  BY <1>1, <1>2 DEF EndOf
<1> QED
  BY <1>1, <1>2, <1>3, <1>4 DEF IInv, Framing, Flow, AtRest, InHeader, InBody, EndOf

LEMMA NextHolds == IInv /\ [Next]_vars => IInv'
<1> SUFFICES ASSUME IInv, [Next]_vars PROVE IInv'
  OBVIOUS
<1>1. CASE UNCHANGED vars
  BY <1>1
  DEF IInv, Framing, Flow, AtRest, InHeader, InBody, EndOf, vars, peerVars, callVars
<1> QED
  BY <1>1, PeerSendsHolds, NetworkHolds, CallHolds, TakeBytesHolds, TimesOutHolds,
     EndOfStreamHolds, HeaderDoneHolds, BodyDoneHolds DEF Next, ReceiveStep

(* Connection::receive of a Message: in whatever pieces it comes and       *)
(* whichever calls gave up, between two calls the stream stands where a    *)
(* message begins, for every length of header and payload.                 *)
THEOREM StaysInFrame == Spec => []InFrame
<1>1. Init => IInv
  BY InitHolds
<1>2. IInv /\ [Next]_vars => IInv'
  BY NextHolds
<1>3. IInv => InFrame
  BY DEF IInv, AtRest, Flow, InFrame
<1> QED
  BY <1>1, <1>2, <1>3, PTL DEF Spec

-----------------------------------------------------------------------------
LEMMA InitIsQueue == Init => Queue!QueueInit
  BY DEF Init, Queue!QueueInit, Busy

(* Every step of receive is one of the queue, or nothing its caller sees.  *)
LEMMA StepIsQueue == IInv /\ [Next]_vars => [Queue!QueueNext]_(Queue!queueVars)
<1> SUFFICES ASSUME IInv, [Next]_vars
             PROVE  Queue!QueueNext \/ UNCHANGED Queue!queueVars
  OBVIOUS
<1> USE DEF Queue!QueueNext, Queue!queueVars, Busy
<1>1. CASE PeerSends
  <2>1. Len(ends') = Len(ends) + 1
    BY <1>1 DEF PeerSends, IInv, Framing
  <2> QED
    BY <1>1, <2>1 DEF PeerSends, callVars, Queue!PeerSends
<1>2. CASE Arrive
  BY <1>2 DEF Arrive, callVars
<1>3. CASE PeerEnds
  BY <1>3, ReceiveAssumption DEF PeerEnds, callVars, Queue!PeerGoes
<1>4. CASE Call
  BY <1>4 DEF Call, peerVars, Queue!Ask
<1>5. CASE TakeBytes
  BY <1>5 DEF TakeBytes, peerVars
<1>6. CASE TimesOut
  BY <1>6 DEF TimesOut, AfterTimeout, peerVars, Queue!GiveUp
<1>7. CASE EndOfStream
  BY <1>7 DEF EndOfStream, peerVars, Queue!Fail
<1>8. CASE RecvFails
  BY <1>8 DEF RecvFails, peerVars, Queue!Fail
<1>9. CASE HeaderDone
  BY <1>9 DEF HeaderDone, peerVars
<1>10. CASE BodyDone
  BY <1>10, BodyDoneIsNext DEF BodyDone, peerVars, Queue!Answer
<1>11. CASE UNCHANGED vars
  BY <1>11 DEF vars, peerVars, callVars
<1> QED
  BY <1>1, <1>2, <1>3, <1>4, <1>5, <1>6, <1>7, <1>8, <1>9, <1>10, <1>11
  DEF Next, ReceiveStep

(* receive implements MessageQueue: every message once, in order, and a    *)
(* call that gave up has taken nothing.                                    *)
THEOREM ReceiveIsQueue == Spec => IsQueue
<1>1. Init => IInv
  BY InitHolds
<1>2. IInv /\ [Next]_vars => IInv'
  BY NextHolds
<1>3. Init => Queue!QueueInit
  BY InitIsQueue
<1>4. IInv /\ [Next]_vars => [Queue!QueueNext]_(Queue!queueVars)
  BY StepIsQueue
<1> QED
  BY <1>1, <1>2, <1>3, <1>4, PTL DEF Spec, IsQueue, Queue!QueueSpec

-----------------------------------------------------------------------------
(* The variables of a call hold numbers whatever the header says, and only *)
(* messages that were sent are delivered.                                  *)
Fields ==
  /\ link \in {"up"} \cup Endings /\ timed \in BOOLEAN /\ timedOut \in BOOLEAN
  /\ base \in Nat /\ howMany \in Nat /\ total \in Nat /\ msglen \in Nat
  /\ delivered \in Seq(1 .. Len(ends))

LEMMA FieldsInit == Init => Fields
<1> SUFFICES ASSUME Init PROVE Fields
  OBVIOUS
<1>1. delivered \in Seq(1 .. Len(ends))
  BY DEF Init
<1> QED
  BY <1>1 DEF Init, Fields

LEMMA FieldsNext == IInv /\ Fields /\ [Next]_vars => Fields'
<1> SUFFICES ASSUME IInv, Fields, [Next]_vars PROVE Fields'
  OBVIOUS
<1> USE DEF Fields
<1>0. HeaderLen \in Nat /\ Len(ends) \in Nat
  BY ReceiveAssumption DEF IInv, Framing
<1>1. CASE PeerSends
  <2>1. Len(ends') = Len(ends) + 1 /\ UNCHANGED <<link, callVars>>
    BY <1>1 DEF PeerSends, IInv, Framing
  <2>2. Seq(1 .. Len(ends)) \subseteq Seq(1 .. Len(ends'))
    BY <1>0, <2>1
  <2> QED
    BY <2>1, <2>2 DEF callVars
<1>2. CASE Arrive \/ PeerEnds
  BY <1>2 DEF Arrive, PeerEnds, callVars
<1>3. CASE Call
  BY <1>0, <1>3 DEF Call, peerVars, IInv, Flow
<1>4. CASE TakeBytes
  <2> DEFINE n == IF howMany < arrived - read THEN howMany ELSE arrived - read
  <2>1. howMany' = howMany - n /\ total' = total + n /\ timedOut' = FALSE
        /\ UNCHANGED <<ends, link, timed, base, msglen, delivered>>
    BY <1>4 DEF TakeBytes, peerVars
  <2>2. n \in 0 .. howMany
    BY <1>4 DEF TakeBytes, IInv, Flow
  <2> HIDE DEF n
  <2>3. howMany' \in Nat /\ total' \in Nat
    BY <2>1, <2>2
  <2> QED
    BY <2>1, <2>3
<1>5. CASE TimesOut \/ EndOfStream \/ RecvFails
  BY <1>5 DEF TimesOut, EndOfStream, RecvFails, peerVars
<1>6. CASE HeaderDone
  <2>1. /\ UNCHANGED <<ends, link, timed, base, delivered>>
        /\ rpc' = "body" /\ total' = 0 /\ timedOut' = FALSE
    BY <1>6 DEF HeaderDone, peerVars
  <2>2. howMany' \in Nat /\ HeaderLen + total' + howMany' = msglen'
    BY <1>6, <2>1, HeaderDoneHolds DEF IInv, InBody
  <2>3. msglen' \in Nat
    BY <1>0, <2>1, <2>2
  <2> QED
    BY <2>1, <2>2, <2>3
<1>7. CASE BodyDone
  <2>1. /\ delivered' = Append(delivered, Len(delivered) + 1)
        /\ Len(delivered) < Len(ends)
        /\ UNCHANGED <<ends, link, timed, base, howMany, total, timedOut, msglen>>
    BY <1>7, BodyDoneIsNext DEF BodyDone, peerVars
  <2>2. Len(delivered) + 1 \in 1 .. Len(ends)
    BY <1>0, <2>1
  <2>3. delivered' \in Seq(1 .. Len(ends))
    BY <2>1, <2>2
  <2> QED
    BY <2>1, <2>3
<1>8. CASE UNCHANGED vars
  BY <1>8 DEF vars, peerVars, callVars
<1> QED
  BY <1>1, <1>2, <1>3, <1>4, <1>5, <1>6, <1>7, <1>8 DEF Next, ReceiveStep

(* howMany of receive (Connection.cpp:200-236) never goes below zero, and  *)
(* the length of a header is one the peer sent: what is asked for is there *)
(* to be delivered.                                                        *)
THEOREM ReceiveTypes == Spec => []TypeOK
<1>1. Init => IInv /\ Fields
  BY InitHolds, FieldsInit
<1>2. IInv /\ Fields /\ [Next]_vars => (IInv /\ Fields)'
  BY NextHolds, FieldsNext
<1>3. IInv /\ Fields => TypeOK
  BY DEF IInv, Framing, Flow, Fields, TypeOK
<1> QED
  BY <1>1, <1>2, <1>3, PTL DEF Spec

=============================================================================
