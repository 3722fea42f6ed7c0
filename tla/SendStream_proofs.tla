------------------------- MODULE SendStream_proofs -------------------------
(***************************************************************************)
(* What send of a stream puts on the wire and what it counts, for streams  *)
(* and chunks of every length, ints of every width, and whatever pieces    *)
(* ::send takes.                                                           *)
(***************************************************************************)
EXTENDS SendStream, TLAPS

(* The chunk lies inside the stream, and what is left of it inside it, also*)
(* when the beginning of the chunk is sent again after a part.             *)
TypeInv == TypeOK /\ buf.from + buf.count <= len /\ bytesLeft <= buf.count

(* However often a counter wraps around it is an int.                      *)
LEMMA IntLemma == \A n \in Int : AsInt(n) \in -IntMax - 1 .. IntMax
<1> TAKE n \in Int
<1>1. \A k \in Int, d \in Nat \ {0} : k % d \in 0 .. d - 1
  OBVIOUS
<1>2. n + IntMax + 1 \in Int /\ 2 * IntMax + 2 \in Nat \ {0} /\ IntMax \in Nat
  BY SendAssumption
<1>3. (n + IntMax + 1) % (2 * IntMax + 2) \in 0 .. 2 * IntMax + 1
  BY <1>1, <1>2
<1> QED
  BY <1>2, <1>3 DEF AsInt

LEMMA TypeInit == Init => TypeInv
<1> SUFFICES ASSUME Init PROVE TypeInv
  OBVIOUS
<1>1. len \in Nat /\ wire \in Seq(1 .. len) /\ total \in -IntMax - 1 .. IntMax
  BY SendAssumption DEF Init
<1>2. readTo \in 0 .. len /\ bytesLeft \in 0 .. Chunk /\ 0 \in 0 .. len /\ 0 \in 0 .. Chunk
  BY <1>1, SendAssumption DEF Init
<1>3. /\ buf \in [from : 0 .. len, count : 0 .. Chunk]
      /\ buf.from + buf.count <= len /\ bytesLeft <= buf.count
  BY <1>1, <1>2 DEF Init
<1> QED
  BY <1>1, <1>2, <1>3 DEF Init, TypeInv, TypeOK

LEMMA TypeNext == TypeInv /\ [Next]_vars => TypeInv'
<1> SUFFICES ASSUME TypeInv, [Next]_vars PROVE TypeInv'
  OBVIOUS
<1>0. TypeOK /\ buf.from + buf.count <= len /\ bytesLeft <= buf.count
  BY DEF TypeInv
<1>1. CASE Read
  <2> DEFINE n == IF len - readTo < Chunk THEN len - readTo ELSE Chunk
  <2>1. n \in 0 .. Chunk /\ n <= len - readTo /\ readTo \in 0 .. len /\ len \in Nat
    BY <1>0, SendAssumption DEF TypeOK
  <2>2. \/ /\ readTo' = readTo + n /\ buf' = [from |-> readTo, count |-> n]
           /\ good' = (n = Chunk) /\ eof' = (n < Chunk)
        \/ /\ good' = FALSE /\ buf' = [from |-> readTo, count |-> 0]
           /\ UNCHANGED <<readTo, eof>>
    BY <1>1 DEF Read, Gcount
  <2> HIDE DEF n
  <2>3. bytesLeft' = buf'.count /\ UNCHANGED <<len, total, wire, outcome, again>>
    BY <1>1 DEF Read
  <2>4. /\ buf'.from = readTo /\ buf'.count \in {0, n}
        /\ buf' \in [from : {readTo}, count : {0, n}]
    BY <2>2
  <2>5. readTo' \in {readTo, readTo + n}
    BY <2>2
  <2>6. /\ readTo' \in 0 .. len /\ bytesLeft' \in 0 .. Chunk /\ bytesLeft' <= buf'.count
        /\ buf'.from + buf'.count <= len /\ {readTo} \subseteq 0 .. len
        /\ {0, n} \subseteq 0 .. Chunk
    BY <2>1, <2>3, <2>4, <2>5, SendAssumption
  <2>7. buf' \in [from : 0 .. len, count : 0 .. Chunk]
    BY <2>4, <2>6
  <2>8. good' \in BOOLEAN /\ eof' \in BOOLEAN
    <3>1. (n = Chunk) \in BOOLEAN /\ (n < Chunk) \in BOOLEAN /\ FALSE \in BOOLEAN
      OBVIOUS
    <3>2. good' \in {n = Chunk, FALSE} /\ eof' \in {n < Chunk, eof} /\ eof \in BOOLEAN
      BY <1>0, <2>2, Zenon DEF TypeOK
    <3> QED
      BY <3>1, <3>2, Zenon
  <2> QED
    BY <1>0, <2>3, <2>6, <2>7, <2>8 DEF TypeInv, TypeOK
<1>2. CASE Send
  <2>0. bytesLeft \in Nat /\ bytesLeft > 0 /\ UNCHANGED <<len, good, eof, readTo, buf, outcome>>
    BY <1>0, <1>2, SendAssumption DEF Send, TypeOK
  <2>6. again' \in BOOLEAN
    <3>1. \A a, b \in BOOLEAN : (a \/ b) \in BOOLEAN
      OBVIOUS
    <3>2. again' = (again \/ bytesLeft < buf.count)
      BY <1>2 DEF Send
    <3> QED
      BY <3>2
  <2>1. PICK n \in 1 .. bytesLeft :
          /\ wire' = wire \o [i \in 1 .. n |-> buf.from + i]
          /\ bytesLeft' = LeftAfter(n) /\ total' = Counted(n)
    <3>1. \A n \in IF Partial THEN 1 .. bytesLeft ELSE {bytesLeft} : n \in 1 .. bytesLeft
      BY <2>0
    <3> QED
      BY <1>2, <3>1 DEF Send
  <2>2. [i \in 1 .. n |-> buf.from + i] \in Seq(1 .. len)
    <3>1. \A i \in 1 .. n : buf.from + i \in 1 .. len
      BY <1>0, <2>0, SendAssumption DEF TypeOK
    <3>2. [i \in 1 .. n |-> buf.from + i] \in [1 .. n -> 1 .. len] /\ n \in Nat
      BY <2>0, <3>1
    <3> QED
      BY <3>2
  <2>3. wire' \in Seq(1 .. len)
    BY <1>0, <2>1, <2>2 DEF TypeOK
  <2>4. total' \in -IntMax - 1 .. IntMax
    <3>1. total + n \in Int
      BY <1>0, <2>0, SendAssumption DEF TypeOK
    <3> QED
      BY <2>1, <3>1, IntLemma DEF Counted
  <2>5. bytesLeft' \in 0 .. Chunk /\ bytesLeft' <= buf.count
    BY <1>0, <2>0, <2>1, SendAssumption DEF LeftAfter, TypeOK
  <2> QED
    BY <1>0, <2>0, <2>3, <2>4, <2>5, <2>6 DEF TypeInv, TypeOK
<1>3. CASE SendFails
  BY <1>0, <1>3 DEF SendFails, TypeInv, TypeOK
<1>4. CASE Finish
  BY <1>0, <1>4 DEF Finish, Verdict, TypeInv, TypeOK
<1>5. CASE UNCHANGED vars
  BY <1>0, <1>5 DEF vars, TypeInv, TypeOK
<1> QED
  BY <1>1, <1>2, <1>3, <1>4, <1>5 DEF Next

(* Only bytes of the stream reach the wire, also where ::send takes a part *)
(* of what it is given and the beginning of the chunk is sent again; the   *)
(* count wraps but stays an int (send:148-178).                            *)
THEOREM SendTypes == Spec => []TypeOK
<1>1. TypeInv => TypeOK
  BY DEF TypeInv
<1> QED
  BY <1>1, TypeInit, TypeNext, PTL DEF Spec

-----------------------------------------------------------------------------
(* A number an int can hold is kept.                                       *)
LEMMA IntKept == \A x \in 0 .. IntMax : AsInt(x) = x
<1> TAKE x \in 0 .. IntMax
<1>1. \A k \in Nat, d \in Nat : k < d => k % d = k
  OBVIOUS
<1>2. /\ x + IntMax + 1 \in Nat /\ 2 * IntMax + 2 \in Nat
      /\ x + IntMax + 1 < 2 * IntMax + 2
  BY SendAssumption
<1>3. (x + IntMax + 1) % (2 * IntMax + 2) = x + IntMax + 1
  BY <1>1, <1>2
<1> QED
  BY <1>3, SendAssumption DEF AsInt

(* What is out and what is left of the chunk is what was read.             *)
Parts ==
  /\ Len(wire) + bytesLeft = readTo
  /\ buf.from + buf.count = readTo

AtEnd ==
  /\ eof => readTo = len
  /\ outcome = "returned" => Len(wire) = len

(* A byte is out of place exactly when a chunk needed a second ::send.     *)
Displaced == again <=> \E i \in 1 .. Len(wire) : wire[i] # i

(* An int that can hold the length of the stream has not wrapped around.   *)
InInt == len <= IntMax => total = Len(wire)

IInv == TypeInv /\ Parts /\ AtEnd /\ Displaced /\ InInt

LEMMA IInvImplies == IInv => SentUnlessAgain /\ CountMeetsSize
<1> SUFFICES ASSUME IInv PROVE SentUnlessAgain /\ CountMeetsSize
  OBVIOUS
<1>1. SentUnlessAgain
  BY DEF IInv, AtEnd, Displaced, SentUnlessAgain
<1>2. len \in Nat /\ total <= IntMax /\ IntMax \in Nat
  BY SendAssumption DEF IInv, TypeInv, TypeOK
<1>3. CountMeetsSize
  <2> SUFFICES ASSUME outcome = "returned" PROVE total = len <=> len <= IntMax
    BY DEF CountMeetsSize
  <2>1. Len(wire) = len
    BY DEF IInv, AtEnd
  <2> QED
    BY <1>2, <2>1 DEF IInv, InInt
<1> QED
  BY <1>1, <1>3

LEMMA InitHolds == Init => IInv
<1> SUFFICES ASSUME Init PROVE IInv
  OBVIOUS
<1>1. TypeInv
  BY TypeInit
<1>2. wire = << >> /\ Len(wire) = 0
  BY DEF Init
<1>3. Parts /\ AtEnd /\ Displaced /\ InInt
  BY <1>2 DEF Init, Parts, AtEnd, Displaced, InInt
<1> QED
  BY <1>1, <1>3 DEF IInv

LEMMA ReadHolds ==
  ASSUME IInv, TypeInv', Read
  PROVE  IInv'
<1> DEFINE n == IF len - readTo < Chunk THEN len - readTo ELSE Chunk
<1>1. /\ len \in Nat /\ readTo \in 0 .. len /\ Chunk \in Nat
      /\ Len(wire) = readTo
  BY SendAssumption DEF IInv, TypeInv, TypeOK, Parts, Read
<1>2. /\ UNCHANGED <<len, total, wire, outcome, again>> /\ outcome = "running"
      /\ bytesLeft' = buf'.count
  BY DEF Read
<1>3. n \in 0 .. len - readTo /\ (n < Chunk => n = len - readTo)
  BY <1>1
<1>4. \/ /\ readTo' = readTo + n
         /\ buf' = [from |-> readTo, count |-> n]
         /\ eof' = (n < Chunk)
      \/ /\ buf' = [from |-> readTo, count |-> 0]
         /\ UNCHANGED <<readTo, eof>>
  BY DEF Read, Gcount
<1> HIDE DEF n
<1>5. Parts'
  BY <1>1, <1>2, <1>3, <1>4 DEF Parts
<1>6. AtEnd'
  <2>1. CASE readTo' = readTo + n /\ eof' = (n < Chunk)
    <3>1. n < Chunk => readTo' = len'
      BY <1>1, <1>2, <1>3, <2>1
    <3>2. eof' => readTo' = len'
      BY <2>1, <3>1, Zenon
    <3> QED
      BY <1>2, <3>2 DEF AtEnd
  <2>2. CASE UNCHANGED <<readTo, eof>>
    BY <1>2, <2>2 DEF IInv, AtEnd
  <2> QED
    BY <1>4, <2>1, <2>2
<1>7. Displaced' /\ InInt'
  BY <1>2 DEF IInv, Displaced, InInt
<1> QED
  BY <1>5, <1>6, <1>7 DEF IInv

LEMMA SendHolds ==
  ASSUME IInv, TypeInv', Send
  PROVE  IInv'
<1>1. /\ len \in Nat /\ bytesLeft \in Nat /\ bytesLeft > 0 /\ bytesLeft <= buf.count
      /\ buf.from \in Nat /\ buf.count \in Nat /\ wire \in Seq(Nat) /\ Len(wire) \in Nat
      /\ readTo \in 0 .. len /\ again \in BOOLEAN
  BY SendAssumption DEF IInv, TypeInv, TypeOK, Send
<1>2. /\ UNCHANGED <<len, eof, readTo, buf, outcome>> /\ outcome = "running"
      /\ again' = (again \/ bytesLeft < buf.count)
  BY DEF Send
<1>3. PICK n \in 1 .. bytesLeft :
        /\ wire' = wire \o [i \in 1 .. n |-> buf.from + i]
        /\ bytesLeft' = bytesLeft - n /\ total' = AsInt(total + n)
  <2>1. \A n \in IF Partial THEN 1 .. bytesLeft ELSE {bytesLeft} : n \in 1 .. bytesLeft
    BY <1>1
  <2> QED
    BY <2>1 DEF Send, LeftAfter, Counted
<1> DEFINE piece == [i \in 1 .. n |-> buf.from + i]
<1>4. n \in Nat /\ n >= 1 /\ n <= bytesLeft
  BY <1>1
<1>5. piece \in Seq(Nat) /\ Len(piece) = n /\ \A i \in 1 .. n : piece[i] = buf.from + i
  <2>1. \A i \in 1 .. n : buf.from + i \in Nat
    BY <1>1
  <2>2. piece \in [1 .. n -> Nat]
    BY <2>1
  <2>3. \A i \in 1 .. n : piece[i] = buf.from + i
    OBVIOUS
  <2> HIDE DEF piece
  <2> QED
    BY <1>4, <2>2, <2>3
<1>6. wire' = wire \o piece
  BY <1>3
<1> HIDE DEF piece
<1>7. wire' \in Seq(Nat) /\ Len(wire') = Len(wire) + n
  <2>1. \A s, t \in Seq(Nat) : s \o t \in Seq(Nat) /\ Len(s \o t) = Len(s) + Len(t)
    OBVIOUS
  <2>2. wire \in Seq(Nat) /\ piece \in Seq(Nat) /\ Len(piece) = n
    BY <1>1, <1>5
  <2> QED
    BY <1>6, <2>1, <2>2
<1>8. /\ \A i \in 1 .. Len(wire) : wire'[i] = wire[i]
      /\ \A i \in 1 .. n : wire'[Len(wire) + i] = buf.from + i
  <2>1. \A i \in 1 .. Len(wire) : wire'[i] = wire[i]
    BY <1>1, <1>5, <1>6, <1>7
  <2>2. \A i \in 1 .. n : wire'[Len(wire) + i] = buf.from + i
    <3> TAKE i \in 1 .. n
    <3>1. Len(wire) + i \in Len(wire) + 1 .. Len(wire) + n /\ (Len(wire) + i) - Len(wire) = i
      BY <1>1, <1>4
    <3>2. wire'[Len(wire) + i] = piece[(Len(wire) + i) - Len(wire)]
      BY <1>1, <1>4, <1>5, <1>6, <1>7, <3>1
    <3> QED
      BY <1>5, <3>1, <3>2
  <2> QED
    BY <2>1, <2>2
<1>9. Len(wire) + bytesLeft = buf.from + buf.count
  BY DEF IInv, Parts
<1>10. Parts'
  <2>1. Len(wire) + bytesLeft = readTo /\ buf.from + buf.count = readTo
    BY DEF IInv, Parts
  <2>2. Len(wire') + bytesLeft' = readTo
    <3>1. bytesLeft' = bytesLeft - n
      BY <1>3
    <3>2. Len(wire) \in Nat /\ bytesLeft \in Nat /\ n \in Nat
      BY <1>1, <1>4
    <3>3. \A a, b, c \in Nat : (a + c) + (b - c) = a + b
      OBVIOUS
    <3>4. (Len(wire) + n) + (bytesLeft - n) = Len(wire) + bytesLeft
      BY <3>2, <3>3
    <3>5. Len(wire') = Len(wire) + n
      BY <1>7
    <3> QED
      BY <2>1, <3>1, <3>4, <3>5, Zenon
  <2> QED
    BY <1>2, <2>1, <2>2 DEF Parts
<1>11. AtEnd'
  BY <1>2 DEF IInv, AtEnd
<1>12. Displaced'
  <2>0. again <=> \E i \in 1 .. Len(wire) : wire[i] # i
    BY DEF IInv, Displaced
  <2>4. again' \in BOOLEAN
    BY DEF TypeInv, TypeOK
  <2>1. CASE again
    <3>1. PICK i \in 1 .. Len(wire) : wire[i] # i
      BY <2>0, <2>1
    <3>2. i \in 1 .. Len(wire') /\ wire'[i] # i
      BY <1>1, <1>4, <1>7, <1>8, <3>1
    <3> QED
      BY <1>2, <2>1, <3>2 DEF Displaced
  <2>2. CASE ~again /\ bytesLeft < buf.count
    <3>1. /\ Len(wire) + 1 \in 1 .. Len(wire')
          /\ wire'[Len(wire) + 1] = buf.from + 1
      BY <1>1, <1>4, <1>7, <1>8
    <3>2. buf.from + 1 # Len(wire) + 1
      BY <1>1, <1>9, <2>2
    <3> QED
      BY <1>2, <2>2, <3>1, <3>2 DEF Displaced
  <2>3. CASE ~again /\ ~(bytesLeft < buf.count)
    <3>1. buf.from = Len(wire)
      BY <1>1, <1>9, <2>3
    <3>2. \A i \in 1 .. Len(wire') : wire'[i] = i
      <4> TAKE i \in 1 .. Len(wire')
      <4>1. CASE i <= Len(wire)
        BY <1>1, <1>7, <1>8, <2>3, <4>1 DEF IInv, Displaced
      <4>2. CASE i > Len(wire)
        <5>1. i - Len(wire) \in 1 .. n /\ Len(wire) + (i - Len(wire)) = i
          BY <1>1, <1>4, <1>7, <4>2
        <5>2. wire'[Len(wire) + (i - Len(wire))] = buf.from + (i - Len(wire))
          BY <1>8, <5>1
        <5> QED
          BY <1>1, <3>1, <5>1, <5>2
      <4> QED
        BY <1>1, <1>7, <4>1, <4>2
    <3> QED
      BY <1>2, <2>3, <3>2 DEF Displaced
  <2> QED
    BY <1>1, <2>1, <2>2, <2>3
<1>13. InInt'
  <2> SUFFICES ASSUME len <= IntMax PROVE total' = Len(wire')
    BY <1>2 DEF InInt
  <2>1. total = Len(wire) /\ Len(wire) + bytesLeft = readTo
    BY DEF IInv, InInt, Parts
  <2>2. total + n \in 0 .. IntMax
    BY <1>1, <1>4, <2>1, SendAssumption
  <2> QED
    BY <1>3, <1>7, <2>1, <2>2, IntKept
<1> QED
  BY <1>10, <1>11, <1>12, <1>13 DEF IInv

LEMMA NextHolds == IInv /\ [Next]_vars => IInv'
<1> SUFFICES ASSUME IInv, [Next]_vars PROVE IInv'
  OBVIOUS
<1>0. TypeInv'
  BY TypeNext DEF IInv
<1>1. CASE Read
  BY <1>0, <1>1, ReadHolds
<1>2. CASE Send
  BY <1>0, <1>2, SendHolds
<1>3. CASE SendFails
  BY <1>0, <1>3 DEF SendFails, IInv, Parts, AtEnd, Displaced, InInt
<1>4. CASE Finish
  <2>1. Len(wire) = readTo /\ (outcome' = "returned" => eof)
    BY <1>4 DEF Finish, Verdict, IInv, TypeInv, TypeOK, Parts
  <2> QED
    BY <1>0, <1>4, <2>1 DEF Finish, IInv, Parts, AtEnd, Displaced, InInt
<1>5. CASE UNCHANGED vars
  BY <1>0, <1>5 DEF vars, IInv, Parts, AtEnd, Displaced, InInt
<1> QED
  BY <1>1, <1>2, <1>3, <1>4, <1>5 DEF Next

LEMMA Holds == Spec => []IInv
  BY InitHolds, NextHolds, PTL DEF Spec

(* Connection::send(NetworkDataStream&), whatever pieces ::send takes: as  *)
(* many bytes as the stream has are out when it returns, and one is out of *)
(* place exactly when a chunk needed a second ::send (send:164-169).       *)
THEOREM DisplacedBySecondSend == Spec => []SentUnlessAgain
<1>1. IInv => SentUnlessAgain
  BY IInvImplies
<1> QED
  BY <1>1, Holds, PTL

(* What send returns is the size of the file, which is what handle_get     *)
(* compares it with (ClientSession.cpp:237), exactly when an int can hold  *)
(* that size: for every width and every size, wrapped around or not.       *)
THEOREM CountMeetsSizeInInt == Spec => []CountMeetsSize
<1>1. IInv => CountMeetsSize
  BY IInvImplies
<1> QED
  BY <1>1, Holds, PTL

=============================================================================
