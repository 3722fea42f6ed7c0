----------------------------- MODULE SendStream -----------------------------
(***************************************************************************)
(* Connection::send of a stream: chunks are read from the stream into buf  *)
(* and handed to ::send, which takes all of them or, where Partial, what   *)
(* it pleases, as the comment at Connection.cpp:162 expects.  A byte is    *)
(* known by its position in the stream.                                    *)
(***************************************************************************)
EXTENDS Integers, Sequences

CONSTANTS
  MaxLen,    \* length of the longest stream (bound)
  Chunk,     \* CHUNK_SIZE
  IntMax,    \* largest value of an int
  Partial    \* TRUE: ::send may take a part of what it is given

ASSUME SendAssumption ==
  MaxLen \in Nat /\ Chunk \in Nat \ {0} /\ IntMax \in Nat \ {0} /\ Partial \in BOOLEAN

VARIABLES
  len,        \* length of the stream
  good, eof,  \* state of the stream
  readTo,     \* bytes read from it
  buf,        \* the chunk: the position before its first byte, and its length
  bytesLeft,  \* of the chunk
  total,      \* totalBytesSent
  wire,       \* what ::send has taken, in order
  outcome,    \* "running", "returned" or "thrown"
  again       \* ::send took something of a chunk begun before (history)

vars == <<len, good, eof, readTo, buf, bytesLeft, total, wire, outcome, again>>

(* An int of limited width wraps around.                                   *)
AsInt(n) == ((n + IntMax + 1) % (2 * IntMax + 2)) - IntMax - 1

Init ==
  /\ len \in 0 .. MaxLen
  /\ good = TRUE /\ eof = FALSE /\ readTo = 0
  /\ buf = [from |-> 0, count |-> 0] /\ bytesLeft = 0 /\ total = 0
  /\ wire = << >> /\ outcome = "running" /\ again = FALSE

\* Mutant: the chunk read last is dropped because the stream is not good any more.
Gcount_FullOnly(n) == IF n < Chunk THEN 0 ELSE n

(* gcount: the bytes read count even when the stream ended among them.     *)
Gcount(n) == n

(* stream.read: fewer than Chunk bytes are the end of the stream.  A read  *)
(* may also fail.                                                          *)
Read ==
  /\ outcome = "running" /\ bytesLeft = 0 /\ good
  /\ \E n \in {IF len - readTo < Chunk THEN len - readTo ELSE Chunk} :
       \/ /\ readTo' = readTo + n
          /\ buf' = [from |-> readTo, count |-> Gcount(n)]
          /\ good' = (n = Chunk) /\ eof' = (n < Chunk)
       \/ /\ good' = FALSE
          /\ buf' = [from |-> readTo, count |-> 0]
          /\ UNCHANGED <<readTo, eof>>
  /\ bytesLeft' = buf'.count
  /\ UNCHANGED <<len, total, wire, outcome, again>>

\* Mutant: the number of the last bytes sent is taken for the number of all.
Counted_Last(n) == AsInt(n)

(* totalBytesSent += bytesSent.                                            *)
Counted(n) == AsInt(total + n)

\* Mutant: a whole chunk is taken off, however many bytes it had.
LeftAfter_Chunk(n) == bytesLeft - Chunk

(* bytesLeft -= bytesSent.                                                 *)
LeftAfter(n) == bytesLeft - n

(* ::send(socket_, buf, bytesLeft): whatever was taken before, the bytes   *)
(* are those at the beginning of buf.                                      *)
Send ==
  /\ outcome = "running" /\ bytesLeft > 0
  /\ \E n \in IF Partial THEN 1 .. bytesLeft ELSE {bytesLeft} :
       /\ wire' = wire \o [i \in 1 .. n |-> buf.from + i]
       /\ bytesLeft' = LeftAfter(n)
       /\ total' = Counted(n)
  /\ again' = (again \/ bytesLeft < buf.count)
  /\ UNCHANGED <<len, good, eof, readTo, buf, outcome>>

(* ::send returns SOCKET_ERROR.                                            *)
SendFails ==
  /\ outcome = "running" /\ bytesLeft > 0
  /\ outcome' = "thrown"
  /\ UNCHANGED <<len, good, eof, readTo, buf, bytesLeft, total, wire, again>>

(* A stream that is at its end has been sent; any other throws.            *)
Verdict == IF eof THEN "returned" ELSE "thrown"

Finish ==
  /\ outcome = "running" /\ bytesLeft = 0 /\ ~good
  /\ outcome' = Verdict
  /\ UNCHANGED <<len, good, eof, readTo, buf, bytesLeft, total, wire, again>>

Next == Read \/ Send \/ SendFails \/ Finish
Spec == Init /\ [][Next]_vars

-----------------------------------------------------------------------------
TypeOK ==
  /\ len \in Nat /\ good \in BOOLEAN /\ eof \in BOOLEAN
  /\ readTo \in 0 .. len
  /\ buf \in [from : 0 .. len, count : 0 .. Chunk]
  /\ bytesLeft \in 0 .. Chunk
  /\ total \in -IntMax - 1 .. IntMax
  /\ wire \in Seq(1 .. len) /\ outcome \in {"running", "returned", "thrown"}
  /\ again \in BOOLEAN

(* send:162: "it's quite possible the entire chunk won't fit into a single *)
(* send, so call send multiple times if necessary".  So what goes out is   *)
(* the beginning of the stream, nothing twice and nothing left out, and    *)
(* all of it when send returns.                                            *)
SentIsStream ==
  /\ wire = [i \in 1 .. Len(wire) |-> i]
  /\ outcome = "returned" => Len(wire) = len

(* What send does keep.  As many bytes as the stream has are out when it   *)
(* returns, whatever pieces ::send took.  They are the bytes of the stream *)
(* as long as no chunk needed a second ::send; from the first that did on, *)
(* a byte that was sent before is where another should be (send:165 passes *)
(* the beginning of buf each time).                                        *)
SentUnlessAgain ==
  /\ outcome = "returned" => Len(wire) = len
  /\ again <=> \E i \in 1 .. Len(wire) : wire[i] # i

(* handle_get compares what send returned with the size of the file        *)
(* (ClientSession.cpp:237).  They agree exactly for a file whose size an   *)
(* int can hold, also when the bytes sent were the wrong ones.             *)
CountMeetsSize == outcome = "returned" => (total = len <=> len <= IntMax)

=============================================================================
