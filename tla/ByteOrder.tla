----------------------------- MODULE ByteOrder -----------------------------
(***************************************************************************)
(* Numbers as bytes: in the memory of a host that stores the least or the  *)
(* most significant byte first, and in a NetworkDataStream, which is to    *)
(* hold the most significant byte first whatever the host.                 *)
(***************************************************************************)
EXTENDS Integers, SequencesExt

CONSTANT Base    \* values of a byte (bound: 256 in the code)

ASSUME BaseAssumption == Base \in Nat \ {0, 1}

Orders == {"big", "little"}
Byte   == 0 .. Base - 1

(* How many numbers w bytes can hold: Base to the w.                       *)
Values(w) ==
  LET held[k \in 0 .. w] == IF k = 0 THEN 1 ELSE held[k - 1] * Base
  IN  held[w]

(* The w bytes of n, most significant first, and back.                     *)
Digits(n, w) ==
  LET rest[k \in 0 .. w] == IF k = 0 THEN n ELSE rest[k - 1] \div Base
  IN  [i \in 1 .. w |-> rest[w - i] % Base]

Number(bytes) ==
  LET read[k \in 0 .. Len(bytes)] == IF k = 0 THEN 0 ELSE read[k - 1] * Base + bytes[k]
  IN  read[Len(bytes)]

(* The bytes of a variable of w bytes, and the variable with these bytes.  *)
InMemory(n, w, host) == IF host = "little" THEN Reverse(Digits(n, w)) ELSE Digits(n, w)
FromMemory(b, host)  == Number(IF host = "little" THEN Reverse(b) ELSE b)

(* htons, htonl, htobe64: the number whose memory is in network order.     *)
ToNetwork(n, w, host) == FromMemory(Digits(n, w), host)

(* ntohs, ntohl, be64toh: the number the memory of n says in that order.   *)
ToHost(n, w, host) == Number(InMemory(n, w, host))

(* operator<< of a number of w bytes and operator>> of as many.            *)
Inserted(n, w, host)   == InMemory(ToNetwork(n, w, host), w, host)
Extracted(bytes, host) == ToHost(FromMemory(bytes, host), Len(bytes), host)

=============================================================================
