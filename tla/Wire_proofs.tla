---------------------------- MODULE Wire_proofs ----------------------------
(***************************************************************************)
(* Numbers and messages as bytes, for every base, every width and both     *)
(* byte orders.  What the recursive definitions of ByteOrder compute is    *)
(* proved by induction, in the form of a least counterexample.             *)
(***************************************************************************)
EXTENDS Wire, WellFoundedInduction, TLAPS

-----------------------------------------------------------------------------
(* Induction: a set of numbers has a least one, a set that holds 0 and the *)
(* successor of each of its numbers up to w holds 0 .. w, and a function   *)
(* can be defined by recursion on 0 .. w.                                  *)
LEMMA LeastNat ==
  ASSUME NEW T \in SUBSET Nat, T # {}
  PROVE  \E k \in T : \A j \in T : k <= j
  <1> DEFINE R == OpToRel(<, Nat)
  <1>1. IsWellFoundedOn(R, Nat)
    BY NatLessThanWellFounded, Zenon
  <1>2. \A i, j \in Nat : i < j => <<i, j>> \in R
    BY DEF OpToRel
  <1> HIDE DEF R
  <1>3. T \subseteq Nat
    OBVIOUS
  <1>4. PICK k \in T : \A j \in T : ~ (<<j, k>> \in R)
    BY <1>1, <1>3, WFMin
  <1>5. \A j \in T : ~ (j < k)
    BY <1>2, <1>3, <1>4
  <1>6. \A j \in T : k <= j
    BY <1>3, <1>5
  <1> QED
    BY <1>6

LEMMA UpTo ==
  ASSUME NEW w \in Nat, NEW S, 0 \in S,
         \A k \in 1 .. w : k - 1 \in S => k \in S
  PROVE  0 .. w \subseteq S
  <1> DEFINE T == {k \in 0 .. w : k \notin S}
  <1> SUFFICES ASSUME T # {} PROVE FALSE
    OBVIOUS
  <1>1. T \in SUBSET Nat
    OBVIOUS
  <1>2. PICK k \in T : \A j \in T : k <= j
    <2> HIDE DEF T
    <2> QED BY <1>1, LeastNat
  <1>3. k \in 1 .. w
    OBVIOUS
  <1>4. k - 1 \in 0 .. w /\ k - 1 \notin T
    BY <1>2, <1>3
  <1> QED
    BY <1>3, <1>4

LEMMA Recursion ==
  ASSUME NEW w \in Nat, NEW a \in Nat, NEW step \in [1 .. w -> [Nat -> Nat]]
  PROVE  \E f \in [0 .. w -> Nat] :
           f[0] = a /\ \A k \in 1 .. w : f[k] = step[k][f[k - 1]]
  <1> DEFINE Starts(f, m) == f[0] = a /\ \A k \in 1 .. m : f[k] = step[k][f[k - 1]]
             S == {m \in 0 .. w : \E f \in [0 .. m -> Nat] : Starts(f, m)}
  <1>1. 0 \in S
    <2> DEFINE f == [k \in 0 .. 0 |-> a]
    <2>1. f \in [0 .. 0 -> Nat]
      OBVIOUS
    <2>2. Starts(f, 0)
      OBVIOUS
    <2> HIDE DEF f, Starts
    <2> QED
      BY <2>1, <2>2
  <1>2. ASSUME NEW m \in 1 .. w, m - 1 \in S PROVE m \in S
    <2>1. PICK f \in [0 .. m - 1 -> Nat] : Starts(f, m - 1)
      <3> HIDE DEF Starts
      <3> QED BY <1>2
    <2> DEFINE g == [k \in 0 .. m |-> IF k = m THEN step[m][f[m - 1]] ELSE f[k]]
    <2>2. g \in [0 .. m -> Nat]
      <3>1. step[m] \in [Nat -> Nat] /\ f[m - 1] \in Nat
        OBVIOUS
      <3>2. step[m][f[m - 1]] \in Nat
        BY <3>1
      <3>3. \A k \in 0 .. m : k # m => f[k] \in Nat
        OBVIOUS
      <3> QED
        BY <3>2, <3>3
    <2>3. Starts(g, m)
      <3>1. g[0] = a
        BY <2>1
      <3>2. ASSUME NEW k \in 1 .. m PROVE g[k] = step[k][g[k - 1]]
        <4>1. g[k - 1] = f[k - 1]
          OBVIOUS
        <4>2. CASE k = m
          BY <4>1, <4>2
        <4>3. CASE k \in 1 .. m - 1
          <5>1. g[k] = f[k]
            BY <4>3
          <5> QED
            BY <2>1, <4>1, <4>3, <5>1
        <4> QED
          BY <4>2, <4>3
      <3> QED
        BY <3>1, <3>2
    <2> HIDE DEF g, Starts
    <2>4. \E h \in [0 .. m -> Nat] : Starts(h, m)
      BY <2>2, <2>3
    <2>5. m \in 0 .. w
      OBVIOUS
    <2> QED
      BY <2>4, <2>5, Zenon
  <1>3. w \in S
    <2>1. \A m \in 1 .. w : m - 1 \in S => m \in S
      BY <1>2
    <2> HIDE DEF S
    <2>2. 0 .. w \subseteq S
      BY <1>1, <2>1, UpTo
    <2> QED
      BY <2>2
  <1> QED
    BY <1>3

(* How many numbers w bytes hold, as a recursive function.                 *)
LEMMA ValuesLemma ==
  ASSUME NEW w \in Nat
  PROVE  \E held \in [0 .. w -> Nat] :
           /\ held[0] = 1
           /\ \A k \in 1 .. w : held[k] = held[k - 1] * Base
           /\ Values(w) = held[w]
  <1> DEFINE step == [k \in 1 .. w |-> [v \in Nat |-> v * Base]]
             Is(f) == f = [k \in 0 .. w |-> IF k = 0 THEN 1 ELSE f[k - 1] * Base]
             held == CHOOSE f : Is(f)
  <1>1. step \in [1 .. w -> [Nat -> Nat]]
    BY BaseAssumption
  <1>2. \A k \in 1 .. w, v \in Nat : step[k][v] = v * Base
    OBVIOUS
  <1> HIDE DEF step
  <1>3. \E f \in [0 .. w -> Nat] : f[0] = 1 /\ \A k \in 1 .. w : f[k] = step[k][f[k - 1]]
    <2>1. 1 \in Nat
      OBVIOUS
    <2> QED
      BY <1>1, <2>1, Recursion
  <1>4. PICK f \in [0 .. w -> Nat] : f[0] = 1 /\ \A k \in 1 .. w : f[k] = step[k][f[k - 1]]
    BY <1>3
  <1>5. Is(f)
    <2>1. \A k \in 1 .. w : f[k - 1] \in Nat
      OBVIOUS
    <2>2. \A k \in 1 .. w : f[k] = f[k - 1] * Base
      BY <1>2, <1>4, <2>1
    <2>3. \A k \in 0 .. w : f[k] = IF k = 0 THEN 1 ELSE f[k - 1] * Base
      BY <1>4, <2>2
    <2> QED BY <2>3
  <1>6. Is(held)
    <2> HIDE DEF Is
    <2> QED BY <1>5
  <1> HIDE DEF held
  <1>7. held[0] = 1 /\ \A k \in 1 .. w : held[k] = held[k - 1] * Base
    BY <1>6
  <1>8. held \in [0 .. w -> Nat]
    <2> DEFINE S == {k \in 0 .. w : held[k] \in Nat}
    <2>1. 0 \in S
      BY <1>7
    <2>2. \A k \in 1 .. w : k - 1 \in S => k \in S
      BY <1>7, BaseAssumption
    <2> HIDE DEF S
    <2>3. 0 .. w \subseteq S
      BY <2>1, <2>2, UpTo
    <2>4. \A k \in 0 .. w : held[k] \in Nat
      BY <2>3 DEF S
    <2> QED
      BY <1>6, <2>4
  <1>9. Values(w) = held[w]
    BY DEF Values, held
  <1> QED
    BY <1>7, <1>8, <1>9

-----------------------------------------------------------------------------
(* Quotient and remainder by Base.                                         *)
LEMMA Division ==
  ASSUME NEW n \in Nat
  PROVE  /\ n \div Base \in Nat /\ n % Base \in Byte
         /\ (n \div Base) * Base + (n % Base) = n
  BY BaseAssumption DEF Byte

LEMMA Composition ==
  ASSUME NEW n \in Nat, NEW d \in Byte
  PROVE  /\ n * Base + d \in Nat
         /\ (n * Base + d) \div Base = n /\ (n * Base + d) % Base = d
  BY BaseAssumption DEF Byte

LEMMA Bounds ==
  /\ \A n, m \in Nat : n < m * Base => n \div Base < m
  /\ \A n, m \in Nat, d \in Byte : n < m => n * Base + d < m * Base
  BY BaseAssumption DEF Byte

(* What the recursive functions of Digits and Number satisfy.              *)
LEMMA DigitsLemma ==
  ASSUME NEW n \in Nat, NEW w \in Nat
  PROVE  \E rest \in [0 .. w -> Nat] :
           /\ rest[0] = n
           /\ \A k \in 1 .. w : rest[k] = rest[k - 1] \div Base
           /\ Digits(n, w) = [i \in 1 .. w |-> rest[w - i] % Base]
  <1> DEFINE step == [k \in 1 .. w |-> [v \in Nat |-> v \div Base]]
             Is(f) == f = [k \in 0 .. w |-> IF k = 0 THEN n ELSE f[k - 1] \div Base]
             rest == CHOOSE f : Is(f)
  <1>1. step \in [1 .. w -> [Nat -> Nat]]
    BY Division
  <1>2. \A k \in 1 .. w, v \in Nat : step[k][v] = v \div Base
    OBVIOUS
  <1> HIDE DEF step
  <1>3. PICK f \in [0 .. w -> Nat] : f[0] = n /\ \A k \in 1 .. w : f[k] = step[k][f[k - 1]]
    BY <1>1, Recursion
  <1>4. Is(f)
    <2>1. \A k \in 1 .. w : f[k] = f[k - 1] \div Base
      BY <1>2, <1>3
    <2> QED
      BY <1>3, <2>1
  <1>5. Is(rest)
    <2> HIDE DEF Is
    <2> QED
      BY <1>4
  <1> HIDE DEF rest
  <1>6. rest[0] = n /\ \A k \in 1 .. w : rest[k] = rest[k - 1] \div Base
    BY <1>5
  <1>7. rest \in [0 .. w -> Nat]
    <2> DEFINE S == {k \in 0 .. w : rest[k] \in Nat}
    <2>1. 0 \in S
      BY <1>6
    <2>2. ASSUME NEW k \in 1 .. w, k - 1 \in S PROVE k \in S
      <3>1. rest[k] \in Nat
        BY <1>6, <2>2, Division
      <3> QED
        BY <3>1
    <2>3. \A k \in 1 .. w : k - 1 \in S => k \in S
      BY <2>2
    <2> HIDE DEF S
    <2>4. 0 .. w \subseteq S
      BY <2>1, <2>3, UpTo
    <2>5. \A k \in 0 .. w : rest[k] \in Nat
      BY <2>4 DEF S
    <2> QED
      BY <1>5, <2>5
  <1>8. Digits(n, w) = [i \in 1 .. w |-> rest[w - i] % Base]
    BY DEF Digits, rest
  <1> QED
    BY <1>6, <1>7, <1>8

LEMMA NumberLemma ==
  ASSUME NEW b \in Seq(Byte)
  PROVE  \E read \in [0 .. Len(b) -> Nat] :
           /\ read[0] = 0
           /\ \A k \in 1 .. Len(b) : read[k] = read[k - 1] * Base + b[k]
           /\ Number(b) = read[Len(b)]
  <1> DEFINE w == Len(b)
             step == [k \in 1 .. w |-> [v \in Nat |-> v * Base + b[k]]]
             Is(f) == f = [k \in 0 .. w |-> IF k = 0 THEN 0 ELSE f[k - 1] * Base + b[k]]
             read == CHOOSE f : Is(f)
  <1>1. w \in Nat /\ \A k \in 1 .. w : b[k] \in Byte
    OBVIOUS
  <1>8. Number(b) = read[w]
    BY DEF Number
  <1> HIDE DEF w
  <1>2. step \in [1 .. w -> [Nat -> Nat]]
    BY <1>1, Composition
  <1>3. \A k \in 1 .. w, v \in Nat : step[k][v] = v * Base + b[k]
    OBVIOUS
  <1> HIDE DEF step
  <1>4. PICK f \in [0 .. w -> Nat] : f[0] = 0 /\ \A k \in 1 .. w : f[k] = step[k][f[k - 1]]
    BY <1>1, <1>2, Recursion
  <1>5. Is(f)
    <2>1. \A k \in 1 .. w : f[k] = f[k - 1] * Base + b[k]
      BY <1>1, <1>3, <1>4
    <2> QED
      BY <1>4, <2>1
  <1>6. Is(read)
    <2> HIDE DEF Is
    <2> QED
      BY <1>5
  <1> HIDE DEF read
  <1>7. read[0] = 0 /\ \A k \in 1 .. w : read[k] = read[k - 1] * Base + b[k]
    BY <1>1, <1>6
  <1>9. read \in [0 .. w -> Nat]
    <2> DEFINE S == {k \in 0 .. w : read[k] \in Nat}
    <2>1. 0 \in S
      BY <1>1, <1>7
    <2>2. ASSUME NEW k \in 1 .. w, k - 1 \in S PROVE k \in S
      <3>1. read[k] \in Nat
        BY <1>1, <1>7, <2>2, Composition
      <3> QED
        BY <3>1
    <2>3. \A k \in 1 .. w : k - 1 \in S => k \in S
      BY <2>2
    <2> HIDE DEF S
    <2>4. 0 .. w \subseteq S
      BY <1>1, <2>1, <2>3, UpTo
    <2>5. \A k \in 0 .. w : read[k] \in Nat
      BY <2>4 DEF S
    <2> QED
      BY <1>6, <2>5
  <1> QED
    BY <1>7, <1>8, <1>9 DEF w

(* The digits of the number that bytes say are these bytes.                *)
LEMMA NumberHasDigits ==
  ASSUME NEW b \in Seq(Byte)
  PROVE  /\ Number(b) \in Nat /\ Number(b) < Values(Len(b))
         /\ Digits(Number(b), Len(b)) = b
  <1> DEFINE w == Len(b)
  <1>1. w \in Nat /\ b \in [1 .. w -> Byte]
    OBVIOUS
  <1>2. PICK read \in [0 .. w -> Nat] :
               /\ read[0] = 0
               /\ \A k \in 1 .. w : read[k] = read[k - 1] * Base + b[k]
               /\ Number(b) = read[w]
    BY NumberLemma
  <1> HIDE DEF w
  <1>3. PICK held \in [0 .. w -> Nat] :
               /\ held[0] = 1
               /\ \A k \in 1 .. w : held[k] = held[k - 1] * Base
               /\ Values(w) = held[w]
    BY <1>1, ValuesLemma
  <1>4. read[w] \in Nat
    BY <1>1
  <1>5. PICK rest \in [0 .. w -> Nat] :
               /\ rest[0] = read[w]
               /\ \A k \in 1 .. w : rest[k] = rest[k - 1] \div Base
               /\ Digits(read[w], w) = [i \in 1 .. w |-> rest[w - i] % Base]
    BY <1>1, <1>4, DigitsLemma
  <1>6. read[w] < held[w]
    <2> DEFINE S == {k \in 0 .. w : read[k] < held[k]}
    <2>1. 0 \in S
      BY <1>1, <1>2, <1>3
    <2>2. ASSUME NEW k \in 1 .. w, k - 1 \in S PROVE k \in S
      <3>1. read[k - 1] \in Nat /\ held[k - 1] \in Nat /\ b[k] \in Byte
        BY <1>1
      <3>2. read[k - 1] < held[k - 1]
        BY <2>2
      <3>3. read[k - 1] * Base + b[k] < held[k - 1] * Base
        BY <3>1, <3>2, Bounds
      <3>4. read[k] < held[k]
        BY <1>2, <1>3, <3>3
      <3> QED
        BY <3>4
    <2>3. \A k \in 1 .. w : k - 1 \in S => k \in S
      BY <2>2
    <2> HIDE DEF S
    <2>4. 0 .. w \subseteq S
      BY <1>1, <2>1, <2>3, UpTo
    <2>6. w \in S
      BY <1>1, <2>4
    <2> QED
      BY <2>6 DEF S
  <1>7. \A k \in 0 .. w : rest[k] = read[w - k]
    <2> DEFINE S == {k \in 0 .. w : rest[k] = read[w - k]}
    <2>1. 0 \in S
      BY <1>1, <1>5
    <2>2. ASSUME NEW k \in 1 .. w, k - 1 \in S PROVE k \in S
      <3> DEFINE j == w - k
      <3>1. j \in 0 .. w /\ j + 1 \in 1 .. w /\ w - (k - 1) = j + 1
        BY <1>1
      <3>2. rest[k - 1] = read[j + 1]
        BY <2>2, <3>1
      <3>3. read[j + 1] = read[j] * Base + b[j + 1]
        BY <1>1, <1>2, <3>1
      <3>4. read[j] \in Nat /\ b[j + 1] \in Byte
        BY <1>1, <3>1
      <3>5. (read[j] * Base + b[j + 1]) \div Base = read[j]
        BY <3>4, Composition
      <3>6. rest[k] = rest[k - 1] \div Base
        BY <1>5
      <3>7. rest[k] = read[j]
        BY <3>2, <3>3, <3>5, <3>6
      <3> QED
        BY <3>7
    <2>3. \A k \in 1 .. w : k - 1 \in S => k \in S
      BY <2>2
    <2> HIDE DEF S
    <2>4. 0 .. w \subseteq S
      BY <1>1, <2>1, <2>3, UpTo
    <2> QED
      BY <2>4 DEF S
  <1>8. \A i \in 1 .. w : rest[w - i] % Base = b[i]
    <2>1. TAKE i \in 1 .. w
    <2>2. rest[w - i] = read[i]
      <3>1. w - i \in 0 .. w /\ w - (w - i) = i
        BY <1>1
      <3> QED
        BY <1>7, <3>1
    <2>3. read[i] = read[i - 1] * Base + b[i]
      BY <1>2
    <2>4. read[i - 1] \in Nat /\ b[i] \in Byte
      BY <1>1
    <2>5. (read[i - 1] * Base + b[i]) % Base = b[i]
      BY <2>4, Composition
    <2> QED
      BY <2>2, <2>3, <2>5
  <1>9. Digits(read[w], w) = b
    <2>1. [i \in 1 .. w |-> rest[w - i] % Base] = [i \in 1 .. w |-> b[i]]
      BY <1>8
    <2> QED
      BY <1>1, <1>5, <2>1
  <1> QED
    BY <1>2, <1>3, <1>4, <1>6, <1>9 DEF w

(* The number that the w digits of n say is n, if w bytes can hold it.     *)
LEMMA DigitsSayNumber ==
  ASSUME NEW n \in Nat, NEW w \in Nat, n < Values(w)
  PROVE  /\ Digits(n, w) \in Seq(Byte) /\ Len(Digits(n, w)) = w
         /\ Number(Digits(n, w)) = n
  <1> DEFINE b == Digits(n, w)
  <1>1. PICK rest \in [0 .. w -> Nat] :
               /\ rest[0] = n
               /\ \A k \in 1 .. w : rest[k] = rest[k - 1] \div Base
               /\ b = [i \in 1 .. w |-> rest[w - i] % Base]
    BY DigitsLemma
  <1> HIDE DEF b
  <1>2. PICK held \in [0 .. w -> Nat] :
               /\ held[0] = 1
               /\ \A k \in 1 .. w : held[k] = held[k - 1] * Base
               /\ Values(w) = held[w]
    BY ValuesLemma
  <1>3. b \in Seq(Byte) /\ Len(b) = w
    <2>1. \A i \in 1 .. w : rest[w - i] % Base \in Byte
      <3>1. TAKE i \in 1 .. w
      <3>2. w - i \in 0 .. w
        OBVIOUS
      <3>3. rest[w - i] \in Nat
        BY <3>2
      <3> QED
        BY <3>3, Division
    <2>2. [i \in 1 .. w |-> rest[w - i] % Base] \in Seq(Byte)
      BY <2>1
    <2>3. Len([i \in 1 .. w |-> rest[w - i] % Base]) = w
      OBVIOUS
    <2> QED
      BY <1>1, <2>2, <2>3
  <1>4. PICK read \in [0 .. w -> Nat] :
               /\ read[0] = 0
               /\ \A k \in 1 .. w : read[k] = read[k - 1] * Base + b[k]
               /\ Number(b) = read[w]
    BY <1>3, NumberLemma
  <1>5. rest[w] = 0
    <2> DEFINE S == {k \in 0 .. w : rest[k] < held[w - k]}
    <2>1. 0 \in S
      BY <1>1, <1>2
    <2>2. ASSUME NEW k \in 1 .. w, k - 1 \in S PROVE k \in S
      <3> DEFINE j == w - k
      <3>1. j \in 0 .. w /\ j + 1 \in 1 .. w /\ w - (k - 1) = j + 1
        OBVIOUS
      <3>2. rest[k - 1] < held[j + 1]
        BY <2>2, <3>1
      <3>3. held[j + 1] = held[j] * Base
        BY <1>2, <3>1
      <3>4. rest[k - 1] \in Nat /\ held[j] \in Nat
        BY <3>1
      <3>5. rest[k - 1] \div Base < held[j]
        BY <3>2, <3>3, <3>4, Bounds
      <3>6. rest[k] < held[j]
        BY <1>1, <3>5
      <3> QED
        BY <3>6
    <2>3. \A k \in 1 .. w : k - 1 \in S => k \in S
      BY <2>2
    <2> HIDE DEF S
    <2>4. 0 .. w \subseteq S
      BY <2>1, <2>3, UpTo
    <2>5. w \in S
      BY <2>4
    <2>6. rest[w] < held[0] /\ rest[w] \in Nat
      BY <2>5 DEF S
    <2> QED
      BY <1>2, <2>6
  <1>6. read[w] = n
    <2> DEFINE S == {k \in 0 .. w : read[k] = rest[w - k]}
    <2>1. 0 \in S
      BY <1>4, <1>5
    <2>2. ASSUME NEW k \in 1 .. w, k - 1 \in S PROVE k \in S
      <3> DEFINE j == w - k
      <3>1. j \in 0 .. w /\ j + 1 \in 1 .. w /\ w - (k - 1) = j + 1 /\ (j + 1) - 1 = j
        OBVIOUS
      <3>2. read[k - 1] = rest[j + 1]
        BY <2>2, <3>1
      <3>3. rest[j + 1] = rest[j] \div Base
        BY <1>1, <3>1
      <3>4. b[k] = rest[j] % Base
        BY <1>1
      <3>5. rest[j] \in Nat
        BY <3>1
      <3>6. read[k] = (rest[j] \div Base) * Base + (rest[j] % Base)
        BY <1>4, <3>2, <3>3, <3>4
      <3>7. read[k] = rest[j]
        BY <3>5, <3>6, Division
      <3> QED
        BY <3>7
    <2>3. \A k \in 1 .. w : k - 1 \in S => k \in S
      BY <2>2
    <2> HIDE DEF S
    <2>4. 0 .. w \subseteq S
      BY <2>1, <2>3, UpTo
    <2>5. w \in S
      BY <2>4
    <2>6. read[w] = rest[w - w]
      BY <2>5 DEF S
    <2> QED
      BY <1>1, <2>6
  <1> QED
    BY <1>3, <1>4, <1>6 DEF b

-----------------------------------------------------------------------------
(* The byte orders of the hosts.                                           *)

(* A byte is a number that any positive number of bytes can hold.          *)
LEMMA ValuesGrow ==
  /\ \A w \in Nat : Values(w) \in Nat
  /\ \A w \in Nat \ {0} : \A n \in Byte : n < Values(w)
  <1>1. ASSUME NEW w \in Nat
        PROVE  Values(w) \in Nat /\ (w # 0 => \A n \in Byte : n < Values(w))
    <2>1. PICK held \in [0 .. w -> Nat] :
                 /\ held[0] = 1
                 /\ \A k \in 1 .. w : held[k] = held[k - 1] * Base
                 /\ Values(w) = held[w]
      BY ValuesLemma
    <2> DEFINE S == {k \in 0 .. w : held[k] >= 1}
    <2>2. 0 \in S
      BY <2>1
    <2>3. ASSUME NEW k \in 1 .. w, k - 1 \in S PROVE k \in S
      <3>1. held[k - 1] \in Nat /\ held[k - 1] >= 1
        BY <2>3
      <3>2. held[k - 1] * Base >= 1
        BY <3>1, BaseAssumption
      <3>3. held[k] >= 1
        BY <2>1, <3>2
      <3> QED
        BY <3>3
    <2>4. \A k \in 1 .. w : k - 1 \in S => k \in S
      BY <2>3
    <2> HIDE DEF S
    <2>5. 0 .. w \subseteq S
      BY <2>2, <2>4, UpTo
    <2>6. ASSUME w # 0, NEW n \in Byte PROVE n < held[w]
      <3>1. w \in 1 .. w /\ w - 1 \in S
        BY <2>5, <2>6
      <3>2. held[w - 1] \in Nat /\ held[w - 1] >= 1
        BY <3>1 DEF S
      <3>3. held[w] = held[w - 1] * Base
        BY <2>1, <3>1
      <3>4. held[w - 1] * Base >= Base
        BY <3>2, BaseAssumption
      <3> QED
        BY <3>3, <3>4, BaseAssumption DEF Byte
    <2>7. held[w] \in Nat
      OBVIOUS
    <2> QED
      BY <2>1, <2>6, <2>7
  <1> QED
    BY <1>1

(* Reversing twice changes nothing.                                        *)
LEMMA Reversal ==
  ASSUME NEW S, NEW s \in Seq(S)
  PROVE  /\ Reverse(s) \in Seq(S) /\ Len(Reverse(s)) = Len(s)
         /\ Reverse(Reverse(s)) = s
  <1> DEFINE n == Len(s)
             r == Reverse(s)
  <1>1. n \in Nat /\ s \in [1 .. n -> S]
    OBVIOUS
  <1>2. r = [i \in 1 .. n |-> s[(n - i) + 1]]
    BY DEF Reverse
  <1> HIDE DEF n, r
  <1>3. \A i \in 1 .. n : (n - i) + 1 \in 1 .. n
    BY <1>1
  <1>4. r \in [1 .. n -> S]
    BY <1>1, <1>2, <1>3
  <1>5. r \in Seq(S) /\ Len(r) = n
    BY <1>1, <1>4
  <1>6. Reverse(r) = [i \in 1 .. n |-> r[(n - i) + 1]]
    BY <1>5 DEF Reverse
  <1>7. \A i \in 1 .. n : r[(n - i) + 1] = s[i]
    <2>1. TAKE i \in 1 .. n
    <2>2. (n - ((n - i) + 1)) + 1 = i
      BY <1>1
    <2> QED
      BY <1>2, <1>3, <2>2
  <1>8. Reverse(r) = s
    BY <1>1, <1>6, <1>7
  <1> QED
    BY <1>5, <1>8 DEF n, r

(* operator<< writes the most significant byte first on every host.        *)
LEMMA InsertedIsDigits ==
  ASSUME NEW n \in Nat, NEW w \in Nat, n < Values(w), NEW host
  PROVE  Inserted(n, w, host) = Digits(n, w)
  <1> DEFINE d == Digits(n, w)
  <1>1. d \in Seq(Byte) /\ Len(d) = w
    BY DigitsSayNumber
  <1>2. CASE host = "little"
    <2>1. Reverse(d) \in Seq(Byte) /\ Len(Reverse(d)) = w /\ Reverse(Reverse(d)) = d
      BY <1>1, Reversal
    <2>2. Digits(Number(Reverse(d)), w) = Reverse(d)
      BY <2>1, NumberHasDigits
    <2> QED
      BY <1>2, <2>1, <2>2 DEF Inserted, InMemory, ToNetwork, FromMemory
  <1>3. CASE host # "little"
    <2>1. Digits(Number(d), w) = d
      BY <1>1, NumberHasDigits
    <2> QED
      BY <1>3, <2>1 DEF Inserted, InMemory, ToNetwork, FromMemory
  <1> QED
    BY <1>2, <1>3

(* operator>> reads it so on every host.                                   *)
LEMMA ExtractedIsNumber ==
  ASSUME NEW b \in Seq(Byte), NEW host
  PROVE  Extracted(b, host) = Number(b)
  <1>1. CASE host = "little"
    <2>1. Reverse(b) \in Seq(Byte) /\ Len(Reverse(b)) = Len(b) /\ Reverse(Reverse(b)) = b
      BY Reversal
    <2>2. Digits(Number(Reverse(b)), Len(b)) = Reverse(b)
      BY <2>1, NumberHasDigits
    <2> QED
      BY <1>1, <2>1, <2>2 DEF Extracted, ToHost, InMemory, FromMemory
  <1>2. CASE host # "little"
    <2>1. Digits(Number(b), Len(b)) = b
      BY NumberHasDigits
    <2> QED
      BY <1>2, <2>1 DEF Extracted, ToHost, InMemory, FromMemory
  <1> QED
    BY <1>1, <1>2

(* What one host inserts into a NetworkDataStream another extracts, for    *)
(* every width and whatever the byte orders of the two (operator<< and     *)
(* operator>> of DataStream.cpp).                                          *)
THEOREM RoundTrip ==
  ASSUME NEW w \in Nat, NEW n \in 0 .. Values(w) - 1, NEW from \in Orders, NEW to \in Orders
  PROVE  Extracted(Inserted(n, w, from), to) = n
  <1>1. n \in Nat /\ n < Values(w)
    BY ValuesGrow
  <1>2. Inserted(n, w, from) = Digits(n, w) /\ Digits(n, w) \in Seq(Byte)
    BY <1>1, InsertedIsDigits, DigitsSayNumber
  <1>3. Number(Digits(n, w)) = n
    BY <1>1, DigitsSayNumber
  <1> QED
    BY <1>2, <1>3, ExtractedIsNumber

-----------------------------------------------------------------------------
(* Messages.                                                               *)

(* The messages a program makes: each field fits its bytes.                *)
IsMessage(m) ==
  \E id \in Byte, datalen \in 0 .. Values(DataBytes) - 1,
     port \in 0 .. Values(PortBytes) - 1, payload \in Seq(Byte) :
       m = Message(id, datalen, port, payload)

(* What Message makes is one.                                              *)
LEMMA MessageLemma ==
  ASSUME NEW id \in Byte, NEW datalen \in 0 .. Values(DataBytes) - 1,
         NEW port \in 0 .. Values(PortBytes) - 1, NEW payload \in Seq(Byte)
  PROVE  /\ IsMessage(Message(id, datalen, port, payload))
         /\ Message(id, datalen, port, payload).msgid = id
         /\ Message(id, datalen, port, payload).payload = payload
  <1>1. IsMessage(Message(id, datalen, port, payload))
    BY Zenon DEF IsMessage
  <1> QED
    BY <1>1 DEF Message

(* A part of a sequence that says what part says, from k on, is part.      *)
LEMMA Cut ==
  ASSUME NEW S, NEW all \in Seq(S), NEW part \in Seq(S), NEW k \in Nat,
         k + Len(part) <= Len(all), \A i \in 1 .. Len(part) : all[k + i] = part[i]
  PROVE  Slice(all, k, Len(part)) = part
  <1> DEFINE n == Len(part)
  <1>1. n \in Nat /\ part = [i \in 1 .. n |-> part[i]] /\ Len(all) \in Nat /\ k + n <= Len(all)
        /\ \A i \in 1 .. n : all[k + i] = part[i]
    OBVIOUS
  <1> HIDE DEF n
  <1>2. SubSeq(all, k + 1, k + n) = [i \in 1 .. n |-> all[k + i]]
    <2>1. (k + n) - (k + 1) + 1 = n
      BY <1>1
    <2>2. SubSeq(all, k + 1, k + n) = [i \in 1 .. (k + n) - (k + 1) + 1 |-> all[(k + 1) + i - 1]]
      BY <1>1
    <2>3. \A i \in 1 .. n : (k + 1) + i - 1 = k + i
      BY <1>1
    <2> QED
      BY <2>1, <2>2, <2>3
  <1>3. SubSeq(all, k + 1, k + n) = part
    BY <1>1, <1>2
  <1> QED
    BY <1>3 DEF Slice, n

(* The bytes of a message, cut where Parsed cuts them.                     *)
Joined(a, b, c, d, e) == a \o b \o c \o d \o e

Cuts(all, a, b, c, d, e) ==
  /\ Len(all) = Len(a) + Len(b) + Len(c) + Len(d) + Len(e)
  /\ Len(a) = 1 => all[1] = a[1]
  /\ Slice(all, Len(a), Len(b)) = b
  /\ Slice(all, Len(a) + Len(b), Len(c)) = c
  /\ Slice(all, Len(a) + Len(b) + Len(c), Len(d)) = d
  /\ Slice(all, Len(a) + Len(b) + Len(c) + Len(d), Len(e)) = e

LEMMA Fields ==
  ASSUME NEW a \in Seq(Byte), NEW b \in Seq(Byte), NEW c \in Seq(Byte),
         NEW d \in Seq(Byte), NEW e \in Seq(Byte)
  PROVE  Cuts(Joined(a, b, c, d, e), a, b, c, d, e)
  <1> DEFINE bytes == a \o b \o c \o d \o e
  <1>1. Len(bytes) = Len(a) + Len(b) + Len(c) + Len(d) + Len(e) /\ bytes \in Seq(Byte)
    OBVIOUS
  <1>2. \A i \in 1 .. Len(a) : bytes[i] = a[i]
    OBVIOUS
  <1>3. \A i \in 1 .. Len(b) : bytes[Len(a) + i] = b[i]
    OBVIOUS
  <1>4. \A i \in 1 .. Len(c) : bytes[Len(a) + Len(b) + i] = c[i]
    OBVIOUS
  <1>5. \A i \in 1 .. Len(d) : bytes[Len(a) + Len(b) + Len(c) + i] = d[i]
    OBVIOUS
  <1>6. \A i \in 1 .. Len(e) : bytes[Len(a) + Len(b) + Len(c) + Len(d) + i] = e[i]
    OBVIOUS
  <1>7. Len(a) \in Nat /\ Len(b) \in Nat /\ Len(c) \in Nat /\ Len(d) \in Nat /\ Len(e) \in Nat
    OBVIOUS
  <1> HIDE DEF bytes
  <1>8. Len(a) = 1 => bytes[1] = a[1]
    BY <1>2
  <1>9. Slice(bytes, Len(a), Len(b)) = b
    <2>1. Len(a) \in Nat /\ Len(a) + Len(b) <= Len(bytes)
      BY <1>1, <1>7
    <2> QED
      BY <1>1, <1>3, <2>1, Cut, Zenon
  <1>10. Slice(bytes, Len(a) + Len(b), Len(c)) = c
    <2>1. Len(a) + Len(b) \in Nat /\ Len(a) + Len(b) + Len(c) <= Len(bytes)
      BY <1>1, <1>7
    <2> QED
      BY <1>1, <1>4, <2>1, Cut, Zenon
  <1>11. Slice(bytes, Len(a) + Len(b) + Len(c), Len(d)) = d
    <2>1. Len(a) + Len(b) + Len(c) \in Nat /\ Len(a) + Len(b) + Len(c) + Len(d) <= Len(bytes)
      BY <1>1, <1>7
    <2> QED
      BY <1>1, <1>5, <2>1, Cut, Zenon
  <1>12. Slice(bytes, Len(a) + Len(b) + Len(c) + Len(d), Len(e)) = e
    <2>1. Len(a) + Len(b) + Len(c) + Len(d) \in Nat /\ Len(a) + Len(b) + Len(c) + Len(d) + Len(e) <= Len(bytes)
      BY <1>1, <1>7
    <2> QED
      BY <1>1, <1>6, <2>1, Cut, Zenon
  <1> QED
    BY <1>1, <1>8, <1>9, <1>10, <1>11, <1>12 DEF bytes, Joined, Cuts

(* One byte of a number below Base is the number.                          *)
LEMMA OneByte ==
  ASSUME NEW n \in Byte, NEW host
  PROVE  /\ Inserted(n, 1, host) \in Seq(Byte) /\ Len(Inserted(n, 1, host)) = 1
         /\ Inserted(n, 1, host)[1] = n
  <1> DEFINE d == Digits(n, 1)
  <1>1. n \in Nat /\ n < Values(1)
    BY ValuesGrow DEF Byte
  <1>2. d \in Seq(Byte) /\ Len(d) = 1 /\ Number(d) = n
    BY <1>1, DigitsSayNumber
  <1> HIDE DEF d
  <1>3. Number(d) = d[1]
    <2>1. PICK read \in [0 .. 1 -> Nat] :
                 /\ read[0] = 0
                 /\ \A k \in 1 .. 1 : read[k] = read[k - 1] * Base + d[k]
                 /\ Number(d) = read[1]
      BY <1>2, NumberLemma
    <2>2. read[1] = 0 * Base + d[1]
      BY <2>1
    <2>3. d[1] \in Byte
      BY <1>2
    <2>4. d[1] \in Int /\ 0 * Base = 0
      BY <2>3, BaseAssumption DEF Byte
    <2> QED
      BY <2>1, <2>2, <2>4
  <1>4. Inserted(n, 1, host) = d
    BY <1>1, InsertedIsDigits DEF d
  <1> QED
    BY <1>2, <1>3, <1>4

(* A field of w bytes is extracted as the number that was inserted.        *)
LEMMA Field ==
  ASSUME NEW w \in Nat, NEW n \in 0 .. Values(w) - 1, NEW host
  PROVE  /\ Inserted(n, w, host) \in Seq(Byte) /\ Len(Inserted(n, w, host)) = w
         /\ \A to : Extracted(Inserted(n, w, host), to) = n
         /\ Number(Inserted(n, w, host)) = n
  <1>1. n \in Nat /\ n < Values(w)
    BY ValuesGrow
  <1>2. Inserted(n, w, host) = Digits(n, w)
    BY <1>1, InsertedIsDigits
  <1>3. Digits(n, w) \in Seq(Byte) /\ Len(Digits(n, w)) = w /\ Number(Digits(n, w)) = n
    BY <1>1, DigitsSayNumber
  <1> QED
    BY <1>2, <1>3, ExtractedIsNumber

(* A message within the limit of send is as long as its header says and is *)
(* decoded to what it was.                                                 *)
LEMMA Arrives ==
  ASSUME NEW m, IsMessage(m), Fits(m.payload), NEW from, NEW to
  PROVE  /\ Parsed(Bytes(m, from), to) = m
         /\ Len(Bytes(m, from)) = MESSAGE_BYTE_LEN + Len(m.payload)
         /\ Number(Slice(Bytes(m, from), 1, LenBytes)) = MESSAGE_BYTE_LEN + Len(m.payload)
  <1>1. PICK id \in Byte, datalen \in 0 .. Values(DataBytes) - 1,
             port \in 0 .. Values(PortBytes) - 1, payload \in Seq(Byte) :
               m = Message(id, datalen, port, payload)
    BY DEF IsMessage
  <1>2. /\ LenBytes \in Nat /\ DataBytes \in Nat /\ PortBytes \in Nat /\ MaxPayload \in Nat
        /\ MESSAGE_BYTE_LEN \in Nat /\ MESSAGE_BYTE_LEN = 1 + LenBytes + DataBytes + PortBytes
        /\ MESSAGE_BYTE_LEN + MaxPayload < Values(LenBytes)
    BY WireAssumption DEF MESSAGE_BYTE_LEN
  <1> DEFINE len == MESSAGE_BYTE_LEN + Len(payload)
             a == Inserted(id, 1, from)
             b == Inserted(len, LenBytes, from)
             c == Inserted(datalen, DataBytes, from)
             d == Inserted(port, PortBytes, from)
             bytes == Joined(a, b, c, d, payload)
  <1>3. /\ m.msgid = id /\ m.datalen = datalen /\ m.port = port /\ m.payload = payload
        /\ m.msglen = MessageLength(payload)
    BY <1>1 DEF Message
  <1>4. len \in 0 .. Values(LenBytes) - 1 /\ MessageLength(payload) = len
    <2>1. Len(payload) \in Nat /\ Len(payload) <= MaxPayload
      BY <1>3 DEF Fits
    <2>2. Values(LenBytes) \in Nat
      BY <1>2, ValuesGrow
    <2>3. len \in Nat /\ len < Values(LenBytes)
      BY <1>2, <2>1, <2>2
    <2>4. len % Values(LenBytes) = len
      <3> HIDE DEF len
      <3> QED
        BY <2>2, <2>3
    <2> QED
      BY <2>2, <2>3, <2>4 DEF MessageLength
  <1>5. Bytes(m, from) = bytes
    BY <1>3, <1>4 DEF Bytes, Joined
  <1>6. /\ m.msglen = len
        /\ m = [msgid |-> id, msglen |-> len, datalen |-> datalen, port |-> port,
                payload |-> payload]
    BY <1>1, <1>4 DEF Message
  <1> HIDE DEF len
  <1>7. /\ a \in Seq(Byte) /\ Len(a) = 1 /\ a[1] = id
        /\ b \in Seq(Byte) /\ Len(b) = LenBytes /\ Extracted(b, to) = len /\ Number(b) = len
        /\ c \in Seq(Byte) /\ Len(c) = DataBytes /\ Extracted(c, to) = datalen
        /\ d \in Seq(Byte) /\ Len(d) = PortBytes /\ Extracted(d, to) = port
    BY <1>2, <1>4, OneByte, Field
  <1> HIDE DEF a, b, c, d
  <1>8. /\ Len(bytes) = 1 + LenBytes + DataBytes + PortBytes + Len(payload)
        /\ bytes[1] = id
        /\ Slice(bytes, 1, LenBytes) = b
        /\ Slice(bytes, 1 + LenBytes, DataBytes) = c
        /\ Slice(bytes, 1 + LenBytes + DataBytes, PortBytes) = d
        /\ Slice(bytes, 1 + LenBytes + DataBytes + PortBytes, Len(payload)) = payload
    <2>1. a \in Seq(Byte) /\ b \in Seq(Byte) /\ c \in Seq(Byte) /\ d \in Seq(Byte)
      BY <1>7
    <2>2. payload \in Seq(Byte)
      BY <1>1
    <2>3. bytes = Joined(a, b, c, d, payload)
      OBVIOUS
    <2> HIDE DEF bytes
    <2>4. Cuts(bytes, a, b, c, d, payload)
      BY <2>1, <2>2, <2>3, Fields
    <2> QED
      BY <1>7, <2>4 DEF Cuts
  <1> HIDE DEF bytes
  <1>9. len - MESSAGE_BYTE_LEN = Len(payload)
    BY <1>2 DEF len
  <1>10. Parsed(bytes, to) = m
    BY <1>2, <1>6, <1>7, <1>8, <1>9 DEF Parsed, IdOf, PortAt
  <1> QED
    BY <1>2, <1>3, <1>5, <1>7, <1>8, <1>10 DEF len

-----------------------------------------------------------------------------
(* The exchange.                                                           *)

(* A command is a message with the id of a command.                        *)
LEMMA CommandLemma ==
  ASSUME NEW m \in Commands
  PROVE  /\ IsMessage(m) /\ m.payload \in Seq(Byte)
         /\ m.msgid \in {MSGID.LS, MSGID.GET, MSGID.PUT, MSGID.QUIT}
  <1>1. /\ {MSGID.LS, MSGID.GET, MSGID.PUT, MSGID.QUIT} \subseteq Byte
        /\ Sizes \subseteq 0 .. Values(DataBytes) - 1
        /\ Ports \subseteq 0 .. Values(PortBytes) - 1
    BY WireAssumption, BaseAssumption DEF Byte, MSGID, MSGECODE
  <1>2. 0 \in 0 .. Values(DataBytes) - 1 /\ 0 \in 0 .. Values(PortBytes) - 1
    BY ValuesGrow, WireAssumption, BaseAssumption DEF Byte
  <1>3. \A n \in Nat : Name(n) \in Seq(Byte)
    BY BaseAssumption DEF Name, Byte
  <1>4. Names \subseteq Seq(Byte) /\ Goodbye \in Seq(Byte) /\ << >> \in Seq(Byte)
    BY <1>3, WireAssumption DEF Names, Goodbye
  <1>5. \/ \E p \in Ports : m = Message(MSGID.LS, 0, p, << >>)
        \/ \E p \in Ports, n \in Names : m = Message(MSGID.GET, 0, p, n)
        \/ \E s \in Sizes, p \in Ports, n \in Names : m = Message(MSGID.PUT, s, p, n)
        \/ m = Message(MSGID.QUIT, 0, 0, Goodbye)
    BY DEF Commands
  <1>6. PICK id \in {MSGID.LS, MSGID.GET, MSGID.PUT, MSGID.QUIT},
             datalen \in 0 .. Values(DataBytes) - 1,
             port \in 0 .. Values(PortBytes) - 1, payload \in Seq(Byte) :
               m = Message(id, datalen, port, payload)
    <2>1. CASE \E p \in Ports : m = Message(MSGID.LS, 0, p, << >>)
      BY <1>1, <1>2, <1>4, <2>1, Zenon
    <2>2. CASE \E p \in Ports, n \in Names : m = Message(MSGID.GET, 0, p, n)
      BY <1>1, <1>2, <1>4, <2>2, Zenon
    <2>3. CASE \E s \in Sizes, p \in Ports, n \in Names : m = Message(MSGID.PUT, s, p, n)
      BY <1>1, <1>2, <1>4, <2>3, Zenon
    <2>4. CASE m = Message(MSGID.QUIT, 0, 0, Goodbye)
      BY <1>1, <1>2, <1>4, <2>4, Zenon
    <2> QED
      BY <1>5, <2>1, <2>2, <2>3, <2>4, Zenon
  <1>7. id \in Byte
    BY <1>1
  <1>8. IsMessage(m)
    BY <1>6, <1>7 DEF IsMessage
  <1>9. m.msgid = id /\ m.payload = payload
    BY <1>6 DEF Message
  <1> QED
    BY <1>6, <1>8, <1>9, Zenon

(* Every command but QUIT has an answer, and only the error of a GET may   *)
(* be too long for a message.                                              *)
LEMMA AnswerLemma ==
  ASSUME NEW m \in Commands
  PROVE  /\ \A r \in Answers(m) : IsMessage(r)
         /\ \A r \in Answers(m) : ~Fits(r.payload) =>
              /\ m.msgid = MSGID.GET /\ r.msgid = MSGID.ERROR
              /\ Len(m.payload) + Frame > MaxPayload
         /\ Answers(m) = {} => m.msgid = MSGID.QUIT
  <1>1. /\ m.payload \in Seq(Byte)
        /\ m.msgid \in {MSGID.LS, MSGID.GET, MSGID.PUT, MSGID.QUIT}
    BY CommandLemma
  <1>2. /\ MSGID.OK \in Byte /\ MSGID.ERROR \in Byte
        /\ \A e \in DOMAIN MSGECODE : MSGECODE[e] \in Byte
    BY WireAssumption, BaseAssumption DEF Byte, MSGID, MSGECODE
  <1>3. /\ Sizes \subseteq 0 .. Values(DataBytes) - 1
        /\ 0 \in 0 .. Values(DataBytes) - 1
        /\ Byte \subseteq 0 .. Values(PortBytes) - 1
        /\ 0 \in 0 .. Values(PortBytes) - 1
    BY ValuesGrow, WireAssumption, BaseAssumption DEF Byte
  <1>4. ASSUME NEW s \in Seq(Byte)
        PROVE  Framed(s) \in Seq(Byte) /\ Len(Framed(s)) = Frame + Len(s)
    BY WireAssumption, BaseAssumption DEF Framed, Byte
  <1>5. << >> \in Seq(Byte) /\ Len(<< >>) = 0 /\ MaxPayload \in Nat /\ Frame \in Nat
    BY WireAssumption
  <1>6. ASSUME NEW s \in Sizes \cup {0}
        PROVE  IsMessage(Ok(s)) /\ Fits(Ok(s).payload)
    <2>1. Ok(s) = Message(MSGID.OK, s, 0, << >>) /\ Ok(s).payload = << >>
      BY DEF Ok, Message
    <2>2. s \in 0 .. Values(DataBytes) - 1
      BY <1>3
    <2>3. IsMessage(Message(MSGID.OK, s, 0, << >>))
      BY <1>2, <1>3, <1>5, <2>2, MessageLemma
    <2> QED
      BY <1>5, <2>1, <2>3 DEF Fits
  <1>7. ASSUME NEW e \in DOMAIN MSGECODE, NEW s \in Seq(Byte)
        PROVE  IsMessage(Emsg(MSGECODE[e], s)) /\ Emsg(MSGECODE[e], s).payload = s
    <2>1. /\ Emsg(MSGECODE[e], s) = Message(MSGID.ERROR, 0, MSGECODE[e], s)
          /\ Emsg(MSGECODE[e], s).payload = s
      BY DEF Emsg, Message
    <2>2. MSGECODE[e] \in 0 .. Values(PortBytes) - 1
      BY <1>2, <1>3
    <2>3. MSGID.ERROR \in Byte /\ 0 \in 0 .. Values(DataBytes) - 1 /\ s \in Seq(Byte)
      BY <1>2, <1>3, <1>7
    <2>4. IsMessage(Message(MSGID.ERROR, 0, MSGECODE[e], s))
      BY <2>2, <2>3, Zenon DEF IsMessage
    <2> QED
      BY <2>1, <2>4, Zenon
  <1>8. Fits(<< >>)
    BY <1>5 DEF Fits
  <1>9. DOMAIN MSGECODE = {"FAILED_TO_OPEN", "DOES_NOT_EXIST", "INVALID_FILENAME",
                           "NOT_A_FILE", "ALREADY_EXISTS", "UNKNOWN"}
    BY DEF MSGECODE
  <1>10. ASSUME NEW r \in Answers(m)
         PROVE  \/ \E s \in Sizes \cup {0} : r = Ok(s)
                \/ \E e \in DOMAIN MSGECODE : r = Emsg(MSGECODE[e], << >>)
                \/ /\ m.msgid = MSGID.GET
                   /\ \E e \in DOMAIN MSGECODE, s \in {m.payload, << >>} :
                        r = Emsg(MSGECODE[e], Framed(s))
                \/ \E s \in Sizes, p \in Ports : r = Message(MSGID.ERROR, s, p, << >>)
    <2>1. CASE m.msgid = MSGID.LS
      <3>1. MSGID.LS # MSGID.GET /\ MSGID.LS # MSGID.PUT
        BY DEF MSGID
      <3>2. Answers(m) = {Ok(s) : s \in Sizes}
        BY <2>1, <3>1 DEF Answers
      <3> QED
        BY <3>2, <1>10
    <2>2. CASE m.msgid = MSGID.GET
      <3>1. MSGID.GET # MSGID.LS
        BY DEF MSGID
      <3> QED
        BY <1>9, <2>2, <3>1 DEF Answers
    <2>3. CASE m.msgid = MSGID.PUT
      <3>1. MSGID.PUT # MSGID.LS /\ MSGID.PUT # MSGID.GET
        BY DEF MSGID
      <3> QED
        BY <1>9, <2>3, <3>1 DEF Answers
    <2>4. CASE m.msgid = MSGID.QUIT
      <3>1. MSGID.QUIT \notin {MSGID.LS, MSGID.GET, MSGID.PUT}
        BY DEF MSGID
      <3> QED
        BY <2>4, <3>1 DEF Answers
    <2> QED
      BY <1>1, <2>1, <2>2, <2>3, <2>4
  <1>14. ASSUME NEW s \in Sizes, NEW p \in Ports
         PROVE  /\ IsMessage(Message(MSGID.ERROR, s, p, << >>))
                /\ Message(MSGID.ERROR, s, p, << >>).payload = << >>
    <2>1. s \in 0 .. Values(DataBytes) - 1 /\ p \in 0 .. Values(PortBytes) - 1
      BY <1>3, WireAssumption
    <2>2. MSGID.ERROR \in Byte /\ << >> \in Seq(Byte)
      BY <1>2, <1>5
    <2>3. IsMessage(Message(MSGID.ERROR, s, p, << >>))
      BY <2>1, <2>2, Zenon DEF IsMessage
    <2> QED
      BY <2>3 DEF Message
  <1>11. ASSUME NEW r \in Answers(m) PROVE IsMessage(r)
    BY <1>1, <1>4, <1>5, <1>6, <1>7, <1>10, <1>14
  <1>12. ASSUME NEW r \in Answers(m), ~Fits(r.payload)
         PROVE  /\ m.msgid = MSGID.GET /\ r.msgid = MSGID.ERROR
                /\ Len(m.payload) + Frame > MaxPayload
    <2>7. r.payload # << >>
      BY <1>8, <1>12
    <2>8. ~ \E s \in Sizes \cup {0} : r = Ok(s)
      BY <1>6, <1>12
    <2>9. ~ \E e \in DOMAIN MSGECODE : r = Emsg(MSGECODE[e], << >>)
      BY <1>5, <1>7, <2>7
    <2>10. ~ \E s \in Sizes, p \in Ports : r = Message(MSGID.ERROR, s, p, << >>)
      BY <1>14, <2>7
    <2>2. /\ m.msgid = MSGID.GET
          /\ \E e \in DOMAIN MSGECODE, s \in {m.payload, << >>} :
               r = Emsg(MSGECODE[e], Framed(s))
      BY <1>10, <1>12, <2>8, <2>9, <2>10, Zenon
    <2>1. PICK e \in DOMAIN MSGECODE, s \in {m.payload, << >>} :
                 r = Emsg(MSGECODE[e], Framed(s))
      BY <2>2
    <2>3. s \in Seq(Byte) /\ Len(s) \in Nat /\ Len(s) <= Len(m.payload)
      <3>1. CASE s = m.payload
        BY <1>1, <3>1
      <3>2. CASE s = << >>
        BY <1>1, <3>2
      <3> QED
        BY <3>1, <3>2
    <2>4. r.payload = Framed(s)
      BY <1>4, <1>7, <2>1, <2>3
    <2>5. Frame + Len(s) > MaxPayload
      BY <1>4, <1>5, <1>12, <2>3, <2>4 DEF Fits
    <2>6. Len(m.payload) \in Nat
      BY <1>1
    <2>11. r.msgid = MSGID.ERROR
      <3>1. Emsg(MSGECODE[e], Framed(s)).msgid = MSGID.ERROR
        BY DEF Emsg, Message
      <3> QED
        BY <2>1, <3>1, Zenon
    <2>12. Len(m.payload) + Frame > MaxPayload
      BY <1>5, <2>3, <2>5, <2>6
    <2> QED
      BY <2>2, <2>11, <2>12
  <1>13. ASSUME Answers(m) = {} PROVE m.msgid = MSGID.QUIT
    <2>1. MSGID.GET # MSGID.LS /\ MSGID.PUT # MSGID.LS /\ MSGID.PUT # MSGID.GET
      BY DEF MSGID
    <2>2. ASSUME m.msgid = MSGID.LS PROVE FALSE
      <3>1. Answers(m) = {Ok(s) : s \in Sizes}
        BY <2>1, <2>2 DEF Answers
      <3> QED
        BY <1>13, <3>1, WireAssumption
    <2>3. m.msgid # MSGID.GET
      BY <1>13, <2>1 DEF Answers
    <2>4. m.msgid # MSGID.PUT
      BY <1>13, <2>1 DEF Answers
    <2> QED
      BY <1>1, <2>2, <2>3, <2>4
  <1> QED
    BY <1>11, <1>12, <1>13

(* Where the exchange is: what is on the wire is the message just sent,    *)
(* and the server works on the command it was given.                       *)
OnTheWire ==
  /\ phase = "sent" => Fits(command.payload) /\ wire = Bytes(command, order["client"])
  /\ phase = "answered" =>
       IsMessage(answer) /\ Fits(answer.payload) /\ wire = Bytes(answer, order["server"])
  /\ phase \notin {"sent", "answered"} => wire = << >>

Understood ==
  /\ phase \in {"sent", "asked", "answered"} => command \in Commands
  /\ phase \in {"asked", "answered"} => asked = command
  /\ phase = "prompt" => answered = answer

GoingOn == phase # "over" => ended = "no"

(* What the server has received fitted into a message.                     *)
Received == phase = "asked" => Fits(asked.payload)

WireInv == OnTheWire /\ Understood /\ GoingOn /\ Received /\ OnlyLongNamesRefused

(* Each step keeps it.                                                     *)
LEMMA WireStep == WireInv /\ [Next]_vars => WireInv'
  <1> SUFFICES ASSUME WireInv, [Next]_vars PROVE WireInv'
    OBVIOUS
  <1>1. CASE SendCommand
    <2>1. PICK m \in Commands :
            /\ command' = m
            /\ IF Fits(m.payload)
                 THEN phase' = "sent" /\ wire' = Bytes(m, order["client"]) /\ UNCHANGED ended
                 ELSE phase' = "over" /\ ended' = "client" /\ UNCHANGED wire
      BY <1>1 DEF SendCommand
    <2>2. UNCHANGED order /\ wire = << >> /\ ended = "no"
      BY <1>1 DEF SendCommand, WireInv, OnTheWire, GoingOn
    <2> QED
      BY <2>1, <2>2 DEF WireInv, OnTheWire, Understood, GoingOn, Received, OnlyLongNamesRefused
  <1>2. CASE ReceiveCommand
    <2>1. /\ phase = "sent" /\ phase' = "asked" /\ wire' = << >>
          /\ asked' = Parsed(wire, order["server"])
          /\ UNCHANGED <<command, ended>>
      BY <1>2 DEF ReceiveCommand
    <2>2. /\ command \in Commands /\ Fits(command.payload) /\ ended = "no"
          /\ wire = Bytes(command, order["client"])
      BY <2>1 DEF WireInv, OnTheWire, Understood, GoingOn
    <2>3. asked' = command
      BY <2>1, <2>2, CommandLemma, Arrives
    <2> QED
      BY <2>1, <2>2, <2>3 DEF WireInv, OnTheWire, Understood, GoingOn, Received, OnlyLongNamesRefused
  <1>3. CASE SendAnswer
    <2>1. PICK m \in Answers(asked) :
            /\ answer' = m
            /\ IF Fits(m.payload)
                 THEN /\ phase' = "answered" /\ wire' = Bytes(m, order["server"])
                      /\ UNCHANGED ended
                 ELSE phase' = "over" /\ ended' = "refused" /\ UNCHANGED wire
      BY <1>3 DEF SendAnswer
    <2>2. /\ UNCHANGED <<order, command, asked>>
          /\ asked = command /\ command \in Commands /\ wire = << >> /\ ended = "no"
      BY <1>3 DEF SendAnswer, WireInv, OnTheWire, Understood, GoingOn
    <2>3. /\ IsMessage(m)
          /\ ~Fits(m.payload) =>
               /\ asked.msgid = MSGID.GET /\ m.msgid = MSGID.ERROR
               /\ Len(asked.payload) + Frame > MaxPayload
      BY <2>2, AnswerLemma
    <2>4. Len(asked.payload) <= MaxPayload
      BY <1>3 DEF SendAnswer, WireInv, Received, Fits
    <2> QED
      BY <2>1, <2>2, <2>3, <2>4
         DEF WireInv, OnTheWire, Understood, GoingOn, Received, OnlyLongNamesRefused, IsMessage
  <1>4. CASE EndSession
    <2>1. /\ phase = "asked" /\ Answers(asked) = {} /\ phase' = "over"
          /\ ended' = IF asked.msgid = MSGID.QUIT THEN "quit" ELSE "unexpected"
          /\ UNCHANGED <<asked, wire>>
      BY <1>4 DEF EndSession
    <2>2. asked \in Commands /\ wire = << >>
      BY <2>1 DEF WireInv, OnTheWire, Understood
    <2>3. ended' = "quit"
      BY <2>1, <2>2, AnswerLemma
    <2> QED
      BY <2>1, <2>2, <2>3 DEF WireInv, OnTheWire, Understood, GoingOn, Received, OnlyLongNamesRefused
  <1>5. CASE ReceiveAnswer
    <2>1. /\ phase = "answered" /\ phase' = "prompt" /\ wire' = << >>
          /\ answered' = Parsed(wire, order["client"])
          /\ UNCHANGED <<answer, asked, ended>>
      BY <1>5 DEF ReceiveAnswer
    <2>2. /\ IsMessage(answer) /\ Fits(answer.payload) /\ ended = "no"
          /\ wire = Bytes(answer, order["server"])
      BY <2>1 DEF WireInv, OnTheWire, GoingOn
    <2>3. answered' = answer
      BY <2>1, <2>2, Arrives
    <2> QED
      BY <2>1, <2>2, <2>3 DEF WireInv, OnTheWire, Understood, GoingOn, Received, OnlyLongNamesRefused
  <1>7. CASE Unanswered
    BY <1>7 DEF Unanswered, WireInv, OnTheWire, Understood, GoingOn, Received,
                OnlyLongNamesRefused
  <1>6. CASE UNCHANGED vars
    BY <1>6 DEF vars, WireInv, OnTheWire, Understood, GoingOn, Received, OnlyLongNamesRefused, IsMessage
  <1> QED
    BY <1>1, <1>2, <1>3, <1>4, <1>5, <1>6, <1>7 DEF Next

LEMMA WireHolds == Spec => []WireInv
  <1>1. Init => WireInv
    BY DEF Init, WireInv, OnTheWire, Understood, GoingOn, Received, OnlyLongNamesRefused
  <1> QED
    BY <1>1, WireStep, PTL DEF Spec

(* Whatever the byte orders of the two hosts, the widths of the fields and *)
(* the names and sizes, receive decodes what send encoded: a command and   *)
(* its answer arrive with every field they were made with.                 *)
THEOREM FieldsArrive == Spec => []MessagesArrive
  <1>1. WireInv => MessagesArrive
    BY DEF WireInv, Understood, MessagesArrive
  <1> QED
    BY <1>1, WireHolds, PTL

(* The msglen of a header is the number of bytes that were sent: for no    *)
(* payload within MAX_PAYLOAD_LEN does the uint16_t wrap.                  *)
THEOREM HeaderIsRight == Spec => []LengthIsWhole
  <1>1. ASSUME NEW m, IsMessage(m), Fits(m.payload), NEW host, wire = Bytes(m, host)
        PROVE  /\ Number(Slice(wire, 1, LenBytes)) = Len(wire)
               /\ Len(wire) <= MESSAGE_BYTE_LEN + MaxPayload
    <2>1. /\ Len(wire) = MESSAGE_BYTE_LEN + Len(m.payload)
          /\ Number(Slice(wire, 1, LenBytes)) = MESSAGE_BYTE_LEN + Len(m.payload)
      BY <1>1, Arrives
    <2>2. m.payload \in Seq(Byte)
      BY <1>1 DEF IsMessage, Message
    <2>3. Len(m.payload) \in Nat /\ Len(m.payload) <= MaxPayload /\ MaxPayload \in Nat
      BY <1>1, <2>2, WireAssumption DEF Fits
    <2>4. MESSAGE_BYTE_LEN \in Nat
      BY WireAssumption DEF MESSAGE_BYTE_LEN
    <2> QED
      BY <2>1, <2>3, <2>4
  <1>2. WireInv => LengthIsWhole
    BY <1>1, CommandLemma DEF WireInv, OnTheWire, Understood, LengthIsWhole
  <1> QED
    BY <1>2, WireHolds, PTL

(* For every limit and every length of a name: when send refuses an answer *)
(* it is the error of a GET, whose name and the words of the error are too *)
(* long together; no OK and no answer of handle_ls or handle_put is refused*)
(* (ClientSession.cpp:167-187).                                            *)
THEOREM RefusedForLongNames == Spec => []OnlyLongNamesRefused
  <1>1. WireInv => OnlyLongNamesRefused
    BY DEF WireInv
  <1> QED
    BY <1>1, WireHolds, PTL

=============================================================================
