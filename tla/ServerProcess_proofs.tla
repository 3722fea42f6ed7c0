------------------------ MODULE ServerProcess_proofs ------------------------
(***************************************************************************)
(* The threads of the server share the loop of main, its two streams and   *)
(* the end of the process: proved for any number of clients, any backlog   *)
(* and any number of descriptors.                                          *)
(***************************************************************************)
EXTENDS ServerProcess, TLAPS

USE ServerAssumption

IInv == TypeOK /\ LinesAreWhole

-----------------------------------------------------------------------------
(* Where a thread goes on after a line: main stays in main, a client's     *)
(* thread stays alive.                                                     *)
LEMMA PrintsLemma ==
  /\ DOMAIN Prints =
       {"listening", "warn", "warnAgain", "error", "connected", "failed", "ended"}
  /\ \A p \in DOMAIN Prints :
       /\ Prints[p].on \in Streams
       /\ p \in MainPoints => Prints[p].then \in {"test", "warnAgain", "leaving"}
       /\ p \in ClientPoints => Prints[p].then \in {"serving", "ended", "closing"}
BY DEF Prints, Streams, MainPoints, ClientPoints, Alive

LEMMA GotoLemma ==
  ASSUME TypeOK, NEW t \in Threads, NEW p, Goto(t, p),
         t = Main => p \in MainPoints, t # Main => p \in ClientPoints
  PROVE  /\ pc' \in [Threads -> MainPoints \cup ClientPoints]
         /\ pc'[Main] \in MainPoints /\ \A c \in Clients : pc'[c] \in ClientPoints
         /\ pc'[t] = p /\ \A u \in Threads \ {t} : pc'[u] = pc[u]
BY DEF TypeOK, Goto, Threads

(* The end of the process leaves main gone and no thread alive.            *)
LEMMA EndsLemma ==
  ASSUME TypeOK, ProcessEnds
  PROVE  /\ pc' \in [Threads -> MainPoints \cup ClientPoints] /\ Gone'
         /\ \A c \in Clients : pc'[c] \in ClientPoints \ Alive
<1>1. \A c \in Clients : c # Main /\ pc'[c] \in ClientPoints \ Alive
  BY DEF TypeOK, ProcessEnds, Threads, ClientPoints, Alive
<1>2. Gone'
  BY DEF ProcessEnds, Threads, Gone
<1>3. pc'[Main] \in MainPoints
  BY <1>2 DEF Gone, MainPoints
<1> QED
  BY <1>1, <1>2, <1>3 DEF ProcessEnds, Threads

LEMMA InitHolds == Init => IInv
<1> SUFFICES ASSUME Init PROVE IInv
  OBVIOUS
<1>1. pc[Main] = "setup" /\ \A c \in Clients : pc[c] = "away"
  BY DEF Init, Threads
<1>2. pc \in [Threads -> MainPoints \cup ClientPoints]
  BY DEF Init, MainPoints, ClientPoints
<1> QED
  BY <1>1, <1>2 DEF Init, IInv, TypeOK, LinesAreWhole, MainPoints,
                    ClientPoints, Threads

-----------------------------------------------------------------------------
(* A thread that begins a line has the lock nobody had; one that ends it   *)
(* gives it back and takes no other thread's.                              *)
LEMMA BeginPrintHolds ==
  ASSUME IInv, NEW t \in Threads, BeginPrint(t)
  PROVE  IInv'
<1> DEFINE s == Prints[pc[t]].on
<1>1. /\ pc[t] \in DOMAIN Prints /\ lock[s] = Nobody /\ lock' = [lock EXCEPT ![s] = t]
      /\ saying' = saying \cup {t} /\ UNCHANGED <<run, pc>>
  BY DEF BeginPrint, Free
<1>2. s \in Streams
  BY <1>1, PrintsLemma
<1>3. /\ lock \in [Streams -> Threads \cup {Nobody}] /\ saying \subseteq Threads
      /\ Nobody \notin Threads
  BY DEF IInv, TypeOK, Threads
<1>4. TypeOK'
  <2>1. lock' \in [Streams -> Threads \cup {Nobody}] /\ saying' \subseteq Threads
    BY <1>1, <1>2, <1>3
  <2> QED
    BY <1>1, <2>1 DEF IInv, TypeOK
<1>5. LinesAreWhole'
  <2> SUFFICES ASSUME NEW u \in saying', ~Gone'
               PROVE  pc'[u] \in DOMAIN Prints /\ lock'[Prints[pc'[u]].on] = u
    BY DEF LinesAreWhole
  <2>1. CASE u = t
    BY <1>1, <1>2, <1>3, <2>1
  <2>2. CASE u # t
    <3>1. u \in saying /\ ~Gone
      BY <1>1, <2>2 DEF Gone
    <3>2. pc[u] \in DOMAIN Prints /\ lock[Prints[pc[u]].on] = u
      BY <3>1 DEF IInv, LinesAreWhole
    <3>3. Prints[pc[u]].on # s
      BY <1>1, <1>3, <3>1, <3>2
    <3> QED
      BY <1>1, <1>2, <1>3, <3>2, <3>3
  <2> QED
    BY <2>1, <2>2
<1> QED
  BY <1>1, <1>4, <1>5 DEF IInv

LEMMA EndPrintHolds ==
  ASSUME IInv, NEW t \in Threads, EndPrint(t)
  PROVE  IInv'
<1> DEFINE s == Prints[pc[t]].on
           p == Prints[pc[t]].then
<1>1. /\ t \in saying /\ ~Gone /\ saying' = saying \ {t} /\ UNCHANGED run
      /\ lock' = [lock EXCEPT ![s] = Nobody] /\ Goto(t, p)
  BY DEF EndPrint, Released
<1>2. pc[t] \in DOMAIN Prints /\ lock[s] = t
  BY <1>1 DEF IInv, LinesAreWhole
<1>3. /\ s \in Streams
      /\ t = Main => p \in {"test", "warnAgain", "leaving"}
      /\ t # Main => p \in {"serving", "ended", "closing"}
  <2>1. (t = Main => pc[t] \in MainPoints) /\ (t # Main => pc[t] \in ClientPoints)
    BY DEF IInv, TypeOK, Threads
  <2> QED
    BY <1>2, <2>1, PrintsLemma
<1> HIDE DEF s, p
<1>4. /\ pc' \in [Threads -> MainPoints \cup ClientPoints]
      /\ pc'[Main] \in MainPoints /\ \A c \in Clients : pc'[c] \in ClientPoints
      /\ pc'[t] = p /\ \A u \in Threads \ {t} : pc'[u] = pc[u]
  <2>1. p \in MainPoints \/ t # Main
    BY <1>3 DEF MainPoints
  <2>2. p \in ClientPoints \/ t = Main
    BY <1>3 DEF ClientPoints, Alive
  <2> QED
    BY <1>1, <2>1, <2>2, GotoLemma DEF IInv
<1>5. TypeOK'
  BY <1>1, <1>3, <1>4 DEF IInv, TypeOK
<1>6. LinesAreWhole'
  <2> SUFFICES ASSUME NEW u \in saying'
               PROVE  pc'[u] \in DOMAIN Prints /\ lock'[Prints[pc'[u]].on] = u
    BY DEF LinesAreWhole
  <2>1. u \in saying /\ u # t /\ u \in Threads
    BY <1>1 DEF IInv, TypeOK
  <2>2. pc[u] \in DOMAIN Prints /\ lock[Prints[pc[u]].on] = u
    BY <1>1, <2>1 DEF IInv, LinesAreWhole
  <2>3. Prints[pc[u]].on # s
    BY <1>2, <2>1, <2>2 DEF s
  <2> QED
    BY <1>1, <1>3, <1>4, <2>1, <2>2, <2>3 DEF IInv, TypeOK
<1> QED
  BY <1>5, <1>6 DEF IInv

(* Any other step but the end of the process moves threads that are in the *)
(* middle of no line.                                                      *)
LEMMA SilentMove ==
  ASSUME IInv, UNCHANGED <<lock, saying>>,
         \A u \in Threads : pc[u] \in DOMAIN Prints => pc'[u] = pc[u],
         Gone => Gone'
  PROVE  LinesAreWhole'
BY DEF IInv, LinesAreWhole, TypeOK

LEMMA MoveHolds ==
  ASSUME IInv, UNCHANGED <<run, lock, saying>>, NEW t \in Threads, NEW p, Goto(t, p),
         pc[t] \notin DOMAIN Prints, pc[t] # "gone", 
         t = Main => p \in MainPoints, t # Main => p \in ClientPoints
  PROVE  IInv'
<1>1. /\ pc' \in [Threads -> MainPoints \cup ClientPoints]
      /\ pc'[Main] \in MainPoints /\ \A c \in Clients : pc'[c] \in ClientPoints
      /\ pc'[t] = p /\ \A u \in Threads \ {t} : pc'[u] = pc[u]
  BY GotoLemma DEF IInv
<1>2. TypeOK'
  BY <1>1 DEF IInv, TypeOK
<1>3. LinesAreWhole'
  BY <1>1, SilentMove DEF Gone, Threads
<1> QED
  BY <1>2, <1>3 DEF IInv

LEMMA EndHolds == ASSUME IInv, ProcessEnds, UNCHANGED <<run, lock, saying>> PROVE IInv'
<1>1. TypeOK'
  BY EndsLemma DEF IInv, TypeOK, Gone, MainPoints
<1>2. LinesAreWhole'
  BY EndsLemma DEF IInv, LinesAreWhole, Gone
<1> QED
  BY <1>1, <1>2 DEF IInv

LEMMA StopsHolds ==
  ASSUME IInv, NEW p \in {"leaving", "error"}, pc[Main] \in {"test", "select"},
         StopsListening(p), UNCHANGED <<run, lock, saying>>
  PROVE  IInv'
<1>1. /\ pc'[Main] = p
      /\ \A c \in Clients : pc'[c] = IF pc[c] = "queued" THEN "dropped" ELSE pc[c]
  BY DEF StopsListening, Threads
<1>2. \A c \in Clients : pc'[c] \in ClientPoints
  BY <1>1 DEF IInv, TypeOK, ClientPoints
<1>3. TypeOK'
  BY <1>1, <1>2 DEF StopsListening, IInv, TypeOK, MainPoints, Threads
<1>4. \A u \in Threads : pc[u] \in DOMAIN Prints => pc'[u] = pc[u]
  BY <1>1, PrintsLemma DEF Threads
<1>5. LinesAreWhole'
  BY <1>1, <1>4, SilentMove DEF Gone
<1> QED
  BY <1>3, <1>5 DEF IInv

LEMMA TestHolds == ASSUME IInv, Test PROVE IInv'
<1>1. CASE Stopped
  BY <1>1, StopsHolds DEF Test
<1>2. CASE ~Stopped
  BY <1>2, MoveHolds, PrintsLemma DEF Test, Threads, MainPoints
<1> QED
  BY <1>1, <1>2

LEMMA AcceptHolds == ASSUME IInv, NEW c \in Clients, Accept(c) PROVE IInv'
<1>1. /\ pc[Main] = "select" /\ pc[c] = "queued" /\ UNCHANGED <<run, lock, saying>>
      /\ c \in Threads /\ Main \in Threads /\ c # Main
  BY DEF Accept, Threads
<1>2. CASE pc' = [pc EXCEPT ![c] = "connected", ![Main] = "test"]
  <2>1. /\ pc'[c] = "connected" /\ pc'[Main] = "test"
        /\ \A u \in Threads \ {c, Main} : pc'[u] = pc[u]
    BY <1>1, <1>2 DEF IInv, TypeOK
  <2>2. pc'[Main] \in MainPoints /\ \A d \in Clients : pc'[d] \in ClientPoints
    BY <1>1, <2>1 DEF IInv, TypeOK, MainPoints, ClientPoints, Alive, Threads
  <2>3. TypeOK'
    BY <1>1, <1>2, <2>2 DEF IInv, TypeOK, Threads
  <2>4. LinesAreWhole'
    BY <1>1, <2>1, PrintsLemma, SilentMove DEF Gone
  <2> QED
    BY <2>3, <2>4 DEF IInv
<1>3. CASE ProcessEnds
  BY <1>1, <1>3, EndHolds
<1> QED
  BY <1>2, <1>3 DEF Accept

LEMMA NextHolds == IInv /\ [Next]_vars => IInv'
<1> SUFFICES ASSUME IInv, [Next]_vars PROVE IInv'
  OBVIOUS
<1>1. CASE CtrlC
  BY <1>1 DEF CtrlC, IInv, TypeOK, LinesAreWhole, Gone
<1>2. CASE Test
  BY <1>2, TestHolds
<1>3. CASE SetUp \/ SelectTimesOut
  BY <1>3, MoveHolds, PrintsLemma DEF SetUp, SelectTimesOut, Threads, MainPoints
<1>13. CASE WelcomeThrows
  BY <1>13, StopsHolds DEF WelcomeThrows
<1>4. ASSUME NEW c \in Clients, Accept(c) PROVE IInv'
  BY <1>4, AcceptHolds
<1>5. CASE AcceptFails
  BY <1>5, MoveHolds, PrintsLemma DEF AcceptFails, AfterAcceptError, Threads, MainPoints
<1>6. CASE Leave
  BY <1>6, EndHolds DEF Leave
<1>7. ASSUME NEW t \in Threads, BeginPrint(t) \/ EndPrint(t) PROVE IInv'
  BY <1>7, BeginPrintHolds, EndPrintHolds
<1>8. ASSUME NEW c \in Clients, Arrives(c) PROVE IInv'
  BY <1>8, MoveHolds, PrintsLemma DEF Arrives, Threads, ClientPoints
<1>9. ASSUME NEW c \in Clients, SessionEnds(c) PROVE IInv'
  BY <1>9, MoveHolds, PrintsLemma DEF SessionEnds, Threads, ClientPoints, Alive
<1>10. ASSUME NEW c \in Clients, Closes(c) PROVE IInv'
  BY <1>10, MoveHolds, PrintsLemma DEF Closes, Threads, ClientPoints
<1>11. ASSUME NEW c \in Clients, Signal(c) PROVE IInv'
  BY <1>11, EndHolds DEF Signal
<1>12. CASE UNCHANGED vars
  BY <1>12 DEF vars, IInv, TypeOK, LinesAreWhole, Gone
<1> QED
  BY <1>1, <1>2, <1>3, <1>4, <1>5, <1>6, <1>7, <1>8, <1>9, <1>10, <1>11, <1>12,
     <1>13 DEF Next, MainStep

LEMMA Holds == Spec => []IInv
  BY InitHolds, NextHolds, PTL DEF Spec

(* Every thread is at a point of its own program.                          *)
THEOREM ServerTypes == Spec => []TypeOK
<1>1. IInv => TypeOK
  BY DEF IInv
<1> QED
  BY <1>1, Holds, PTL

(* SyncStream::print: no two threads are in the middle of a line on one    *)
(* stream, however many there are.                                         *)
THEOREM PrintsAreWhole == Spec => []LinesAreWhole
<1>1. IInv => LinesAreWhole
  BY DEF IInv
<1> QED
  BY <1>1, Holds, PTL

=============================================================================
