--------------------------- MODULE Welcome_proofs ---------------------------
(***************************************************************************)
(* What welcome keeps and when it stops, for every number of connections,  *)
(* every time given to select and every limit.                             *)
(***************************************************************************)
EXTENDS Welcome, TLAPS

USE WelcomeAssumption

(* The welcome socket is open in the whole of the loop, and not before.    *)
Listening ==
  /\ wpc = "setup" => sock = "none"
  /\ wpc \in {"create", "test", "select", "accept", "peer", "callback"}
       => sock = "open"

(* The select in progress has not outlived its timeout, and only the time  *)
(* spent in it may be beyond the limit.                                    *)
Timing ==
  /\ wpc \in {"setup", "create"} => elapsed = 0
  /\ wpc = "select" =>
       waited <= left /\ (TimeoutMs # 0 => elapsed <= TimeoutMs + waited)

(* After a connection handed over too late the loop goes no further than   *)
(* to its query.                                                           *)
Final   == {"callback", "test", "returned", "thrown"}
LastOne == late = 0 \/ (late = 1 /\ stop /\ wpc \in Final)

IInv == TypeOK /\ Listening /\ Timing /\ LastOne /\ NoDescriptorLost /\ InTime

(* Closing descriptors makes no connection wait or belong to welcome.      *)
LEMMA DiscardLemma ==
  ASSUME TypeOK, NEW cs \in SUBSET Conns
  PROVE  /\ Discard(cs) \in [Conns -> ConnState]
         /\ \A c \in Conns : Discard(cs)[c] = IF c \in cs THEN "closed" ELSE conn[c]
  BY DEF TypeOK, Discard, ConnState

(* Time does not run backwards, and stands still for who has no limit.     *)
LEMMA TimeLemma ==
  ASSUME TypeOK
  PROVE  /\ Spend(1) \in Nat /\ LeftAfter \in Int
         /\ TimeoutMs # 0 => Spend(1) = elapsed + 1
         /\ TimeoutMs \in Nat
         /\ wpc = "select" /\ waited <= left => LeftAfter \in 0 .. WaitTime
<1>1. TimeoutMs \in Nat
  BY DEF TimeoutMs
<1>2. LeftAfter \in Int /\ (wpc = "select" /\ waited <= left => LeftAfter \in 0 .. WaitTime)
  <2>1. left \in 0 .. WaitTime /\ waited \in 0 .. WaitTime /\ WaitTime \in Nat
    BY DEF TypeOK
  <2>2. LeftAfter \in {left, left - waited}
    BY DEF LeftAfter
  <2> QED
    BY <2>1, <2>2
<1> QED
  BY <1>1, <1>2 DEF TypeOK, Spend

LEMMA InitHolds == Init => IInv
<1> SUFFICES ASSUME Init PROVE IInv
  OBVIOUS
<1>1. TypeOK
  <2>1. conn \in [Conns -> ConnState]
    BY DEF Init, ConnState
  <2>2. left \in 0 .. WaitTime /\ waited \in 0 .. WaitTime
    BY DEF Init
  <2> QED
    BY <2>1, <2>2 DEF Init, TypeOK
<1>2. NoDescriptorLost
  BY DEF Init, NoDescriptorLost, In
<1>3. InTime
  <2>1. elapsed = 0 /\ WaitTime \in Nat
    BY DEF Init
  <2> QED
    BY <1>1, <2>1, TimeLemma DEF InTime
<1> QED
  BY <1>1, <1>2, <1>3 DEF Init, IInv, Listening, Timing, LastOne

LEMMA TypeStep == IInv /\ [Next]_vars => TypeOK'
<1> SUFFICES ASSUME IInv, [Next]_vars PROVE TypeOK'
  OBVIOUS
<1> USE DEF TypeOK
<1>0. TypeOK /\ Timing
  BY DEF IInv
<1>1. ASSUME NEW c \in Conns, ConnectionArrives(c) \/ PeerAborts(c) PROVE TypeOK'
  BY <1>0, <1>1 DEF ConnectionArrives, PeerAborts, ConnState
<1>2. CASE Interrupt
  BY <1>0, <1>2 DEF Interrupt
<1>3. CASE SetUp \/ OnCreate
  BY <1>0, <1>3 DEF SetUp, OnCreate
<1>4. CASE Test
  BY <1>0, <1>4, DiscardLemma DEF Test, Queued
<1>5. CASE Wait
  BY <1>0, <1>5, TimeLemma DEF Wait
<1>6. CASE SelectTimesOut
  BY <1>0, <1>6, TimeLemma DEF SelectTimesOut, Timing
<1>7. CASE SelectReady
  BY <1>0, <1>7, TimeLemma DEF SelectReady, Timing
<1>8. CASE SelectFails
  BY <1>0, <1>8, DiscardLemma DEF SelectFails, Queued
<1>9. ASSUME NEW c \in Conns, Accept(c) PROVE TypeOK'
  BY <1>0, <1>9 DEF Accept, ConnState
<1>10. CASE AcceptFails
  BY <1>0, <1>10 DEF AcceptFails
<1>11. CASE PeerUnknown
  BY <1>0, <1>11, DiscardLemma DEF PeerUnknown, In
<1>12. CASE AddressFails
  BY <1>0, <1>12, DiscardLemma DEF AddressFails, In, Queued
<1>13. CASE OnConnection
  BY <1>0, <1>13 DEF OnConnection
<1>14. CASE CallbackThrows
  BY <1>0, <1>14, DiscardLemma DEF CallbackThrows, In
<1>16. CASE CallbackReturns
  BY <1>0, <1>16 DEF CallbackReturns, AfterConnection, ConnState
<1>15. CASE UNCHANGED vars
  BY <1>0, <1>15 DEF vars
<1> QED
  BY <1>1, <1>2, <1>3, <1>4, <1>5, <1>6, <1>7, <1>8, <1>9, <1>10, <1>11, <1>12, <1>13,
     <1>14, <1>15, <1>16 DEF Next, LoopStep, CallbackStep

LEMMA ListeningStep == IInv /\ [Next]_vars => Listening'
  BY DEF IInv, Listening, Next, LoopStep, CallbackStep, vars, ConnectionArrives,
         PeerAborts, Interrupt, SetUp, OnCreate, Test, Wait, SelectTimesOut,
         SelectReady, SelectFails, Accept, AcceptFails, PeerUnknown, AddressFails,
         OnConnection, AfterConnection, CallbackReturns, CallbackThrows

LEMMA TimingStep == IInv /\ [Next]_vars => Timing' /\ InTime'
<1> SUFFICES ASSUME IInv, [Next]_vars PROVE Timing' /\ InTime'
  OBVIOUS
<1> USE DEF Timing, InTime
<1>0. /\ TypeOK /\ Timing /\ InTime /\ TimeoutMs' = TimeoutMs /\ TimeoutMs \in Nat
  <2>1. caller' = caller
    BY DEF Next, LoopStep, CallbackStep, vars, ConnectionArrives, PeerAborts, Interrupt,
           SetUp, OnCreate, Test, Wait, SelectTimesOut, SelectReady, SelectFails,
           Accept, AcceptFails, PeerUnknown, AddressFails, OnConnection,
           CallbackReturns, CallbackThrows
  <2> QED
    BY <2>1, TimeLemma DEF IInv, TimeoutMs
<1>1. CASE Test
  BY <1>0, <1>1 DEF Test, GoOn, TimeUp, TypeOK
<1>2. CASE Wait
  BY <1>0, <1>2, TimeLemma DEF Wait, TypeOK
<1>3. CASE SelectTimesOut
  BY <1>0, <1>3, TimeLemma DEF SelectTimesOut, TypeOK
<1>4. CASE SetUp \/ OnCreate
  BY <1>0, <1>4 DEF SetUp, OnCreate
<1>5. ASSUME UNCHANGED <<wpc, left, waited, elapsed>> PROVE Timing' /\ InTime'
  BY <1>0, <1>5
<1>6. ASSUME wpc' \notin {"setup", "create", "select"}, UNCHANGED elapsed
      PROVE  Timing' /\ InTime'
  BY <1>0, <1>6
<1>7. \/ Test \/ Wait \/ SelectTimesOut \/ SetUp \/ OnCreate
      \/ UNCHANGED <<wpc, left, waited, elapsed>>
      \/ wpc' \notin {"setup", "create", "select"} /\ UNCHANGED elapsed
  BY DEF Next, LoopStep, CallbackStep, vars, ConnectionArrives, PeerAborts, Interrupt,
         SelectReady, SelectFails, Accept, AcceptFails, PeerUnknown, AddressFails,
         OnConnection, AfterConnection, CallbackReturns, CallbackThrows
<1> QED
  BY <1>1, <1>2, <1>3, <1>4, <1>5, <1>6, <1>7

LEMMA LastOneStep == IInv /\ [Next]_vars => LastOne'
<1> SUFFICES ASSUME IInv, [Next]_vars PROVE LastOne'
  OBVIOUS
<1> USE DEF LastOne, Final
<1>0. LastOne /\ TypeOK
  BY DEF IInv
<1>1. CASE OnConnection
  BY <1>0, <1>1 DEF OnConnection
<1>2. CASE Test
  BY <1>0, <1>2 DEF Test, GoOn
<1>3. ASSUME UNCHANGED <<wpc, late>>, stop' = stop \/ stop' PROVE LastOne'
  BY <1>0, <1>3
<1>4. ASSUME wpc \notin Final, UNCHANGED late PROVE LastOne'
  BY <1>0, <1>4
<1>6. CASE CallbackReturns \/ CallbackThrows
  BY <1>0, <1>6 DEF CallbackReturns, CallbackThrows, AfterConnection, Final
<1>5. \/ OnConnection \/ Test \/ (UNCHANGED <<wpc, late>> /\ (stop' = stop \/ stop'))
      \/ CallbackReturns \/ CallbackThrows
      \/ (wpc \notin Final /\ UNCHANGED late)
  BY DEF Next, LoopStep, CallbackStep, vars, ConnectionArrives, PeerAborts, Interrupt,
         SetUp, OnCreate, Wait, SelectTimesOut, SelectReady, SelectFails, Accept,
         AcceptFails, PeerUnknown, AddressFails
<1> QED
  BY <1>1, <1>2, <1>3, <1>4, <1>5, <1>6

LEMMA DescriptorStep == IInv /\ [Next]_vars => NoDescriptorLost'
<1> SUFFICES ASSUME IInv, [Next]_vars PROVE NoDescriptorLost'
  OBVIOUS
<1> USE DEF NoDescriptorLost, In, Queued
<1>0. TypeOK /\ Listening /\ NoDescriptorLost
  BY DEF IInv
<1>1. ASSUME NEW c \in Conns, ConnectionArrives(c) PROVE NoDescriptorLost'
  BY <1>0, <1>1 DEF ConnectionArrives, TypeOK
<1>2. ASSUME NEW c \in Conns, PeerAborts(c) PROVE NoDescriptorLost'
  BY <1>0, <1>2 DEF PeerAborts, TypeOK
<1>3. CASE Test
  BY <1>0, <1>3, DiscardLemma DEF Test
<1>4. CASE SelectFails
  BY <1>0, <1>4, DiscardLemma DEF SelectFails
<1>5. ASSUME NEW c \in Conns, Accept(c) PROVE NoDescriptorLost'
  BY <1>5 DEF Accept
<1>6. CASE PeerUnknown
  BY <1>0, <1>6, DiscardLemma DEF PeerUnknown
<1>7. CASE AddressFails
  BY <1>0, <1>7, DiscardLemma DEF AddressFails
<1>8. CASE OnConnection
  BY <1>8 DEF OnConnection
<1>9. CASE CallbackThrows
  BY <1>0, <1>9, DiscardLemma DEF CallbackThrows
<1>12. CASE CallbackReturns
  <2>1. \A c \in Conns : conn'[c] # "accepted"
    BY <1>0, <1>12 DEF CallbackReturns, TypeOK
  <2>2. wpc' = "returned" =>
          sock' = "closed" /\ \A c \in Conns : conn'[c] \notin {"queued", "aborted"}
    BY <1>0, <1>12 DEF CallbackReturns, TypeOK
  <2> QED
    BY <2>1, <2>2
<1>10. CASE SetUp \/ OnCreate \/ Wait \/ SelectTimesOut \/ SelectReady \/ AcceptFails
  BY <1>0, <1>10 DEF SetUp, OnCreate, Wait, SelectTimesOut, SelectReady, AcceptFails
<1>11. CASE Interrupt \/ UNCHANGED vars
  BY <1>0, <1>11 DEF Interrupt, vars
<1> QED
  BY <1>1, <1>2, <1>3, <1>4, <1>5, <1>6, <1>7, <1>8, <1>9, <1>10, <1>11, <1>12
     DEF Next, LoopStep, CallbackStep

LEMMA NextHolds == IInv /\ [Next]_vars => IInv'
  BY TypeStep, ListeningStep, TimingStep, LastOneStep, DescriptorStep DEF IInv

LEMMA Holds == Spec => []IInv
  BY InitHolds, NextHolds, PTL DEF Spec

(* The timeout of select never goes below zero, though Linux overwrites it *)
(* in every turn (welcome:373, 395), and no connection is in an unknown    *)
(* state.                                                                  *)
THEOREM WelcomeTypes == Spec => []TypeOK
<1>1. IInv => TypeOK
  BY DEF IInv
<1> QED
  BY <1>1, Holds, PTL

(* However an accept ends, welcome keeps no descriptor but the one of its  *)
(* own socket, and none when it returns (welcome:410-457).                 *)
THEOREM DescriptorsAreKept == Spec => []NoDescriptorLost
<1>1. IInv => NoDescriptorLost
  BY DEF IInv
<1> QED
  BY <1>1, Holds, PTL

(* Ctrl+C lets in one more client at most, whoever waits (welcome:381).    *)
THEOREM StopIsSoon == Spec => []StopIsNoticed
<1>1. IInv => StopIsNoticed
  BY DEF IInv, LastOne, StopIsNoticed
<1> QED
  BY <1>1, Holds, PTL

(* The ten seconds of an LS are exceeded by one select at most, whatever   *)
(* becomes of the timeout of select (welcome:379-391).                     *)
THEOREM LimitIsKept == Spec => []InTime
<1>1. IInv => InTime
  BY DEF IInv
<1> QED
  BY <1>1, Holds, PTL

=============================================================================
