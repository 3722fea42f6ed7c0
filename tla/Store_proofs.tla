---------------------------- MODULE Store_proofs ----------------------------
(***************************************************************************)
(* What PUTs of any number of sessions leave in the server's directory.    *)
(***************************************************************************)
EXTENDS Store, TLAPS

Phase == {"idle", "check", "open", "connect", "receive", "stuck", "send", "done"}

Opened(s) == reply[s] = "OK"

Block == Sessions \cup {Old, Hole, "absent"}

Types ==
  /\ file \in [Names -> Seq(Block)]
  /\ job \in [Sessions -> Jobs] /\ spc \in [Sessions -> Phase]
  /\ pos \in [Sessions -> Nat] /\ put \in [Sessions -> Nat]
  /\ result \in [Sessions -> {"none", "ok", "failed", "refused"}]
  /\ reply \in [Sessions -> {"none", "OK", "ERROR"}]
  /\ raced \subseteq Sessions

(* What a session is doing agrees with what it has answered and read.      *)
Course(s) ==
  /\ spc[s] \in {"open", "receive", "stuck"} \/ Opened(s) => IsPut(s)
  /\ IsPut(s) /\ spc[s] \in {"connect", "receive", "stuck"} => Opened(s)
  /\ spc[s] = "send" => ~IsPut(s)
  /\ spc[s] \in {"idle", "check", "open"} => ~Opened(s)
  /\ spc[s] # "done" => result[s] = "none"
  /\ IsPut(s) /\ ~Opened(s) => pos[s] = 0
  /\ IsPut(s) => pos[s] <= put[s] /\ put[s] <= job[s].size
  /\ spc[s] = "open" \/ Opened(s) => NameOf(s) \in Names \ OldFiles

(* A file that was opened is there.                                        *)
Made(s) == Opened(s) => Exists(NameOf(s))

Holds(s)  == IsPut(s) /\ (spc[s] = "open" \/ Opened(s))
Writes(s) == IsPut(s) /\ spc[s] \in {"open", "connect", "receive"}

(* Two PUTs of a name are together only if both passed the check before    *)
(* either opened the file.                                                 *)
Apart ==
  \A s, t \in Sessions :
    s # t /\ NameOf(s) = NameOf(t) /\ Holds(s) /\ Writes(t) => s \in raced

Own(s) ==
  Opened(s) /\ s \notin raced =>
    /\ file[NameOf(s)] = [i \in 1 .. pos[s] |-> s]
    /\ result[s] = "ok" => pos[s] = job[s].size /\ put[s] = job[s].size

IInv ==
  /\ Types
  /\ \A s \in Sessions : Course(s) /\ Made(s) /\ Own(s)
  /\ Apart
  /\ OldFilesKept

LEMMA InitHolds == Init => IInv
<1> SUFFICES ASSUME Init PROVE IInv
  OBVIOUS
<1>1. Types
  <2>1. Absent \in Seq(Block) /\ <<Old>> \in Seq(Block)
    BY DEF Absent, Block
  <2> QED
    BY <2>1 DEF Init, Types, Phase
<1>2. ASSUME NEW s \in Sessions PROVE Course(s) /\ Made(s) /\ Own(s)
  <2>1. job[s] \in Jobs
    BY DEF Init
  <2>2. job[s].size \in Nat
    BY <2>1, StoreAssumption DEF Jobs
  <2> QED
    BY <2>2 DEF Init, Course, Made, Own, Opened
<1>3. Apart
  BY DEF Init, Apart, Holds, Writes, Opened
<1>4. OldFilesKept
  BY StoreAssumption DEF Init, OldFilesKept
<1> QED
  BY <1>1, <1>2, <1>3, <1>4 DEF IInv

(* The moves of a session that open nothing and write nothing.             *)
Moves(s) ==
  \/ spc'[s] \in {spc[s], "done"}
  \/ spc[s] = "idle" /\ spc'[s] = "check"
  \/ IsPut(s) /\ spc[s] \in {"connect", "receive"} /\ spc'[s] \in {"receive", "stuck"}
  \/ ~IsPut(s) /\ spc'[s] \in {"connect", "send"}

LEMMA QuietHolds ==
  ASSUME IInv,
         UNCHANGED <<file, job, reply, raced>>,
         Types',
         \A s \in Sessions :
           /\ Moves(s)
           /\ IsPut(s) => pos'[s] = pos[s] /\ put[s] <= put'[s] /\ put'[s] <= job[s].size
           /\ spc'[s] # "done" => result'[s] = result[s] /\ spc[s] # "done"
           /\ Opened(s) /\ result'[s] = "ok" =>
                result[s] = "ok" \/ (pos[s] = job[s].size /\ put'[s] = job[s].size)
  PROVE  IInv'
<1>1. ASSUME NEW s \in Sessions PROVE Course(s)' /\ Made(s)' /\ Own(s)'
  <2>1. Course(s) /\ Made(s) /\ Own(s)
    BY DEF IInv
  <2>2. /\ NameOf(s)' = NameOf(s) /\ (IsPut(s))' = IsPut(s) /\ (Opened(s))' = Opened(s)
        /\ (Exists(NameOf(s)))' = Exists(NameOf(s))
    BY DEF NameOf, IsPut, Opened, Exists
  <2>3. /\ Moves(s)
        /\ IsPut(s) => pos'[s] = pos[s] /\ put[s] <= put'[s] /\ put'[s] <= job[s].size
        /\ spc'[s] # "done" => result'[s] = result[s] /\ spc[s] # "done"
        /\ Opened(s) /\ result'[s] = "ok" =>
             result[s] = "ok" \/ (pos[s] = job[s].size /\ put'[s] = job[s].size)
    OBVIOUS
  <2>4. pos[s] \in Nat /\ put[s] \in Nat /\ put'[s] \in Nat /\ job[s].size \in Nat
    BY StoreAssumption DEF IInv, Types, Jobs
  <2>5. IsPut(s) => pos'[s] <= put'[s] /\ put'[s] <= job'[s].size
    BY <2>1, <2>3, <2>4 DEF Course
  <2>6. Course(s)'
    BY <2>1, <2>2, <2>3, <2>5 DEF Course, Moves
  <2>7. Made(s)'
    BY <2>1, <2>2 DEF Made
  <2>8. Own(s)'
    BY <2>1, <2>2, <2>3, <2>4 DEF Own, Course
  <2> QED
    BY <2>6, <2>7, <2>8
<1>2. Apart'
  <2> SUFFICES ASSUME NEW s \in Sessions, NEW t \in Sessions, s # t,
                      NameOf(s)' = NameOf(t)', Holds(s)', Writes(t)'
               PROVE  s \in raced'
    BY DEF Apart
  <2>1. NameOf(s) = NameOf(t) /\ Moves(s) /\ Moves(t)
    BY DEF NameOf
  <2>2. Holds(s)
    BY <2>1 DEF Holds, Moves, IsPut, Opened
  <2>3. Writes(t)
    BY <2>1 DEF Writes, Moves, IsPut
  <2> QED
    BY <2>1, <2>2, <2>3 DEF IInv, Apart
<1>3. OldFilesKept'
  BY DEF IInv, OldFilesKept
<1> QED
  BY <1>1, <1>2, <1>3 DEF IInv

(* Every step that opens no file, answers nothing and writes nothing.      *)
LEMMA SessionMoves ==
  ASSUME IInv, NEW s \in Sessions,
         \/ Begin(s) \/ CheckThrows(s) \/ PutConnect(s) \/ PutWriteFails(s) \/ PutCut(s)
         \/ PutDone(s) \/ GetOpen(s) \/ GetConnect(s) \/ GetSend(s) \/ GetDone(s)
  PROVE  IInv'
<1> USE DEF Set, Finish
<1>1. Types /\ pos[s] \in Nat /\ put[s] \in Nat /\ spc[s] # "done" /\ Course(s)
  BY DEF IInv, Types, Begin, CheckThrows, PutConnect, PutWriteFails, PutCut, PutDone,
         GetOpen, GetConnect, GetSend, GetDone
<1>2. /\ UNCHANGED <<file, job, reply, raced, put>>
      /\ \A t \in Sessions \ {s} : spc'[t] = spc[t] /\ result'[t] = result[t] /\ pos'[t] = pos[t]
      /\ IsPut(s) => pos'[s] = pos[s]
      /\ spc' \in [Sessions -> Phase] /\ pos' \in [Sessions -> Nat]
      /\ result' \in [Sessions -> {"none", "ok", "failed", "refused"}]
      /\ Moves(s) /\ (spc'[s] # "done" => result'[s] = result[s])
      /\ result'[s] = "ok" /\ Opened(s) => result[s] = "ok" \/ pos[s] >= Wanted(s)
  <2>1. CASE Begin(s)
    BY <1>1, <2>1 DEF Begin, Types, Moves, Phase, serverVars, historyVars
  <2>2. CASE PutConnect(s)
    BY <1>1, <2>2 DEF PutConnect, Types, Moves, Phase, historyVars, clientVars
  <2>3. CASE CheckThrows(s) \/ PutWriteFails(s) \/ PutCut(s) \/ PutDone(s)
    BY <1>1, <2>3
    DEF CheckThrows, PutWriteFails, PutCut, PutDone, Types, Moves, Phase, historyVars,
        clientVars, Course
  <2>4. CASE GetOpen(s)
    <3>1. StartOf(s) = 0
      BY DEF StartOf
    <3>2. CASE Taken(NameOf(s))
      <4>1. /\ spc' = Set(spc, s, "connect") /\ pos' = Set(pos, s, 0) /\ ~IsPut(s)
            /\ UNCHANGED <<file, job, put, result, reply, raced>>
        BY <2>4, <3>1, <3>2 DEF GetOpen, clientVars
      <4> QED
        BY <1>1, <4>1 DEF Types, Moves, Phase
    <3>3. CASE ~Taken(NameOf(s))
      BY <1>1, <2>4, <3>3 DEF GetOpen, Types, Moves, Phase, clientVars
    <3> QED
      BY <3>2, <3>3
  <2>5. CASE GetConnect(s)
    BY <1>1, <2>5 DEF GetConnect, Types, Moves, Phase, historyVars, clientVars
  <2>6. CASE GetSend(s)
    <3>1. ~IsPut(s)
      BY <1>1, <2>6 DEF GetSend, Course, Opened, IInv
    <3> QED
      BY <1>1, <2>6, <3>1 DEF GetSend, Types, Moves, Phase, historyVars, clientVars
  <2>7. CASE GetDone(s)
    <3> DEFINE verdict == IF Len(copy[s]) = announced[s] THEN "ok" ELSE "failed"
    <3>1. ~IsPut(s) /\ ~Opened(s)
      BY <1>1, <2>7 DEF GetDone, Course
    <3>2. verdict \in {"ok", "failed"}
      OBVIOUS
    <3>3. /\ spc' = Set(spc, s, "done") /\ result' = Set(result, s, verdict)
          /\ UNCHANGED <<file, job, put, pos, reply, raced>>
      BY <2>7 DEF GetDone, historyVars, clientVars
    <3> HIDE DEF verdict
    <3> QED
      BY <1>1, <3>1, <3>2, <3>3 DEF Types, Moves, Phase
  <2> QED
    BY <2>1, <2>2, <2>3, <2>4, <2>5, <2>6, <2>7
<1>3. Types'
  BY <1>1, <1>2 DEF Types
<1>4. ASSUME NEW t \in Sessions
      PROVE  /\ Moves(t)
             /\ IsPut(t) => pos'[t] = pos[t] /\ put[t] <= put'[t] /\ put'[t] <= job[t].size
             /\ spc'[t] # "done" => result'[t] = result[t] /\ spc[t] # "done"
             /\ Opened(t) /\ result'[t] = "ok" =>
                  result[t] = "ok" \/ (pos[t] = job[t].size /\ put'[t] = job[t].size)
  <2>1. Course(t) /\ pos[t] \in Nat /\ put[t] \in Nat /\ job[t].size \in Nat
    BY StoreAssumption DEF IInv, Types, Jobs
  <2>2. CASE t = s
    BY <1>1, <1>2, <2>1, <2>2 DEF Course, Wanted
  <2>3. CASE t # s
    BY <1>2, <2>1, <2>3 DEF Moves, Course
  <2> QED
    BY <2>2, <2>3
<1> QED
  BY <1>2, <1>3, <1>4, QuietHolds

LEMMA ClientMoves ==
  ASSUME IInv, NEW s \in Sessions, ClientStep(s) \/ ClientDies(s)
  PROVE  IInv'
<1>1. /\ UNCHANGED <<file, job, reply, raced, spc, pos, result>>
      /\ \/ put' = put
         \/ put[s] < job[s].size /\ put' = [put EXCEPT ![s] = put[s] + 1]
  BY DEF ClientStep, ClientDies, ClientReply, ClientGivesUp, ClientAccept, ClientSend,
         ClientSent, serverVars, historyVars, Set
<1>2. ASSUME NEW t \in Sessions
      PROVE  /\ put'[t] \in Nat /\ put[t] <= put'[t]
             /\ IsPut(t) => put'[t] <= job[t].size
             /\ put[t] = job[t].size => put'[t] = job[t].size
  <2>1. Course(t) /\ put[t] \in Nat /\ job[t].size \in Nat
    BY StoreAssumption DEF IInv, Types, Jobs
  <2> QED
    BY <1>1, <2>1 DEF Course, IInv, Types
<1>3. Types'
  BY <1>1, <1>2 DEF IInv, Types
<1> QED
  BY <1>1, <1>2, <1>3, QuietHolds DEF Moves

-----------------------------------------------------------------------------
(* An error reply, by the check or because the file cannot be opened.      *)
LEMMA RefuseHolds ==
  ASSUME IInv, NEW s \in Sessions, IsPut(s), spc[s] \in {"check", "open"}, ~Opened(s),
         Refuse(s), UNCHANGED <<job, pos, put>>
  PROVE  IInv'
<1>1. /\ UNCHANGED <<file, job, pos, put, raced>>
      /\ spc' = [spc EXCEPT ![s] = "done"] /\ result' = [result EXCEPT ![s] = "refused"]
      /\ reply' = [reply EXCEPT ![s] = "ERROR"]
  BY DEF Refuse, Finish, Set
<1>2. Types'
  BY <1>1 DEF IInv, Types, Phase
<1>3. ~Opened(s)' /\ \A t \in Sessions : (Opened(t))' = Opened(t)
  BY <1>1 DEF IInv, Types, Opened
<1>4. ASSUME NEW t \in Sessions PROVE Course(t)' /\ Made(t)' /\ Own(t)'
  <2>1. Course(t) /\ Made(t) /\ Own(t)
    BY DEF IInv
  <2>2. CASE t = s
    BY <1>1, <1>3, <2>1, <2>2
    DEF IInv, Types, Course, Made, Own, IsPut, NameOf, Exists
  <2>3. CASE t # s
    BY <1>1, <1>3, <2>1, <2>3
    DEF IInv, Types, Course, Made, Own, IsPut, NameOf, Exists
  <2> QED
    BY <2>2, <2>3
<1>5. Apart'
  <2> SUFFICES ASSUME NEW t \in Sessions, NEW u \in Sessions, t # u,
                      NameOf(t)' = NameOf(u)', Holds(t)', Writes(u)'
               PROVE  t \in raced'
    BY DEF Apart
  <2>1. NameOf(t) = NameOf(u) /\ Holds(t) /\ Writes(u)
    BY <1>1, <1>3 DEF IInv, Types, NameOf, Holds, Writes, IsPut
  <2> QED
    BY <1>1, <2>1 DEF IInv, Apart
<1>6. OldFilesKept'
  BY <1>1 DEF IInv, OldFilesKept
<1> QED
  BY <1>2, <1>4, <1>5, <1>6 DEF IInv

(* The check: the name is free, so nobody has opened its file; who else is *)
(* past the check has raced.                                               *)
LEMMA PutCheckHolds == ASSUME IInv, NEW s \in Sessions, PutCheck(s) PROVE IInv'
<1>1. /\ spc[s] = "check" /\ IsPut(s) /\ UNCHANGED <<job, pos, put>>
  BY DEF PutCheck, clientVars
<1>2. CASE Taken(NameOf(s)) \/ NameOf(s) \in BadNames
  <2>1. Refuse(s)
    BY <1>2 DEF PutCheck
  <2>2. ~Opened(s)
    BY <1>1 DEF IInv, Course
  <2> QED
    BY <1>1, <2>1, <2>2, RefuseHolds
<1>3. CASE ~(Taken(NameOf(s)) \/ NameOf(s) \in BadNames)
  <2> DEFINE others == {t \in Putting(NameOf(s)) : spc[t] = "open"}
  <2>1. /\ UNCHANGED <<file, job, pos, put, result, reply>>
        /\ spc' = [spc EXCEPT ![s] = "open"]
        /\ raced' = IF others = {} THEN raced ELSE raced \cup others \cup {s}
    BY <1>3 DEF PutCheck, Set, clientVars
  <2>2. NameOf(s) \in Names /\ ~Exists(NameOf(s))
    <3>1. job[s] \in Jobs
      BY DEF IInv, Types
    <3>2. job[s].name \in Names \cup BadNames
      BY <3>1 DEF Jobs
    <3> QED
      BY <1>3, <3>2 DEF Taken, NameOf
  <2>3. NameOf(s) \notin OldFiles
    <3>1. \A n \in OldFiles : file[n] # Absent
      BY StoreAssumption DEF IInv, OldFilesKept, Absent
    <3> QED
      BY <2>2, <3>1 DEF Exists
  <2>4. Types'
    BY <2>1 DEF IInv, Types, Phase, Putting
  <2>5. \A t \in Sessions : Opened(t) => NameOf(t) # NameOf(s) /\ t # s
    BY <1>1, <2>2 DEF IInv, Made, Course
  <2>6. ASSUME NEW t \in Sessions PROVE Course(t)' /\ Made(t)' /\ Own(t)'
    <3>1. Course(t) /\ Made(t) /\ Own(t) /\ raced \subseteq raced'
      BY <2>1 DEF IInv
    <3>2. CASE t = s
      BY <1>1, <2>1, <2>2, <2>3, <2>5, <3>1, <3>2
      DEF IInv, Types, Course, Made, Own, IsPut, NameOf, Exists, Opened
    <3>3. CASE t # s
      BY <2>1, <3>1, <3>3
      DEF IInv, Types, Course, Made, Own, IsPut, NameOf, Exists, Opened
    <3> QED
      BY <3>2, <3>3
  <2>7. Apart'
    <3> SUFFICES ASSUME NEW t \in Sessions, NEW u \in Sessions, t # u,
                        NameOf(t)' = NameOf(u)', Holds(t)', Writes(u)'
                 PROVE  t \in raced'
      BY DEF Apart
    <3>1. NameOf(t) = NameOf(u) /\ IsPut(t) /\ IsPut(u)
      BY <2>1 DEF NameOf, IsPut, Holds, Writes
    <3>2. raced \subseteq raced'
      BY <2>1
    <3>3. CASE t = s
      <4>1. Writes(u)
        BY <2>1, <3>3 DEF IInv, Types, Writes, IsPut
      <4>2. spc[u] = "open"
        BY <2>5, <3>1, <3>3, <4>1 DEF Writes, IInv, Course
      <4>3. u \in others
        BY <3>1, <3>3, <4>2 DEF Putting
      <4> QED
        BY <2>1, <3>3, <4>3
    <3>4. CASE u = s
      <4>1. spc[t] = "open"
        BY <2>1, <2>5, <3>1, <3>4 DEF IInv, Types, Holds, Opened
      <4>2. t \in others
        BY <3>1, <3>4, <4>1 DEF Putting
      <4> QED
        BY <2>1, <4>2
    <3>5. CASE t # s /\ u # s
      <4>1. Holds(t) /\ Writes(u)
        BY <2>1, <3>5 DEF IInv, Types, Holds, Writes, IsPut, Opened
      <4> QED
        BY <3>1, <3>2, <4>1 DEF IInv, Apart
    <3> QED
      BY <3>3, <3>4, <3>5
  <2>8. OldFilesKept'
    BY <2>1 DEF IInv, OldFilesKept
  <2> QED
    BY <2>4, <2>6, <2>7, <2>8 DEF IInv
<1> QED
  BY <1>2, <1>3

(* The file is opened, and empty: only a session that raced can have it    *)
(* open too.                                                               *)
LEMMA PutOpenHolds == ASSUME IInv, NEW s \in Sessions, PutOpen(s) PROVE IInv'
<1>1. /\ spc[s] = "open" /\ UNCHANGED <<job, pos, put>>
  BY DEF PutOpen, clientVars
<1>2. /\ IsPut(s) /\ ~Opened(s) /\ pos[s] = 0 /\ result[s] = "none"
      /\ NameOf(s) \in Names \ OldFiles
  BY <1>1 DEF IInv, Course
<1>3. CASE Refuse(s)
  BY <1>1, <1>2, <1>3, RefuseHolds
<1>4. CASE ~Refuse(s)
  <2>1. /\ file' = [file EXCEPT ![NameOf(s)] = << >>]
        /\ UNCHANGED raced
        /\ \/ /\ spc' = [spc EXCEPT ![s] = "done"] /\ result' = [result EXCEPT ![s] = "none"]
              /\ UNCHANGED reply
           \/ /\ spc' = [spc EXCEPT ![s] = "connect"] /\ UNCHANGED result
              /\ reply' = [reply EXCEPT ![s] = "OK"]
    BY <1>4 DEF PutOpen, Finish, Set
  <2>2. Types'
    <3>1. << >> \in Seq(Block)
      OBVIOUS
    <3>2. file' \in [Names -> Seq(Block)]
      BY <2>1, <3>1 DEF IInv, Types
    <3>3. /\ result' \in [Sessions -> {"none", "ok", "failed", "refused"}]
          /\ spc' \in [Sessions -> Phase] /\ reply' \in [Sessions -> {"none", "OK", "ERROR"}]
      BY <2>1 DEF IInv, Types, Phase
    <3> QED
      BY <1>1, <2>1, <3>2, <3>3 DEF IInv, Types
  <2>3. \A t \in Sessions : t # s =>
          /\ spc'[t] = spc[t] /\ result'[t] = result[t] /\ (Opened(t))' = Opened(t)
    BY <2>1 DEF IInv, Types, Opened
  <2>4. \A t \in Sessions : t # s /\ Opened(t) /\ NameOf(t) = NameOf(s) => t \in raced
    BY <1>1, <1>2 DEF IInv, Apart, Holds, Writes, Course
  <2>5. /\ file'[NameOf(s)] = << >> /\ << >> # Absent
        /\ \A n \in Names : n # NameOf(s) => file'[n] = file[n]
    <3>1. Len(<< >>) # Len(<<"absent">>)
      OBVIOUS
    <3> QED
      BY <1>2, <2>1, <3>1 DEF IInv, Types, Absent
  <2>6. ASSUME NEW t \in Sessions PROVE Course(t)' /\ Made(t)' /\ Own(t)'
    <3>1. Course(t) /\ Made(t) /\ Own(t)
      BY DEF IInv
    <3>2. CASE t = s
      <4>1. Course(t)'
        BY <1>1, <1>2, <2>1, <3>1, <3>2 DEF IInv, Types, Course, IsPut, NameOf, Opened
      <4>2. Made(t)'
        BY <1>1, <2>5, <3>2 DEF Made, NameOf, Exists
      <4>3. pos'[s] = 0 /\ [i \in 1 .. 0 |-> s] = << >> /\ result'[s] = "none"
        BY <1>1, <1>2, <2>1 DEF IInv, Types
      <4>4. Own(t)'
        BY <1>1, <2>5, <3>2, <4>3 DEF Own, NameOf
      <4> QED
        BY <4>1, <4>2, <4>4
    <3>3. CASE t # s
      <4>1. Course(t)'
        BY <1>1, <2>1, <2>3, <3>1, <3>3 DEF Course, IsPut, NameOf
      <4>2. Made(t)'
        BY <1>1, <2>3, <2>5, <3>1, <3>3 DEF Made, NameOf, Exists, Course
      <4>3. Own(t)'
        BY <1>1, <2>1, <2>3, <2>4, <2>5, <3>1, <3>3 DEF Own, NameOf, Course
      <4> QED
        BY <4>1, <4>2, <4>3
    <3> QED
      BY <3>2, <3>3
  <2>7. Apart'
    <3> SUFFICES ASSUME NEW t \in Sessions, NEW u \in Sessions, t # u,
                        NameOf(t)' = NameOf(u)', Holds(t)', Writes(u)'
                 PROVE  t \in raced'
      BY DEF Apart
    <3>1. NameOf(t) = NameOf(u) /\ Holds(t) /\ Writes(u)
      BY <1>1, <1>2, <2>1, <2>3 DEF IInv, Types, NameOf, Holds, Writes, IsPut, Opened
    <3> QED
      BY <2>1, <3>1 DEF IInv, Apart
  <2>8. OldFilesKept'
    BY <1>2, <2>5, StoreAssumption DEF IInv, OldFilesKept
  <2> QED
    BY <2>2, <2>6, <2>7, <2>8 DEF IInv
<1> QED
  BY <1>3, <1>4

(* A write is a file again, with the block in its place; at the end of the *)
(* session's own blocks it adds one.                                       *)
LEMMA WriteHolds ==
  ASSUME NEW s \in Sessions, NEW Owners, {s, Hole} \subseteq Owners,
         NEW f \in Seq(Owners), NEW p \in Nat \ {0}
  PROVE  /\ Write(f, p, s) \in Seq(Owners) /\ Write(f, p, s) # Absent
         /\ f = [i \in 1 .. p - 1 |-> s] => Write(f, p, s) = [i \in 1 .. p |-> s]
<1> DEFINE l == IF p > Len(f) THEN p ELSE Len(f)
           w == [i \in 1 .. l |-> IF i = p THEN s ELSE IF i <= Len(f) THEN f[i] ELSE Hole]
<1>1. Write(f, p, s) = w
  BY DEF Write
<1>2. Len(f) \in Nat /\ l \in Nat /\ p \in 1 .. l /\ \A i \in 1 .. Len(f) : f[i] \in Owners
  OBVIOUS
<1> HIDE DEF l
<1>3. \A i \in 1 .. l : (IF i = p THEN s ELSE IF i <= Len(f) THEN f[i] ELSE Hole) \in Owners
  BY <1>2
<1>4. w \in Seq(Owners)
  BY <1>2, <1>3
<1>5. w # Absent
  <2>1. Absent[p] = s => p = 1 \/ p \notin DOMAIN Absent
    BY DEF Absent
  <2>2. Absent[1] = "absent" /\ DOMAIN Absent = {1} /\ s # "absent"
    BY StoreAssumption DEF Absent
  <2>3. w[p] = s /\ p \in DOMAIN w
    BY <1>2
  <2> HIDE DEF w
  <2> QED
    BY <2>1, <2>2, <2>3
<1>6. ASSUME f = [i \in 1 .. p - 1 |-> s] PROVE w = [i \in 1 .. p |-> s]
  <2>1. Len(f) = p - 1
    BY <1>6
  <2>2. l = p
    BY <2>1 DEF l
  <2>3. \A i \in 1 .. p : (IF i = p THEN s ELSE IF i <= Len(f) THEN f[i] ELSE Hole) = s
    BY <1>6, <2>1
  <2> QED
    BY <2>2, <2>3
<1> QED
  BY <1>1, <1>4, <1>5, <1>6

(* A block is written: the file is the session's own, or it has raced.     *)
LEMMA PutReceiveHolds == ASSUME IInv, NEW s \in Sessions, PutReceive(s) PROVE IInv'
<1> DEFINE n == NameOf(s)
           w == Write(file[n], pos[s] + 1, s)
<1>1. /\ spc[s] = "receive" /\ pos[s] < put[s]
      /\ file' = [file EXCEPT ![n] = w] /\ pos' = [pos EXCEPT ![s] = pos[s] + 1]
      /\ UNCHANGED <<job, spc, put, result, reply, raced>>
  BY DEF PutReceive, Set, clientVars, historyVars
<1>2. /\ IsPut(s) /\ Opened(s) /\ result[s] = "none" /\ n \in Names \ OldFiles
      /\ pos[s] \in Nat /\ put[s] \in Nat /\ pos[s] + 1 <= put[s]
  BY <1>1 DEF IInv, Course, Types
<1>3. /\ w \in Seq(Block) /\ w # Absent
      /\ file[n] = [i \in 1 .. pos[s] |-> s] => w = [i \in 1 .. pos[s] + 1 |-> s]
  <2> DEFINE p == pos[s] + 1
  <2>1. file[n] \in Seq(Block) /\ p \in Nat \ {0} /\ p - 1 = pos[s]
    BY <1>2 DEF IInv, Types
  <2> HIDE DEF p, n
  <2>2. /\ Write(file[n], p, s) \in Seq(Block) /\ Write(file[n], p, s) # Absent
        /\ file[n] = [i \in 1 .. p - 1 |-> s] => Write(file[n], p, s) = [i \in 1 .. p |-> s]
    <3>1. {s, Hole} \subseteq Block
      BY DEF Block
    <3> QED
      BY <2>1, <3>1, WriteHolds
  <2> QED
    BY <2>1, <2>2 DEF p
<1> HIDE DEF w
<1>4. file'[n] = w /\ \A m \in Names : m # n => file'[m] = file[m]
  BY <1>1, <1>2 DEF IInv, Types
<1>5. pos'[s] = pos[s] + 1 /\ \A t \in Sessions : t # s => pos'[t] = pos[t]
  BY <1>1 DEF IInv, Types
<1>6. Types'
  BY <1>1, <1>2, <1>3 DEF IInv, Types
<1>7. \A t \in Sessions : t # s /\ Opened(t) /\ NameOf(t) = n => t \in raced
  BY <1>1, <1>2 DEF IInv, Apart, Holds, Writes, Course
<1>8. ASSUME NEW t \in Sessions PROVE Course(t)' /\ Made(t)' /\ Own(t)'
  <2>1. Course(t) /\ Made(t) /\ Own(t)
    BY DEF IInv
  <2>2. /\ NameOf(t)' = NameOf(t) /\ (Opened(t))' = Opened(t) /\ (IsPut(t))' = IsPut(t)
    BY <1>1 DEF NameOf, Opened, IsPut
  <2>3. Course(t)'
    BY <1>1, <1>2, <1>5, <2>1, <2>2 DEF Course
  <2>4. Made(t)'
    BY <1>3, <1>4, <2>1, <2>2 DEF Made, Exists, Course
  <2>5. CASE t = s
    BY <1>1, <1>2, <1>3, <1>4, <1>5, <2>1, <2>2, <2>3, <2>4, <2>5 DEF Own
  <2>6. CASE t # s
    <3>1. Own(t)'
      BY <1>1, <1>4, <1>5, <1>7, <2>1, <2>2, <2>6 DEF Own, Course
    <3> QED
      BY <2>3, <2>4, <3>1
  <2> QED
    BY <2>5, <2>6
<1>9. Apart'
  BY <1>1 DEF IInv, Apart, Holds, Writes, NameOf, IsPut, Opened
<1>10. OldFilesKept'
  BY <1>2, <1>4, StoreAssumption DEF IInv, OldFilesKept
<1> QED
  BY <1>6, <1>8, <1>9, <1>10 DEF IInv

(* The server stops: what is in the directory stays.                       *)
LEMMA CrashHolds == ASSUME IInv, Crash PROVE IInv'
<1>1. /\ UNCHANGED <<file, job, reply, raced, pos, put, result>>
      /\ spc' = [s \in Sessions |-> IF Serving(s) THEN "done" ELSE spc[s]]
  BY DEF Crash, clientVars, serverVars, historyVars
<1>2. ASSUME NEW s \in Sessions
      PROVE  /\ spc[s] \in Phase /\ spc'[s] \in {spc[s], "done"} /\ put[s] \in Nat
             /\ IsPut(s) => put[s] <= job[s].size
             /\ spc'[s] # "done" => spc[s] # "done"
  BY <1>1 DEF IInv, Types, Course, Phase, Serving
<1>3. Types'
  <2>1. spc' \in [Sessions -> Phase]
    BY <1>1, <1>2 DEF Phase
  <2> QED
    BY <1>1, <2>1 DEF IInv, Types
<1> QED
  BY <1>1, <1>2, <1>3, QuietHolds DEF Moves

LEMMA NextHolds == ASSUME IInv, [Next]_vars PROVE IInv'
<1>1. CASE \E s \in Sessions : Begin(s) \/ ServerStep(s) \/ ClientStep(s) \/ ClientDies(s)
  <2> PICK s \in Sessions : Begin(s) \/ ServerStep(s) \/ ClientStep(s) \/ ClientDies(s)
    BY <1>1
  <2>1. CASE ClientStep(s) \/ ClientDies(s)
    BY <2>1, ClientMoves
  <2>2. CASE PutCheck(s)
    BY <2>2, PutCheckHolds
  <2>3. CASE PutOpen(s)
    BY <2>3, PutOpenHolds
  <2>4. CASE PutReceive(s)
    BY <2>4, PutReceiveHolds
  <2>5. CASE \/ Begin(s) \/ CheckThrows(s) \/ PutConnect(s) \/ PutWriteFails(s)
             \/ PutCut(s) \/ PutDone(s) \/ GetOpen(s) \/ GetConnect(s) \/ GetSend(s) \/ GetDone(s)
    BY <2>5, SessionMoves
  <2> QED
    BY <2>1, <2>2, <2>3, <2>4, <2>5 DEF ServerStep
<1>2. CASE Crash
  BY <1>2, CrashHolds
<1>3. CASE UNCHANGED vars
  BY <1>3 DEF vars, clientVars, serverVars, historyVars, IInv, Types, Course, Made, Own, Apart,
              OldFilesKept, NameOf, IsPut, Opened, Exists, Holds, Writes
<1> QED
  BY <1>1, <1>2, <1>3 DEF Next

LEMMA Inductive == Spec => []IInv
<1> QED
  BY InitHolds, NextHolds, PTL DEF Spec

(* No PUT, in whatever order and however it ends, changes a file that was  *)
(* in the directory before (handle_put:256-260).                           *)
THEOREM OldFilesSafe == Spec => []OldFilesKept
<1>1. IInv => OldFilesKept
  BY DEF IInv
<1> QED
  BY <1>1, Inductive, PTL

(* A PUT that did not pass the check together with another of the name     *)
(* leaves a beginning of what its client sent, after a success all of it   *)
(* (handle_put:290-317).                                                   *)
THEOREM StoredIsSent == Spec => []StoredIsOwn
<1>1. IInv => StoredIsOwn
  BY DEF IInv, StoredIsOwn, Own, Opened
<1> QED
  BY <1>1, Inductive, PTL

(* A PUT that reports success has answered OK.                             *)
Reported == \A s \in Sessions : IsPut(s) /\ result[s] = "ok" => Opened(s)

LEMMA ReportedStep == ASSUME IInv, Reported, [Next]_vars PROVE Reported'
<1> USE DEF Set
<1>0. /\ job' = job
      /\ result \in [Sessions -> {"none", "ok", "failed", "refused"}]
      /\ reply \in [Sessions -> {"none", "OK", "ERROR"}]
      /\ \A s \in Sessions : Course(s)
  BY DEF IInv, Types, Next, ServerStep, ClientStep, Begin, PutCheck, CheckThrows, PutOpen,
         PutConnect, PutReceive, PutWriteFails, PutCut, PutDone, GetOpen, GetConnect, GetSend, GetDone,
         ClientReply, ClientGivesUp, ClientAccept, ClientSend, ClientSent, ClientDies, Crash,
         vars
<1>1. ASSUME UNCHANGED <<job, result, reply>> PROVE Reported'
  BY <1>1 DEF Reported, IsPut, Opened
<1>2. ASSUME NEW t \in Sessions, PutDone(t) PROVE Reported'
  <2>1. Opened(t) /\ UNCHANGED reply /\ result' = [result EXCEPT ![t] = "ok"]
    BY <1>0, <1>2 DEF PutDone, Finish, Course, IsPut
  <2> QED
    BY <1>0, <2>1 DEF Reported, IsPut, Opened
<1>3. ASSUME NEW t \in Sessions, PutCheck(t) \/ PutOpen(t) PROVE Reported'
  <2>1. ~Opened(t) /\ result[t] = "none"
    BY <1>0, <1>3 DEF PutCheck, PutOpen, Course
  <2>2. \E what \in {"none", "refused"}, answer \in {"none", "OK", "ERROR"} :
          /\ result' = [result EXCEPT ![t] = what]
          /\ reply' = [reply EXCEPT ![t] = answer]
    BY <1>0, <1>3, <2>1 DEF PutCheck, PutOpen, Refuse, Finish
  <2> QED
    BY <1>0, <2>1, <2>2 DEF Reported, IsPut, Opened
<1>4. ASSUME NEW t \in Sessions, \/ CheckThrows(t) \/ PutConnect(t) \/ PutWriteFails(t)
                                \/ PutCut(t) \/ GetOpen(t) \/ GetConnect(t) \/ GetDone(t)
      PROVE  Reported'
  <2>1. /\ UNCHANGED reply
        /\ \/ UNCHANGED result
           \/ \E what \in {"none", "failed", "refused"} : result' = [result EXCEPT ![t] = what]
           \/ ~IsPut(t) /\ \E what \in {"ok", "failed"} : result' = [result EXCEPT ![t] = what]
    BY <1>0, <1>4 DEF CheckThrows, PutConnect, PutWriteFails, PutCut, GetOpen, GetConnect,
                      GetDone, Finish, Course
  <2> QED
    BY <1>0, <2>1 DEF Reported, IsPut, Opened
<1>5. \/ UNCHANGED <<job, result, reply>>
      \/ \E t \in Sessions :
           \/ PutDone(t) \/ PutCheck(t) \/ CheckThrows(t) \/ PutOpen(t) \/ PutConnect(t)
           \/ PutWriteFails(t) \/ PutCut(t) \/ GetOpen(t) \/ GetConnect(t) \/ GetDone(t)
  BY DEF Next, ServerStep, ClientStep, Begin, PutReceive, GetSend, ClientReply,
         ClientGivesUp, ClientAccept, ClientSend, ClientSent, ClientDies, Crash, vars,
         serverVars
<1> QED
  BY <1>1, <1>2, <1>3, <1>4, <1>5

LEMMA StoredKept ==
  ASSUME IInv, Reported, [Next]_vars, NEW s \in Sessions,
         IsPut(s), result[s] = "ok", s \notin raced
  PROVE  file'[NameOf(s)] = file[NameOf(s)]
<1>1. /\ Holds(s) /\ NameOf(s) \in Names /\ spc[s] = "done"
      /\ file \in [Names -> Seq(Block)]
  BY DEF IInv, Types, Course, Reported, Holds
<1>2. ASSUME NEW t \in Sessions, PutOpen(t) \/ PutReceive(t)
      PROVE  file'[NameOf(s)] = file[NameOf(s)]
  <2>1. t # s /\ Writes(t)
    BY <1>1, <1>2 DEF IInv, Course, PutOpen, PutReceive, Writes
  <2>2. NameOf(t) # NameOf(s)
    BY <1>1, <2>1 DEF IInv, Apart
  <2>3. file' = file \/ \E f : file' = [file EXCEPT ![NameOf(t)] = f]
    BY <1>2 DEF PutOpen, PutReceive, Refuse, Set
  <2> QED
    BY <1>1, <2>2, <2>3
<1>3. file' = file \/ \E t \in Sessions : PutOpen(t) \/ PutReceive(t)
  BY DEF Next, ServerStep, ClientStep, Begin, PutCheck, CheckThrows, Refuse, PutConnect,
         PutWriteFails, PutCut, PutDone, GetOpen, GetConnect, GetSend, GetDone, ClientReply,
         ClientGivesUp, ClientAccept, ClientSend, ClientSent, ClientDies, Crash, vars
<1> QED
  BY <1>2, <1>3

(* What a PUT stored with success nobody empties or overwrites, for any    *)
(* number of sessions, unless another PUT of the name passed the check     *)
(* together with it (handle_put:256-270).                                  *)
THEOREM StoredIsKept == Spec => StoredStays
<1>1. Init => IInv /\ Reported
  BY InitHolds DEF Init, Reported
<1>2. IInv /\ Reported /\ [Next]_vars => (IInv /\ Reported)'
  BY NextHolds, ReportedStep
<1>3. IInv /\ Reported /\ [Next]_vars =>
        [\A s \in Sessions : IsPut(s) /\ result[s] = "ok" /\ s \notin raced
                               => file'[NameOf(s)] = file[NameOf(s)]]_vars
  BY StoredKept
<1> QED
  BY <1>1, <1>2, <1>3, PTL DEF Spec, StoredStays

-----------------------------------------------------------------------------
(* What TypeOK says of the variables that PUTs do not depend on.           *)
Data == Sessions \cup {Old, Hole}

Others ==
  /\ file \in [Names -> Seq(Data) \cup {Absent}]
  /\ announced \in [Sessions -> Nat] /\ copy \in [Sessions -> Seq(Data)]
  /\ cpc \in [Sessions -> {"prompt", "reply", "accept", "send", "told"}]
  /\ conn \in [Sessions -> {"none", "queued", "open", "eof", "reset"}]
  /\ crashed \in BOOLEAN /\ mixed \subseteq Sessions

(* A session that has a file open, to read it or to write it.              *)
Busy(s)  == spc[s] \in {"connect", "receive", "stuck", "send"}
Reads(s) == ~IsPut(s) /\ Busy(s)

(* A GET sends from a file that is there, and has sent nothing before.     *)
Known(s) ==
  /\ Reads(s) => NameOf(s) \in Names /\ Exists(NameOf(s))
  /\ spc[s] \in {"idle", "check"} => copy[s] = << >>

(* Unless a PUT had the file open meanwhile, none has: the file is as long *)
(* as announced, and its beginning has been sent up to the position of the *)
(* stream.                                                                 *)
Clean(s) ==
  Reads(s) /\ s \notin mixed =>
    /\ \A t \in Sessions : IsPut(t) /\ Busy(t) => NameOf(t) # NameOf(s)
    /\ announced[s] = Len(file[NameOf(s)]) /\ pos[s] <= announced[s]
    /\ Len(copy[s]) = pos[s]
    /\ \A i \in 1 .. pos[s] : copy[s][i] = file[NameOf(s)][i]

GetInv == IInv /\ Others /\ \A s \in Sessions : Known(s) /\ Clean(s)

LEMMA GetInit == Init => GetInv
<1> SUFFICES ASSUME Init PROVE GetInv
  OBVIOUS
<1>1. IInv
  BY InitHolds
<1>2. Others
  <2>1. <<Old>> \in Seq(Data) /\ << >> \in Seq(Data)
    BY DEF Data
  <2> QED
    BY <2>1 DEF Init, Others
<1>3. ASSUME NEW s \in Sessions PROVE Known(s) /\ Clean(s)
  BY DEF Init, Known, Clean, Reads, Busy
<1> QED
  BY <1>1, <1>2, <1>3 DEF GetInv

(* A file that is there holds blocks; an empty one is not an absent one.   *)
LEMMA FileLemma ==
  ASSUME Others, NEW n \in Names
  PROVE  /\ Exists(n) => file[n] \in Seq(Data)
         /\ << >> # Absent /\ << >> \in Seq(Data)
<1>1. Len(<< >>) # Len(<<"absent">>)
  OBVIOUS
<1> QED
  BY <1>1 DEF Others, Exists, Absent

(* The steps that leave the files alone, open none and send nothing.       *)
LEMMA KeepHolds ==
  ASSUME IInv, NEW s \in Sessions, Known(s), Clean(s),
         UNCHANGED <<file, job>>, mixed \subseteq mixed',
         \A t \in Sessions : Busy(t)' => Busy(t),
         spc'[s] \in {"idle", "check"} => spc[s] \in {"idle", "check"},
         copy'[s] = copy[s], announced'[s] = announced[s],
         Reads(s) => pos'[s] = pos[s]
  PROVE  Known(s)' /\ Clean(s)'
<1>1. \A t \in Sessions : IsPut(t)' = IsPut(t) /\ NameOf(t)' = NameOf(t)
  BY DEF IsPut, NameOf
<1>2. Reads(s)' => Reads(s)
  BY <1>1 DEF Reads
<1>3. Known(s)'
  BY <1>1, <1>2 DEF Known, Exists
<1>4. Clean(s)'
  <2> SUFFICES ASSUME Reads(s)', s \notin mixed'
               PROVE  /\ \A t \in Sessions : IsPut(t)' /\ Busy(t)' => NameOf(t)' # NameOf(s)'
                      /\ announced'[s] = Len(file'[NameOf(s)'])
                      /\ pos'[s] <= announced'[s]
                      /\ Len(copy'[s]) = pos'[s]
                      /\ \A i \in 1 .. pos'[s] : copy'[s][i] = file'[NameOf(s)'][i]
    BY DEF Clean
  <2>1. Reads(s) /\ s \notin mixed
    BY <1>2
  <2> QED
    BY <1>1, <2>1 DEF Clean
<1> QED
  BY <1>3, <1>4

LEMMA OthersStep == ASSUME GetInv, [Next]_vars PROVE Others'
<1> USE DEF Set
<1>0. Others /\ IInv /\ IInv' /\ \A s \in Sessions : Known(s)
  BY NextHolds DEF GetInv
<1>1. ASSUME NEW s \in Sessions, ClientStep(s) \/ ClientDies(s) PROVE Others'
  <2>1. UNCHANGED <<file, announced, copy, crashed, mixed>>
    BY <1>1 DEF ClientStep, ClientDies, ClientReply, ClientGivesUp, ClientAccept,
                ClientSend, ClientSent, serverVars, historyVars
  <2>2. \/ cpc' = cpc
        \/ \E p \in {"accept", "send", "told"} : cpc' = [cpc EXCEPT ![s] = p]
    BY <1>1 DEF ClientStep, ClientDies, ClientReply, ClientGivesUp, ClientAccept,
                ClientSend, ClientSent
  <2>3. \/ conn' = conn
        \/ \E c \in {"open", "eof", "reset"} : conn' = [conn EXCEPT ![s] = c]
    BY <1>1 DEF ClientStep, ClientDies, ClientReply, ClientGivesUp, ClientAccept,
                ClientSend, ClientSent
  <2> QED
    BY <1>0, <2>1, <2>2, <2>3 DEF Others
<1>2. ASSUME NEW s \in Sessions,
             \/ Begin(s) \/ PutCheck(s) \/ CheckThrows(s) \/ PutDone(s) \/ PutCut(s)
             \/ GetConnect(s) \/ GetDone(s)
      PROVE  Others'
  <2>1. UNCHANGED <<file, announced, copy, conn, crashed, mixed>>
    BY <1>2 DEF Begin, PutCheck, CheckThrows, Refuse, PutDone, PutCut, GetConnect, GetDone, serverVars,
                historyVars
  <2>2. cpc' \in [Sessions -> {"prompt", "reply", "accept", "send", "told"}]
    BY <1>0, <1>2 DEF Begin, PutCheck, CheckThrows, PutDone, PutCut, GetConnect, GetDone, clientVars,
                      Others
  <2> QED
    BY <1>0, <2>1, <2>2 DEF Others
<1>3. ASSUME NEW s \in Sessions, PutConnect(s) \/ PutWriteFails(s) PROVE Others'
  <2>1. UNCHANGED <<file, announced, copy, cpc, crashed, mixed>>
    BY <1>3 DEF PutConnect, PutWriteFails, clientVars, historyVars
  <2>2. \/ conn' = conn
        \/ \E c \in {"queued", "reset"} : conn' = [conn EXCEPT ![s] = c]
    BY <1>3 DEF PutConnect, PutWriteFails
  <2> QED
    BY <1>0, <2>1, <2>2 DEF Others
<1>4. ASSUME NEW s \in Sessions, PutOpen(s) PROVE Others'
  <2>1. UNCHANGED <<announced, copy, cpc, conn, crashed>>
    BY <1>4 DEF PutOpen, clientVars
  <2>2. file' = file \/ file' = [file EXCEPT ![NameOf(s)] = << >>]
    BY <1>4 DEF PutOpen, Refuse
  <2>3. mixed' \subseteq Sessions
    BY <1>0, <1>4 DEF PutOpen, Getting, Others
  <2>4. file' \in [Names -> Seq(Data) \cup {Absent}]
    <3>1. << >> \in Seq(Data)
      OBVIOUS
    <3>2. file \in [Names -> Seq(Data) \cup {Absent}]
      BY <1>0 DEF Others
    <3> QED
      BY <2>2, <3>1, <3>2
  <2> QED
    BY <1>0, <2>1, <2>3, <2>4 DEF Others
<1>5. ASSUME NEW s \in Sessions, PutReceive(s) PROVE Others'
  <2> DEFINE n == NameOf(s)
             p == pos[s] + 1
  <2>1. /\ UNCHANGED <<announced, copy, cpc, conn, crashed, mixed>>
        /\ file' = [file EXCEPT ![n] = Write(file[n], p, s)]
    BY <1>5 DEF PutReceive, clientVars, historyVars
  <2>2. n \in Names /\ Exists(n) /\ p \in Nat \ {0}
    <3>1. IsPut(s) /\ spc[s] = "receive" /\ Course(s) /\ Made(s) /\ pos[s] \in Nat
      BY <1>0, <1>5 DEF PutReceive, IInv, Course, Types
    <3> QED
      BY <3>1 DEF Course, Made
  <2>3. file[n] \in Seq(Data) /\ {s, Hole} \subseteq Data
    BY <1>0, <2>2, FileLemma DEF Data
  <2> HIDE DEF n, p
  <2>4. Write(file[n], p, s) \in Seq(Data)
    BY <2>2, <2>3, WriteHolds
  <2>5. file' \in [Names -> Seq(Data) \cup {Absent}]
    BY <1>0, <2>1, <2>4 DEF Others
  <2> QED
    BY <1>0, <2>1, <2>5 DEF Others
<1>6. ASSUME NEW s \in Sessions, GetOpen(s) PROVE Others'
  <2>1. UNCHANGED <<file, copy, cpc, conn, crashed>>
    BY <1>6 DEF GetOpen, clientVars
  <2>2. mixed' \subseteq Sessions
    BY <1>0, <1>6 DEF GetOpen, Others
  <2>3. announced' \in [Sessions -> Nat]
    <3>1. CASE Taken(NameOf(s))
      <4>1. file[NameOf(s)] \in Seq(Data)
        BY <1>0, <3>1, FileLemma DEF Taken
      <4>2. announced' = [announced EXCEPT ![s] = Len(file[NameOf(s)])]
        BY <1>6, <3>1 DEF GetOpen
      <4>3. Len(file[NameOf(s)]) \in Nat
        BY <4>1
      <4> QED
        BY <1>0, <4>2, <4>3 DEF Others
    <3>2. CASE ~Taken(NameOf(s))
      BY <1>0, <1>6, <3>2 DEF GetOpen, Others
    <3> QED
      BY <3>1, <3>2
  <2> QED
    BY <1>0, <2>1, <2>2, <2>3 DEF Others
<1>7. ASSUME NEW s \in Sessions, GetSend(s) PROVE Others'
  <2> DEFINE f == file[NameOf(s)]
  <2>1. /\ UNCHANGED <<file, announced, cpc, conn, crashed, mixed>>
        /\ pos[s] < Len(f) /\ copy' = [copy EXCEPT ![s] = Append(copy[s], f[pos[s] + 1])]
    BY <1>7 DEF GetSend, clientVars, historyVars
  <2>2. f \in Seq(Data) /\ pos[s] \in Nat
    <3>1. Reads(s) /\ Known(s) /\ pos[s] \in Nat
      BY <1>0, <1>7 DEF GetSend, Reads, Busy, IInv, Course, Types
    <3> QED
      BY <1>0, <3>1, FileLemma DEF Known
  <2>3. f[pos[s] + 1] \in Data
    BY <2>1, <2>2
  <2> HIDE DEF f
  <2>4. Append(copy[s], f[pos[s] + 1]) \in Seq(Data)
    BY <1>0, <2>3 DEF Others
  <2> QED
    BY <1>0, <2>1, <2>4 DEF Others
<1>8. CASE Crash
  <2>1. UNCHANGED <<file, announced, copy, cpc, mixed>> /\ crashed' = TRUE
    BY <1>8 DEF Crash, clientVars, serverVars, historyVars
  <2>2. conn' \in [Sessions -> {"none", "queued", "open", "eof", "reset"}]
    BY <1>0, <1>8 DEF Crash, Others
  <2> QED
    BY <1>0, <2>1, <2>2 DEF Others
<1>9. CASE UNCHANGED vars
  BY <1>0, <1>9 DEF vars, clientVars, serverVars, historyVars, Others
<1> QED
  BY <1>1, <1>2, <1>3, <1>4, <1>5, <1>6, <1>7, <1>8, <1>9 DEF Next, ServerStep

(* A PUT that opens a file marks every GET that reads it; no other file is *)
(* touched.                                                                *)
LEMMA OpenKeepsGets ==
  ASSUME GetInv, NEW t \in Sessions, PutOpen(t), NEW s \in Sessions
  PROVE  Known(s)' /\ Clean(s)'
<1> USE DEF Set
<1>0. /\ IInv /\ Others /\ Known(s) /\ Clean(s) /\ Course(t) /\ Course(s)
      /\ spc \in [Sessions -> Phase] /\ spc[t] = "open" /\ IsPut(t) /\ NameOf(t) \in Names
      /\ UNCHANGED <<job, pos, announced, copy>>
  BY DEF GetInv, IInv, Types, PutOpen, Course, clientVars
<1>1. CASE Refuse(t) /\ mixed' = mixed
  <2>1. UNCHANGED file /\ spc' = [spc EXCEPT ![t] = "done"]
    BY <1>1 DEF Refuse, Finish
  <2>2. \A u \in Sessions : Busy(u)' => Busy(u)
    BY <1>0, <2>1 DEF Busy
  <2>3. spc'[s] \in {"idle", "check"} => spc[s] \in {"idle", "check"}
    BY <1>0, <2>1
  <2> QED
    BY <1>0, <1>1, <2>1, <2>2, <2>3, KeepHolds
<1>2. CASE ~(Refuse(t) /\ mixed' = mixed)
  <2>1. /\ file' = [file EXCEPT ![NameOf(t)] = << >>]
        /\ mixed' = mixed \cup {r \in Getting(NameOf(t)) : spc[r] \in {"connect", "send"}}
        /\ \E p \in {"connect", "done"} : spc' = [spc EXCEPT ![t] = p]
    BY <1>2 DEF PutOpen, Finish
  <2>2. \A u \in Sessions : IsPut(u)' = IsPut(u) /\ NameOf(u)' = NameOf(u)
    BY <1>0 DEF IsPut, NameOf
  <2>3. \A u \in Sessions : u # t => spc'[u] = spc[u]
    BY <1>0, <2>1
  <2>4. /\ file'[NameOf(t)] = << >> /\ << >> # Absent
        /\ \A n \in Names : n # NameOf(t) => file'[n] = file[n]
    BY <1>0, <2>1, FileLemma DEF Others
  <2>5. Reads(s)' => Reads(s) /\ s # t
    BY <1>0, <2>2, <2>3 DEF Reads, Busy
  <2>6. Known(s)'
    <3>1. Reads(s)' => NameOf(s)' \in Names /\ Exists(NameOf(s))'
      BY <1>0, <2>2, <2>4, <2>5 DEF Known, Exists
    <3>2. spc'[s] \in {"idle", "check"} => copy'[s] = << >>
      BY <1>0, <2>1, <2>3 DEF Known
    <3> QED
      BY <3>1, <3>2 DEF Known
  <2>7. Clean(s)'
    <3> SUFFICES ASSUME Reads(s)', s \notin mixed'
                 PROVE  /\ \A u \in Sessions : IsPut(u)' /\ Busy(u)' => NameOf(u)' # NameOf(s)'
                        /\ announced'[s] = Len(file'[NameOf(s)'])
                        /\ pos'[s] <= announced'[s]
                        /\ Len(copy'[s]) = pos'[s]
                        /\ \A i \in 1 .. pos'[s] : copy'[s][i] = file'[NameOf(s)'][i]
      BY DEF Clean
    <3>1. Reads(s) /\ s \notin mixed /\ spc[s] \in {"connect", "send"} /\ ~IsPut(s)
      BY <1>0, <2>1, <2>5 DEF Reads, Busy, Course
    <3>2. NameOf(s) # NameOf(t)
      BY <2>1, <3>1 DEF Getting
    <3>3. NameOf(s) \in Names /\ file'[NameOf(s)'] = file[NameOf(s)]
      BY <1>0, <2>2, <2>4, <3>1, <3>2 DEF Known
    <3>4. \A u \in Sessions : IsPut(u)' /\ Busy(u)' => NameOf(u)' # NameOf(s)'
      <4> TAKE u \in Sessions
      <4>1. CASE u = t
        BY <2>2, <3>2, <4>1
      <4>2. CASE u # t
        BY <1>0, <2>2, <2>3, <3>1, <4>2 DEF Clean, Busy
      <4> QED
        BY <4>1, <4>2
    <3> QED
      BY <1>0, <3>1, <3>3, <3>4 DEF Clean
  <2> QED
    BY <2>6, <2>7
<1> QED
  BY <1>1, <1>2

(* A PUT writes only to a file that no unmarked GET reads.                 *)
LEMMA WriteKeepsGets ==
  ASSUME GetInv, NEW t \in Sessions, PutReceive(t), NEW s \in Sessions
  PROVE  Known(s)' /\ Clean(s)'
<1> USE DEF Set
<1>0. /\ IInv /\ Others /\ Known(s) /\ Clean(s) /\ Course(t) /\ IInv'
      /\ spc[t] = "receive" /\ IsPut(t) /\ Busy(t) /\ Opened(t) /\ NameOf(t) \in Names
      /\ UNCHANGED <<job, spc, announced, copy, mixed, reply>>
      /\ file \in [Names -> Seq(Block)] /\ pos \in [Sessions -> Nat]
  <2>1. [Next]_vars
    BY DEF Next, ServerStep
  <2> QED
    BY <2>1, NextHolds
    DEF GetInv, IInv, Types, PutReceive, Course, clientVars, historyVars, Busy
<1>1. /\ \E w : file' = [file EXCEPT ![NameOf(t)] = w]
      /\ pos' = [pos EXCEPT ![t] = pos[t] + 1]
  BY DEF PutReceive
<1>2. \A u \in Sessions :
        /\ IsPut(u)' = IsPut(u) /\ NameOf(u)' = NameOf(u) /\ Busy(u)' = Busy(u)
        /\ Reads(u)' = Reads(u)
  BY <1>0 DEF IsPut, NameOf, Busy, Reads
<1>3. \A n \in Names : n # NameOf(t) => file'[n] = file[n]
  BY <1>0, <1>1
<1>4. file'[NameOf(t)] # Absent
  <2>1. Made(t)'
    BY <1>0 DEF IInv
  <2>2. Opened(t)' /\ NameOf(t)' = NameOf(t)
    BY <1>0, <1>2 DEF Opened
  <2> QED
    BY <2>1, <2>2 DEF Made, Exists
<1>5. Known(s)'
  <2>1. Reads(s)' => NameOf(s)' \in Names /\ Exists(NameOf(s))'
    BY <1>0, <1>2, <1>3, <1>4 DEF Known, Exists
  <2> QED
    BY <1>0, <2>1 DEF Known
<1>6. Clean(s)'
  <2> SUFFICES ASSUME Reads(s)', s \notin mixed'
               PROVE  /\ \A u \in Sessions : IsPut(u)' /\ Busy(u)' => NameOf(u)' # NameOf(s)'
                      /\ announced'[s] = Len(file'[NameOf(s)'])
                      /\ pos'[s] <= announced'[s]
                      /\ Len(copy'[s]) = pos'[s]
                      /\ \A i \in 1 .. pos'[s] : copy'[s][i] = file'[NameOf(s)'][i]
    BY DEF Clean
  <2>1. Reads(s) /\ s \notin mixed /\ s # t
    BY <1>0, <1>2 DEF Reads
  <2>2. NameOf(s) # NameOf(t) /\ NameOf(s) \in Names
    BY <1>0, <2>1 DEF Clean, Known
  <2>3. file'[NameOf(s)'] = file[NameOf(s)] /\ pos'[s] = pos[s]
    BY <1>0, <1>1, <1>2, <1>3, <2>1, <2>2
  <2> QED
    BY <1>0, <1>2, <2>1, <2>3 DEF Clean
<1> QED
  BY <1>5, <1>6

(* A GET opens its file: what it announces is the length, and it is marked *)
(* if a PUT has the file open.                                             *)
LEMMA OpenHolds ==
  ASSUME GetInv, NEW s \in Sessions, GetOpen(s), Taken(NameOf(s))
  PROVE  Known(s)' /\ Clean(s)'
<1> USE DEF Set
<1> DEFINE n == NameOf(s)
<1>0. /\ IInv /\ Others /\ Known(s) /\ n \in Names /\ Exists(n) /\ spc \in [Sessions -> Phase]
      /\ announced \in [Sessions -> Nat] /\ pos \in [Sessions -> Nat]
      /\ file[n] \in Seq(Data) /\ copy[s] = << >> /\ ~IsPut(s) /\ spc[s] = "check"
  BY FileLemma DEF GetInv, IInv, Types, Others, GetOpen, Taken, Known
<1>1. /\ spc' = [spc EXCEPT ![s] = "connect"]
      /\ announced' = [announced EXCEPT ![s] = Len(file[n])]
      /\ pos' = [pos EXCEPT ![s] = 0]
      /\ mixed' = IF Writing(n) = {} THEN mixed ELSE mixed \cup {s}
      /\ UNCHANGED <<file, job, copy>>
  BY DEF GetOpen, StartOf
<1>2. \A u \in Sessions : IsPut(u)' = IsPut(u) /\ NameOf(u)' = NameOf(u)
  BY <1>1 DEF IsPut, NameOf
<1>3. /\ spc'[s] = "connect" /\ announced'[s] = Len(file[n]) /\ pos'[s] = 0
      /\ copy'[s] = << >> /\ file'[NameOf(s)'] = file[n]
  BY <1>0, <1>1, <1>2
<1>4. Known(s)'
  BY <1>0, <1>1, <1>2, <1>3 DEF Known, Exists
<1>5. Clean(s)'
  <2>1. s \notin mixed' =>
          \A u \in Sessions : IsPut(u)' /\ Busy(u)' => NameOf(u)' # NameOf(s)'
    <3> SUFFICES ASSUME s \notin mixed', NEW u \in Sessions, IsPut(u)', Busy(u)',
                        NameOf(u)' = NameOf(s)'
                 PROVE  FALSE
      OBVIOUS
    <3>1. u # s /\ IsPut(u) /\ Busy(u) /\ NameOf(u) = n
      BY <1>0, <1>1, <1>2 DEF Busy
    <3>2. spc[u] \in {"connect", "receive", "stuck"}
      BY <1>0, <3>1 DEF Busy, IInv, Course
    <3>3. u \in Writing(n)
      BY <3>1, <3>2 DEF Writing, Putting
    <3> QED
      BY <1>1, <3>3
  <2>2. Len(file[n]) \in Nat /\ Len(<< >>) = 0 /\ 1 .. 0 = {}
    BY <1>0
  <2> QED
    BY <1>3, <2>1, <2>2 DEF Clean
<1> QED
  BY <1>4, <1>5

(* The next block of the file goes to the client.                          *)
LEMMA SendKeeps ==
  ASSUME GetInv, NEW s \in Sessions, GetSend(s)
  PROVE  Known(s)' /\ Clean(s)'
<1> USE DEF Set
<1> DEFINE f == file[NameOf(s)]
           p == pos[s]
<1>0. /\ IInv /\ Others /\ Known(s) /\ Clean(s) /\ Reads(s) /\ NameOf(s) \in Names
      /\ f \in Seq(Data) /\ p \in Nat /\ copy[s] \in Seq(Data) /\ spc[s] = "send"
      /\ pos \in [Sessions -> Nat] /\ copy \in [Sessions -> Seq(Data)]
  <2>1. Reads(s) /\ Known(s)
    BY DEF GetInv, GetSend, Reads, Busy, IInv, Course
  <2> QED
    BY <2>1, FileLemma DEF GetInv, IInv, Types, Others, GetSend, Known
<1>1. /\ p < Len(f) /\ pos' = [pos EXCEPT ![s] = p + 1]
      /\ copy' = [copy EXCEPT ![s] = Append(copy[s], f[p + 1])]
      /\ UNCHANGED <<file, job, spc, announced, mixed>>
  BY DEF GetSend, historyVars
<1>2. \A u \in Sessions :
        /\ IsPut(u)' = IsPut(u) /\ NameOf(u)' = NameOf(u) /\ Busy(u)' = Busy(u)
        /\ Reads(u)' = Reads(u)
  BY <1>1 DEF IsPut, NameOf, Busy, Reads
<1>3. pos'[s] = p + 1 /\ copy'[s] = Append(copy[s], f[p + 1]) /\ file'[NameOf(s)'] = f
  BY <1>0, <1>1, <1>2
<1>4. Known(s)'
  BY <1>0, <1>1, <1>2 DEF Known, Exists
<1>5. Clean(s)'
  <2> SUFFICES ASSUME s \notin mixed'
               PROVE  /\ \A u \in Sessions : IsPut(u)' /\ Busy(u)' => NameOf(u)' # NameOf(s)'
                      /\ announced'[s] = Len(file'[NameOf(s)'])
                      /\ pos'[s] <= announced'[s]
                      /\ Len(copy'[s]) = pos'[s]
                      /\ \A i \in 1 .. pos'[s] : copy'[s][i] = file'[NameOf(s)'][i]
    BY DEF Clean
  <2>1. /\ \A u \in Sessions : IsPut(u) /\ Busy(u) => NameOf(u) # NameOf(s)
        /\ announced[s] = Len(f) /\ Len(copy[s]) = p
        /\ \A i \in 1 .. p : copy[s][i] = f[i]
    BY <1>0, <1>1 DEF Clean
  <2> HIDE DEF f, p
  <2>2. announced'[s] = Len(file'[NameOf(s)']) /\ pos'[s] <= announced'[s]
    <3>1. Len(f) \in Nat /\ p + 1 <= Len(f)
      BY <1>0, <1>1
    <3> QED
      BY <1>1, <1>3, <2>1, <3>1
  <2>3. Len(copy'[s]) = p + 1 /\ \A i \in 1 .. p + 1 : copy'[s][i] = f[i]
    <3>1. Len(Append(copy[s], f[p + 1])) = p + 1
      BY <1>0, <2>1
    <3>2. \A i \in 1 .. p + 1 : Append(copy[s], f[p + 1])[i] = f[i]
      BY <1>0, <2>1
    <3> QED
      BY <1>3, <3>1, <3>2
  <2> QED
    BY <1>2, <1>3, <2>1, <2>2, <2>3
<1> QED
  BY <1>4, <1>5

LEMMA GetStep == ASSUME GetInv, [Next]_vars PROVE GetInv'
<1> USE DEF Set
<1>0. IInv /\ IInv' /\ Others /\ Others' /\ Types /\ \A s \in Sessions : Known(s) /\ Clean(s)
  BY NextHolds, OthersStep DEF GetInv, IInv
<1> SUFFICES ASSUME NEW s \in Sessions PROVE Known(s)' /\ Clean(s)'
  BY <1>0 DEF GetInv
<1>1. ASSUME UNCHANGED <<file, job, copy>>, mixed \subseteq mixed',
             NEW t \in Sessions, \A u \in Sessions \ {t} : spc'[u] = spc[u],
             Busy(t)' => Busy(t),
             spc'[t] \in {"idle", "check"} => spc[t] \in {"idle", "check"},
             announced'[s] = announced[s], Reads(s) => pos'[s] = pos[s]
      PROVE  Known(s)' /\ Clean(s)'
  <2>1. \A u \in Sessions : Busy(u)' => Busy(u)
    BY <1>1 DEF Busy
  <2>2. spc'[s] \in {"idle", "check"} => spc[s] \in {"idle", "check"}
    BY <1>1
  <2> QED
    BY <1>0, <1>1, <2>1, <2>2, KeepHolds
<1>2. ASSUME NEW t \in Sessions, ClientStep(t) \/ ClientDies(t) PROVE Known(s)' /\ Clean(s)'
  <2>1. UNCHANGED <<file, job, spc, pos, announced, copy, mixed>>
    BY <1>2 DEF ClientStep, ClientDies, ClientReply, ClientGivesUp, ClientAccept,
                ClientSend, ClientSent, serverVars, historyVars
  <2> QED
    BY <1>1, <2>1 DEF Busy
<1>3. ASSUME NEW t \in Sessions,
             \/ Begin(t) \/ PutCheck(t) \/ CheckThrows(t) \/ PutConnect(t)
             \/ PutWriteFails(t) \/ PutCut(t)
             \/ PutDone(t) \/ GetConnect(t) \/ GetDone(t)
      PROVE  Known(s)' /\ Clean(s)'
  <2>1. UNCHANGED <<file, job, pos, announced, copy, mixed>>
    BY <1>3 DEF Begin, PutCheck, CheckThrows, Refuse, PutConnect, PutWriteFails, PutCut,
                PutDone, GetConnect, GetDone, serverVars, historyVars
  <2>2. /\ \E p : spc' = [spc EXCEPT ![t] = p]
        /\ \/ spc'[t] \in {"check", "open", "done"} /\ spc[t] = "idle"
           \/ spc'[t] \in {"open", "done"} /\ spc[t] = "check"
           \/ spc'[t] \in {"receive", "send", "stuck", "done"}
              /\ spc[t] \in {"connect", "receive", "send"}
    BY <1>0, <1>3 DEF Begin, PutCheck, CheckThrows, Refuse, Finish, PutConnect, PutWriteFails,
                      PutCut, PutDone, GetConnect, GetDone, Types
  <2>3. \A u \in Sessions \ {t} : spc'[u] = spc[u]
    BY <1>0, <2>2 DEF Types
  <2> QED
    BY <1>1, <2>1, <2>2, <2>3 DEF Busy
<1>4. ASSUME NEW t \in Sessions, PutOpen(t) PROVE Known(s)' /\ Clean(s)'
  BY <1>4, OpenKeepsGets
<1>5. ASSUME NEW t \in Sessions, PutReceive(t) PROVE Known(s)' /\ Clean(s)'
  BY <1>5, WriteKeepsGets
<1>6. ASSUME NEW t \in Sessions, GetOpen(t) PROVE Known(s)' /\ Clean(s)'
  <2>1. CASE Taken(NameOf(t)) /\ t = s
    BY <1>6, <2>1, OpenHolds
  <2>2. CASE Taken(NameOf(t)) /\ t # s
    <3>1. /\ spc' = [spc EXCEPT ![t] = "connect"] /\ ~IsPut(t)
          /\ UNCHANGED <<file, job, copy>> /\ mixed' \in {mixed, mixed \cup {t}}
          /\ pos'[s] = pos[s] /\ announced'[s] = announced[s]
      BY <1>0, <1>6, <2>2 DEF GetOpen, Types, Others
    <3>2. \A u \in Sessions : u # t => spc'[u] = spc[u]
      BY <1>0, <3>1 DEF Types
    <3>3. \A u \in Sessions : IsPut(u)' = IsPut(u) /\ NameOf(u)' = NameOf(u)
      BY <3>1 DEF IsPut, NameOf
    <3>4. Known(s)'
      BY <1>0, <2>2, <3>1, <3>2, <3>3 DEF Known, Reads, Busy, Exists
    <3>5. \A u \in Sessions : IsPut(u)' /\ Busy(u)' => IsPut(u) /\ Busy(u)
      BY <3>1, <3>2, <3>3 DEF Busy
    <3>6. Reads(s)' => Reads(s)
      BY <2>2, <3>2, <3>3 DEF Reads, Busy
    <3>7. s \notin mixed' => s \notin mixed
      BY <3>1
    <3>8. Clean(s)'
      <4> SUFFICES ASSUME Reads(s), s \notin mixed
                   PROVE  /\ \A u \in Sessions :
                               IsPut(u)' /\ Busy(u)' => NameOf(u)' # NameOf(s)'
                          /\ announced'[s] = Len(file'[NameOf(s)'])
                          /\ pos'[s] <= announced'[s]
                          /\ Len(copy'[s]) = pos'[s]
                          /\ \A i \in 1 .. pos'[s] : copy'[s][i] = file'[NameOf(s)'][i]
        BY <3>6, <3>7 DEF Clean
      <4> QED
        BY <1>0, <3>1, <3>3, <3>5 DEF Clean
    <3> QED
      BY <3>4, <3>8
  <2>3. CASE ~Taken(NameOf(t))
    <3>1. /\ spc' = [spc EXCEPT ![t] = "done"]
          /\ UNCHANGED <<file, job, copy, mixed, pos, announced>>
      BY <1>6, <2>3 DEF GetOpen, Finish
    <3> QED
      BY <1>0, <1>1, <3>1 DEF Types, Busy
  <2> QED
    BY <2>1, <2>2, <2>3
<1>7. ASSUME NEW t \in Sessions, GetSend(t) PROVE Known(s)' /\ Clean(s)'
  <2>1. CASE t = s
    BY <1>7, <2>1, SendKeeps
  <2>2. CASE t # s
    <3>1. /\ UNCHANGED <<file, job, spc, announced, mixed>>
          /\ copy'[s] = copy[s] /\ pos'[s] = pos[s]
      BY <1>0, <1>7, <2>2 DEF GetSend, historyVars, Types, Others
    <3> QED
      BY <1>0, <3>1, KeepHolds DEF Busy
  <2> QED
    BY <2>1, <2>2
<1>8. CASE Crash
  <2>1. /\ UNCHANGED <<file, job, pos, announced, copy, mixed>>
        /\ \A u \in Sessions : spc'[u] \in {spc[u], "done"}
    BY <1>8 DEF Crash, serverVars, historyVars
  <2> QED
    BY <1>0, <2>1, KeepHolds DEF Busy
<1>9. CASE UNCHANGED vars
  <2>1. UNCHANGED <<file, job, spc, pos, announced, copy, mixed>>
    BY <1>9 DEF vars, serverVars, historyVars
  <2> QED
    BY <1>1, <2>1 DEF Busy
<1> QED
  BY <1>2, <1>3, <1>4, <1>5, <1>6, <1>7, <1>8, <1>9 DEF Next, ServerStep

LEMMA GetHolds == Spec => []GetInv
  BY GetInit, GetStep, PTL DEF Spec

(* No session ever writes to or reads from a file that is not there, and a *)
(* stream never stands before the beginning of its file.                   *)
THEOREM StoreTypes == Spec => []TypeOK
<1>1. GetInv => TypeOK
  BY DEF GetInv, IInv, Types, Others, Data, Phase, TypeOK
<1> QED
  BY <1>1, GetHolds, PTL

(* A GET in whose time no PUT had its file open has announced the length   *)
(* of the file, and has sent its beginning, whatever the other sessions    *)
(* did and do (handle_get:192-239).                                        *)
THEOREM GetsAreStored == Spec => []GetIsStored
<1>1. GetInv => GetIsStored
  <2> SUFFICES ASSUME GetInv, NEW s \in Sessions, spc[s] = "send", s \notin mixed
               PROVE  /\ announced[s] = Len(file[NameOf(s)])
                      /\ copy[s] = SubSeq(file[NameOf(s)], 1, pos[s])
    BY DEF GetIsStored
  <2> DEFINE f == file[NameOf(s)]
             p == pos[s]
  <2>1. Reads(s) /\ Known(s) /\ Clean(s) /\ p \in Nat /\ copy[s] \in Seq(Data)
    BY DEF GetInv, IInv, Course, Types, Others, Reads, Busy
  <2>2. f \in Seq(Data)
    BY <2>1, FileLemma DEF GetInv, Known
  <2>3. /\ announced[s] = Len(f) /\ p <= Len(f) /\ Len(copy[s]) = p
        /\ \A i \in 1 .. p : copy[s][i] = f[i]
    BY <2>1 DEF Clean
  <2> HIDE DEF f, p
  <2>4. Len(SubSeq(f, 1, p)) = p /\ \A i \in 1 .. p : SubSeq(f, 1, p)[i] = f[i]
    BY <2>1, <2>2, <2>3
  <2>5. SubSeq(f, 1, p) \in Seq(Data)
    BY <2>1, <2>2, <2>3
  <2>6. copy[s] = SubSeq(f, 1, p)
    BY <2>1, <2>3, <2>4, <2>5
  <2> QED
    BY <2>3, <2>6 DEF f, p
<1> QED
  BY <1>1, GetHolds, PTL

=============================================================================
