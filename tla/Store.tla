------------------------------- MODULE Store -------------------------------
(***************************************************************************)
(* The directory of the server, shared by the threads of several sessions: *)
(* handle_put of the server with handle_put of a client at the other end,  *)
(* and what handle_get does to the same files.  Each session here serves   *)
(* one command; a retry is the command of another session.                 *)
(*                                                                         *)
(* A file is a sequence of blocks, each named by the session whose PUT it  *)
(* belongs to.  A stream that has the file open has a position of its own. *)
(***************************************************************************)
EXTENDS Naturals, Sequences, FiniteSets

CONSTANTS
  Sessions,
  Names,         \* valid file names
  BadNames,      \* empty or containing a path separator
  OldFiles,      \* files of one block that are there before any PUT
  Old, Hole,     \* owner of their block; what a write beyond the end leaves
  Sizes,         \* lengths of the files put
  Window,        \* blocks ::send may be ahead of recv
  MayCrash       \* the server may be stopped, once

ASSUME StoreAssumption ==
  /\ Names \cap BadNames = {} /\ OldFiles \subseteq Names
  /\ {Old, Hole} \cap Sessions = {} /\ "absent" \notin Sessions \cup {Old}
  /\ Sizes \subseteq Nat /\ Window \in Nat \ {0} /\ MayCrash \in BOOLEAN

VARIABLES
  file,      \* file[n]: the blocks of file n, or Absent
  job,       \* job[s]: what the client of session s asks for
  spc,       \* the call the thread of session s is in
  pos,       \* position of its file stream
  result,    \* what the session printed: "ok", "failed", "refused" or nothing
  announced, \* the datalen of the OK of a GET
  copy,      \* what a GET has sent
  cpc,       \* the call the client of a PUT is in
  reply,     \* the reply to a PUT that has been sent
  conn,      \* the data connection of a PUT
  put,       \* blocks the client of a PUT has sent
  crashed,
  raced,     \* PUTs that passed the check while another of the name had (history)
  mixed      \* GETs of a file that a PUT had open meanwhile (history)

clientVars  == <<cpc, put>>
serverVars  == <<pos, result, announced, copy>>
historyVars == <<raced, mixed>>
vars == <<file, job, spc, clientVars, serverVars, reply, conn, crashed, historyVars>>

Absent == <<"absent">>
Exists(n) == file[n] # Absent

Set(f, s, v) == [f EXCEPT ![s] = v]

NameOf(s)    == job[s].name
IsPut(s)     == job[s].op = "PUT"
Putting(n)   == {s \in Sessions : IsPut(s) /\ NameOf(s) = n}
Getting(n)   == {s \in Sessions : ~IsPut(s) /\ NameOf(s) = n}
Serving(s)   == spc[s] \notin {"idle", "done"}
Writing(n)   == {s \in Putting(n) : spc[s] \in {"connect", "receive", "stuck"}}
Listening(s) == cpc[s] \in {"reply", "accept"}

Jobs == [op : {"PUT", "GET"}, name : Names \cup BadNames, size : Sizes]

Init ==
  /\ file = [n \in Names |-> IF n \in OldFiles THEN <<Old>> ELSE Absent]
  /\ job \in [Sessions -> Jobs]
  /\ spc = [s \in Sessions |-> "idle"] /\ pos = [s \in Sessions |-> 0]
  /\ result = [s \in Sessions |-> "none"]
  /\ announced = [s \in Sessions |-> 0] /\ copy = [s \in Sessions |-> << >>]
  /\ cpc = [s \in Sessions |-> "prompt"] /\ reply = [s \in Sessions |-> "none"]
  /\ conn = [s \in Sessions |-> "none"] /\ put = [s \in Sessions |-> 0]
  /\ crashed = FALSE /\ raced = {} /\ mixed = {}

-----------------------------------------------------------------------------
(* The command is sent by onListen and received by serve.  The client's    *)
(* own checks of the local file have passed.                               *)
Begin(s) ==
  /\ spc[s] = "idle"
  /\ spc' = Set(spc, s, "check")
  /\ cpc' = IF IsPut(s) THEN Set(cpc, s, "reply") ELSE cpc
  /\ UNCHANGED <<file, job, put, serverVars, reply, conn, crashed, historyVars>>

(* A command ends: the session has printed what, or an exception ended it. *)
Finish(s, what) ==
  /\ spc' = Set(spc, s, "done")
  /\ result' = Set(result, s, what)

Refuse(s) ==
  /\ Finish(s, "refused")
  /\ reply' = Set(reply, s, "ERROR")
  /\ UNCHANGED <<file, raced>>

\* Mutant: the file is not looked for.
Taken_Never(n) == FALSE

\* Mutant: a valid name is taken for that of a file.
Taken_Valid(n) == n \in Names

Taken(n) == n \in Names /\ Exists(n)

(* handle_put:258-267: the file must not exist, the name must be valid.    *)
PutCheck(s) ==
  /\ spc[s] = "check" /\ IsPut(s)
  /\ IF Taken(NameOf(s)) \/ NameOf(s) \in BadNames
       THEN Refuse(s)
       ELSE LET others == {t \in Putting(NameOf(s)) : spc[t] = "open"}
            IN /\ spc' = Set(spc, s, "open")
               /\ raced' = IF others = {} THEN raced ELSE raced \cup others \cup {s}
               /\ UNCHANGED <<file, result, reply>>
  /\ UNCHANGED <<job, clientVars, pos, announced, copy, conn, crashed, mixed>>

(* fs::exists throws a filesystem_error (handle_put:258, handle_get:173),  *)
(* which neither handler catches: the session ends without a reply.        *)
CheckThrows(s) ==
  /\ spc[s] = "check" /\ (IsPut(s) \/ NameOf(s) \in Names)
  /\ Finish(s, "none")
  /\ UNCHANGED <<file, job, clientVars, pos, announced, copy, reply, conn, crashed, historyVars>>

(* handle_put:270-287: the file is opened and emptied, then OK is sent; a  *)
(* client that has gone ends the session with the file left behind.        *)
PutOpen(s) ==
  /\ spc[s] = "open"
  /\ \/ Refuse(s) /\ UNCHANGED mixed
     \/ /\ file' = Set(file, NameOf(s), << >>)
        /\ mixed' = mixed \cup {r \in Getting(NameOf(s)) : spc[r] \in {"connect", "send"}}
        /\ IF cpc[s] = "told"
             THEN Finish(s, "none") /\ UNCHANGED reply
             ELSE /\ spc' = Set(spc, s, "connect")
                  /\ reply' = Set(reply, s, "OK")
                  /\ UNCHANGED result
        /\ UNCHANGED raced
  /\ UNCHANGED <<job, clientVars, pos, announced, copy, conn, crashed>>

(* handle_put:288, outside the try: a connection that cannot be made ends  *)
(* the session.                                                            *)
PutConnect(s) ==
  /\ spc[s] = "connect" /\ IsPut(s)
  /\ \/ /\ Listening(s)
        /\ conn' = Set(conn, s, "queued")
        /\ spc' = Set(spc, s, "receive")
        /\ UNCHANGED result
     \/ Finish(s, "none") /\ UNCHANGED conn
  /\ UNCHANGED <<file, job, clientVars, pos, announced, copy, reply, crashed, historyVars>>

(* A write at the position of the stream, wherever the file ends by now.   *)
Write(f, p, s) ==
  [i \in 1 .. (IF p > Len(f) THEN p ELSE Len(f)) |->
     IF i = p THEN s ELSE IF i <= Len(f) THEN f[i] ELSE Hole]

\* Mutant: the loop stops one block early.
Wanted_OneLess(s) == job[s].size - 1

(* clientCommand.datalen                                                   *)
Wanted(s) == job[s].size

(* The loop over bytesLeft takes a chunk, writes and flushes it.           *)
PutReceive(s) ==
  /\ spc[s] = "receive"
  /\ pos[s] < Wanted(s) /\ pos[s] < put[s]
  /\ file' = Set(file, NameOf(s), Write(file[NameOf(s)], pos[s] + 1, s))
  /\ pos' = Set(pos, s, pos[s] + 1)
  /\ UNCHANGED <<job, spc, clientVars, result, announced, copy, reply, conn, crashed, historyVars>>

(* Writing the stream fails: a runtime_error, which handle_put does not    *)
(* catch.                                                                  *)
PutWriteFails(s) ==
  /\ spc[s] = "receive"
  /\ pos[s] < Wanted(s) /\ pos[s] < put[s]
  /\ Finish(s, "none")
  /\ conn' \in {conn, Set(conn, s, "reset")}
  /\ UNCHANGED <<file, job, clientVars, pos, announced, copy, reply, crashed, historyVars>>

(* The data connection ends too early: a ConnectionException, which is     *)
(* caught, or inside a chunk the endless loop of receive.                  *)
PutCut(s) ==
  /\ spc[s] = "receive"
  /\ pos[s] < Wanted(s) /\ pos[s] = put[s] /\ conn[s] \in {"eof", "reset"}
  /\ \/ Finish(s, "failed")
     \/ conn[s] = "eof" /\ spc' = Set(spc, s, "stuck") /\ UNCHANGED result
  /\ UNCHANGED <<file, job, clientVars, pos, announced, copy, reply, conn, crashed, historyVars>>

PutDone(s) ==
  /\ spc[s] = "receive" /\ pos[s] >= Wanted(s)
  /\ Finish(s, "ok")
  /\ UNCHANGED <<file, job, clientVars, pos, announced, copy, reply, conn, crashed, historyVars>>

-----------------------------------------------------------------------------
(* handle_put of the client: onListen waits for the reply.                 *)
ClientReply(s) ==
  /\ cpc[s] = "reply" /\ reply[s] # "none"
  /\ cpc' = Set(cpc, s, IF reply[s] = "OK" THEN "accept" ELSE "told")
  /\ UNCHANGED <<file, job, spc, put, serverVars, reply, conn, crashed, historyVars>>

\* Mutant: welcome is called without CONNECTION_WAIT_TIMEOUT.
TimeUp_ReplyOnly(s) == cpc[s] = "reply" /\ reply[s] = "none"

(* What it waits for does not come within its time limits.                 *)
TimeUp(s) ==
  \/ cpc[s] = "reply" /\ reply[s] = "none"
  \/ cpc[s] = "accept" /\ conn[s] = "none"

(* It gives up on the reply (an exception, the client ends) or, in welcome,*)
(* on the connection (it returns); the welcome socket is closed.           *)
ClientGivesUp(s) ==
  /\ TimeUp(s)
  /\ cpc' = Set(cpc, s, "told")
  /\ UNCHANGED <<file, job, spc, put, serverVars, reply, conn, crashed, historyVars>>

(* The connection is accepted, also one that has been reset meanwhile.     *)
ClientAccept(s) ==
  /\ cpc[s] = "accept" /\ conn[s] \in {"queued", "reset"}
  /\ cpc' = Set(cpc, s, "send")
  /\ conn' = IF conn[s] = "queued" THEN Set(conn, s, "open") ELSE conn
  /\ UNCHANGED <<file, job, spc, put, serverVars, reply, crashed, historyVars>>

(* onEstablished sends the stream; ::send blocks when it is too far ahead  *)
(* of a session that still reads; one that has ended throws it all away.   *)
ClientSend(s) ==
  /\ cpc[s] = "send" /\ conn[s] = "open"
  /\ put[s] < job[s].size
  /\ put[s] - pos[s] < Window \/ spc[s] = "done"
  /\ put' = Set(put, s, put[s] + 1)
  /\ UNCHANGED <<file, job, spc, cpc, serverVars, reply, conn, crashed, historyVars>>

(* The stream is sent and the connection shut down, or ::send fails.       *)
ClientSent(s) ==
  /\ cpc[s] = "send"
  /\ \/ conn[s] = "open" /\ put[s] = job[s].size /\ conn' = Set(conn, s, "eof")
     \/ conn[s] = "reset" /\ UNCHANGED conn
  /\ cpc' = Set(cpc, s, "told")
  /\ UNCHANGED <<file, job, spc, put, serverVars, reply, crashed, historyVars>>

ClientDies(s) ==
  /\ cpc[s] \in {"reply", "accept", "send"}
  /\ cpc' = Set(cpc, s, "told")
  /\ conn' \in IF conn[s] \in {"open", "queued"}
                 THEN {Set(conn, s, "eof"), Set(conn, s, "reset")} ELSE {conn}
  /\ UNCHANGED <<file, job, spc, put, serverVars, reply, crashed, historyVars>>

-----------------------------------------------------------------------------
\* Mutant: seekg(0, input.beg) is forgotten.
StartOf_End(s) == Len(file[NameOf(s)])

(* Where the stream stands after its length was read.                      *)
StartOf(s) == 0

(* handle_get:159-207: the file must exist; its length is read now.        *)
GetOpen(s) ==
  /\ spc[s] = "check" /\ ~IsPut(s)
  /\ IF Taken(NameOf(s))
       THEN /\ spc' = Set(spc, s, "connect")
            /\ announced' = Set(announced, s, Len(file[NameOf(s)]))
            /\ pos' = Set(pos, s, StartOf(s))
            /\ mixed' = IF Writing(NameOf(s)) = {} THEN mixed ELSE mixed \cup {s}
            /\ UNCHANGED result
       ELSE Finish(s, "refused") /\ UNCHANGED <<announced, pos, mixed>>
  /\ UNCHANGED <<file, job, clientVars, copy, reply, conn, crashed, raced>>

(* connect, OK, and every failure until the stream is sent: caught.        *)
GetConnect(s) ==
  /\ spc[s] = "connect" /\ ~IsPut(s)
  /\ \/ spc' = Set(spc, s, "send") /\ UNCHANGED result
     \/ Finish(s, "failed")
  /\ UNCHANGED <<file, job, clientVars, pos, announced, copy, reply, conn, crashed, historyVars>>

(* Connection::send reads the stream until it ends, not until fileSize.    *)
GetSend(s) ==
  /\ spc[s] = "send" /\ pos[s] < Len(file[NameOf(s)])
  /\ pos' = Set(pos, s, pos[s] + 1)
  /\ copy' = Set(copy, s, Append(copy[s], file[NameOf(s)][pos[s] + 1]))
  /\ UNCHANGED <<file, job, spc, clientVars, result, announced, reply, conn, crashed, historyVars>>

GetDone(s) ==
  /\ spc[s] = "send" /\ pos[s] >= Len(file[NameOf(s)])
  /\ Finish(s, IF Len(copy[s]) = announced[s] THEN "ok" ELSE "failed")
  /\ UNCHANGED <<file, job, clientVars, pos, announced, copy, reply, conn, crashed, historyVars>>

-----------------------------------------------------------------------------
(* The server process ends and is started again: its files stay.           *)
Crash ==
  /\ MayCrash /\ ~crashed
  /\ crashed' = TRUE
  /\ spc' = [s \in Sessions |-> IF Serving(s) THEN "done" ELSE spc[s]]
  /\ conn' = [s \in Sessions |-> IF conn[s] \in {"queued", "open"} THEN "reset" ELSE conn[s]]
  /\ UNCHANGED <<file, job, clientVars, serverVars, reply, historyVars>>

ServerStep(s) ==
  \/ PutCheck(s) \/ CheckThrows(s) \/ PutOpen(s) \/ PutConnect(s) \/ PutReceive(s)
  \/ PutWriteFails(s) \/ PutCut(s) \/ PutDone(s)
  \/ GetOpen(s) \/ GetConnect(s) \/ GetSend(s) \/ GetDone(s)

ClientStep(s) ==
  ClientReply(s) \/ ClientGivesUp(s) \/ ClientAccept(s) \/ ClientSend(s) \/ ClientSent(s)

Next ==
  \/ \E s \in Sessions : Begin(s) \/ ServerStep(s) \/ ClientStep(s) \/ ClientDies(s)
  \/ Crash

Spec == Init /\ [][Next]_vars
FairSpec == Spec /\ \A s \in Sessions : WF_vars(ServerStep(s)) /\ WF_vars(ClientStep(s))

-----------------------------------------------------------------------------
TypeOK ==
  /\ file \in [Names -> Seq(Sessions \cup {Old, Hole}) \cup {Absent}]
  /\ job \in [Sessions -> Jobs]
  /\ spc \in [Sessions -> {"idle", "check", "open", "connect", "receive", "stuck", "send", "done"}]
  /\ pos \in [Sessions -> Nat] /\ put \in [Sessions -> Nat]
  /\ result \in [Sessions -> {"none", "ok", "failed", "refused"}]
  /\ announced \in [Sessions -> Nat] /\ copy \in [Sessions -> Seq(Sessions \cup {Old, Hole})]
  /\ cpc \in [Sessions -> {"prompt", "reply", "accept", "send", "told"}]
  /\ reply \in [Sessions -> {"none", "OK", "ERROR"}]
  /\ conn \in [Sessions -> {"none", "queued", "open", "eof", "reset"}]
  /\ crashed \in BOOLEAN /\ raced \subseteq Sessions /\ mixed \subseteq Sessions

(* A file that was there before is never changed, whoever puts its name    *)
(* and in whatever order (handle_put:256-260).                             *)
OldFilesKept == \A n \in OldFiles : file[n] = <<Old>>

(* Unless two PUTs of a name passed the check together, what a PUT leaves  *)
(* is the beginning of what its client sent, however it ended and whatever *)
(* comes after it; after a success it is all of it (handle_put:290-317).   *)
StoredIsOwn ==
  \A s \in Sessions :
    reply[s] = "OK" /\ s \notin raced =>
      /\ file[NameOf(s)] = [i \in 1 .. pos[s] |-> s]
      /\ result[s] = "ok" => pos[s] = job[s].size /\ put[s] = job[s].size

(* Unless a PUT has the file open meanwhile, what a GET sends is the file, *)
(* as long as announced (handle_get:192-239).                              *)
GetIsStored ==
  \A s \in Sessions :
    spc[s] = "send" /\ s \notin mixed =>
      /\ announced[s] = Len(file[NameOf(s)])
      /\ copy[s] = SubSeq(file[NameOf(s)], 1, pos[s])

(* The client of a PUT gets its prompt back and the session ends the       *)
(* command, unless the connection ended inside a chunk.                    *)
PutEnds ==
  \A s \in Sessions :
    /\ (cpc[s] = "reply") ~> (cpc[s] = "told")
    /\ Serving(s) ~> (spc[s] \in {"done", "stuck"})

(* handle_put:256: "don't let client effectively delete stuff without an   *)
(* explicit command".  So what a PUT stored with success stays.            *)
NothingDeleted ==
  [][\A s \in Sessions : IsPut(s) /\ result[s] = "ok"
                           => file'[NameOf(s)] = file[NameOf(s)]]_vars

(* What the code does keep of it: unless another PUT of the name passed the*)
(* check together with it, a stored file stays as it is.                   *)
StoredStays ==
  [][\A s \in Sessions : IsPut(s) /\ result[s] = "ok" /\ s \notin raced
                           => file'[NameOf(s)] = file[NameOf(s)]]_vars

(* handle_get:219: "let them know how much data is coming".  So no more is *)
(* sent than announced.                                                    *)
AnnouncedIsAll == \A s \in Sessions : spc[s] = "send" => Len(copy[s]) <= announced[s]

(* server_diagram.png: "Establish data connection using client-specified   *)
(* port" comes before "Send OK message", for PUT as for GET.               *)
OkMeansConnected == \A s \in Sessions : reply[s] = "OK" => conn[s] # "none"

(* server_diagram.png: "timeout, or data connection closed, or did not     *)
(* send/receive all bytes" leads to "send ERROR message".                  *)
FailureIsSent == \A s \in Sessions : IsPut(s) /\ result[s] = "failed" => reply[s] = "ERROR"

=============================================================================
