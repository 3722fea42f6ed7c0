----------------------------- MODULE FtpService -----------------------------
(***************************************************************************)
(* What the FTP client promises its user, without connections, messages or *)
(* a server thread: one command at a time, a local copy that only the GET  *)
(* of that name replaces, block after block of the server's file, and a    *)
(* success message only for the whole file.                                *)
(*                                                                         *)
(* The promise is void once an LS gave up waiting: inStep is FALSE then.   *)
(***************************************************************************)
EXTENDS Naturals, Sequences

CONSTANTS Names, Files, Contents(_)

VARIABLES
  status,   \* what the user sees: starting, ready, busy or over
  asked,    \* the command being worked on: its type and file
  copy,     \* the local copy of every file
  outcome,  \* what the user was told about it
  inStep    \* FALSE once an LS gave up waiting

serviceVars == <<status, asked, copy, outcome, inStep>>

Outcomes == {"listed", "received", "incomplete", "refused", "notOpened"}

Init ==
  /\ status = "starting"
  /\ outcome = "none"
  /\ inStep = TRUE

Start ==
  /\ status = "starting"
  /\ status' = "ready"
  /\ UNCHANGED <<asked, copy, outcome, inStep>>

Ask ==
  /\ status = "ready"
  /\ status' = "busy"
  /\ outcome' = "none"
  /\ UNCHANGED <<copy, inStep>>

(* The copy is emptied, or grows by one block.  In step it is a prefix of  *)
(* the file at all times.                                                  *)
Copy ==
  /\ status = "busy"
  /\ outcome = "none"
  /\ asked.type = "GET"
  /\ LET f == asked.file IN
       /\ \A g \in Names \ {f} : copy'[g] = copy[g]
       /\ \/ copy'[f] = << >>
          \/ /\ Len(copy'[f]) = Len(copy[f]) + 1
             /\ \A k \in 1 .. Len(copy[f]) : copy'[f][k] = copy[f][k]
       /\ inStep => /\ f \in Files
                    /\ Len(copy'[f]) <= Len(Contents(f))
                    /\ \A k \in 1 .. Len(copy'[f]) : copy'[f][k] = Contents(f)[k]
  /\ UNCHANGED <<status, asked, outcome, inStep>>

(* One message ends the command; the client may be ready only later.       *)
Tell ==
  /\ status = "busy"
  /\ outcome = "none"
  /\ outcome' \in Outcomes
  /\ inStep =>
       /\ outcome' \in {"received", "incomplete", "notOpened"} => asked.type = "GET"
       /\ outcome' = "listed" => asked.type = "LS"
       /\ outcome' = "received" => copy[asked.file] = Contents(asked.file)
  /\ status' \in {"busy", "ready"}
  /\ UNCHANGED <<asked, copy, inStep>>

Return ==
  /\ status = "busy"
  /\ outcome # "none"
  /\ status' = "ready"
  /\ UNCHANGED <<asked, copy, outcome, inStep>>

(* An LS gives up: nothing is said to the user.                            *)
GiveUp ==
  /\ status = "busy"
  /\ asked.type = "LS"
  /\ status' = "ready"
  /\ inStep' = FALSE
  /\ UNCHANGED <<asked, copy, outcome>>

(* The client ends, from any state and for any reason.                     *)
Stop ==
  /\ status # "over"
  /\ status' = "over"
  /\ UNCHANGED <<asked, copy, outcome, inStep>>

Next == Start \/ Ask \/ Copy \/ Tell \/ Return \/ GiveUp \/ Stop

Spec == Init /\ [][Next]_serviceVars

=============================================================================
