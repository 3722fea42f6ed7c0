------------------------------ MODULE Console ------------------------------
(***************************************************************************)
(* The client's end of the terminal, from the command lines of Arguments   *)
(* to the end of the client: main, run_client, parse_command, the          *)
(* question of handle_get and get_yesno, with cin giving words until the   *)
(* input ends.  What a command does to the server and how it fails is the  *)
(* subject of Client; here it succeeds, is refused, or throws.             *)
(***************************************************************************)
EXTENDS Arguments

CONSTANTS
  Words,       \* words the user may type
  Command,     \* kCommands: Command[w] is "LS", "GET", "PUT", "QUIT" or "end"
  Yes, No,     \* words that begin with a Y or with an N
  Names,       \* words that may name a file
  OldFiles,    \* words that name a file in the client's directory
  MaxWords     \* words the user types (bound)

ASSUME ConsoleAssumption ==
  /\ Command \in [Words -> {"LS", "GET", "PUT", "QUIT", "end"}]
  /\ Yes \subseteq Words /\ No \subseteq Words /\ Yes \cap No = {}
  /\ OldFiles \subseteq Names /\ Names \subseteq Words /\ "" \notin Words /\ MaxWords \in Nat

VARIABLES
  pc,         \* the read or the command the client is in
  connected,  \* kControl is not null
  input,      \* the word of run_client
  it,         \* the command found for it
  fname,      \* the argument of a GET
  answer,     \* the word of get_yesno
  files,      \* the files in the directory
  sent,       \* the last command sent to the server
  ended,      \* how the client ended
  typed,      \* words typed
  closed,     \* the input has ended
  fresh,      \* input was read for the command now run (history)
  agreed,     \* the user allowed the GET to overwrite (history)
  appeared    \* the file was made by another after handle_get looked (history)

history == <<fresh, agreed, appeared>>
termVars == <<pc, connected, input, it, fname, answer, files, sent, ended, typed, closed,
              history>>
vars == <<argVars, termVars>>

Init ==
  /\ ArgInit
  /\ pc = "start" /\ connected = FALSE /\ ended = "no"
  /\ input = "" /\ it = "unset" /\ fname = "" /\ answer = ""
  /\ files = OldFiles /\ sent = "none"
  /\ typed = 0 /\ closed = FALSE
  /\ fresh = FALSE /\ agreed = FALSE /\ appeared = FALSE

Ends(how) == pc' = "gone" /\ ended' = how
GoesTo(p) == pc' = p /\ UNCHANGED ended

(* cin >> v: the next word, or v as it was when the input has ended.       *)
Reads(old, new) ==
  \/ ~closed /\ typed < MaxWords /\ new \in Words
     /\ typed' = typed + 1 /\ UNCHANGED closed
  \/ new = old /\ closed' = TRUE /\ UNCHANGED typed

-----------------------------------------------------------------------------
(* main returns EXIT_FAILURE.                                              *)
Usage ==
  /\ pc = "start" /\ client = "rejected"
  /\ Ends("usage")
  /\ UNCHANGED <<connected, input, it, fname, answer, files, sent, typed, closed, history>>

(* main: a client that could not connect runs all the same, and sends its  *)
(* greeting through a null kControl.  A greeting may fail, and does when   *)
(* another program has the port.                                           *)
Start ==
  /\ pc = "start" /\ client = "running"
  /\ \/ /\ connected' = TRUE
        /\ \/ server = "running" /\ cport = sport /\ GoesTo("prompt")
           \/ Ends("error")
     \/ connected' = FALSE /\ Ends("crash")
  /\ UNCHANGED <<input, it, fname, answer, files, sent, typed, closed, history>>

(* No word yet: `continue` compares an iterator nothing was assigned to.   *)
(* It may equal cend(); if not, what it refers to is run as a command.     *)
NoWord ==
  /\ pc = "prompt"
  /\ input = "" /\ Reads(input, "")
  /\ GoesTo("prompt") \/ Ends("crash")
  /\ UNCHANGED <<connected, input, it, fname, answer, files, sent, history>>

(* it = kCommands.find(input)                                              *)
Found(w) == Command[w]

(* run_client: a word is looked up; the user is asked again until it is a  *)
(* command.                                                                *)
Prompt ==
  /\ pc = "prompt"
  /\ \E w \in Words :
       /\ Reads(input, w)
       /\ input' = w /\ it' = Found(w) /\ fresh' = ~closed'
       /\ GoesTo(IF it' = "end" THEN "prompt" ELSE "command")
  /\ UNCHANGED <<connected, fname, answer, files, sent, agreed, appeared>>

(* handle_ls: listed, refused or given up, or an exception ends the client.*)
List ==
  /\ pc = "command" /\ it = "LS"
  /\ sent' = "LS"
  /\ GoesTo("prompt") \/ Ends("error")
  /\ UNCHANGED <<connected, input, it, fname, answer, files, typed, closed, history>>

\* Mutant: the name is not looked for.
Exists_Never(n) == FALSE

Exists(n) == n \in files

\* Mutant: the name of the last GET is still in the string.
NameBefore_Last == fname

(* What the string of parse_command holds before the name is read.         *)
NameBefore == ""

(* parse_command reads the name; handle_get looks for the file.            *)
ReadName ==
  /\ pc = "command" /\ it = "GET"
  /\ \E n \in Words \cup {""} :
       /\ Reads(NameBefore, n)
       /\ fname' = n
       /\ GoesTo(IF Exists(n) THEN "confirm" ELSE "get")
  /\ answer' = "" /\ agreed' = FALSE /\ appeared' = FALSE
  /\ UNCHANGED <<connected, input, it, files, sent, fresh>>

(* get_yesno: asks until a word begins with Y or N.                        *)
Confirm ==
  /\ pc = "confirm"
  /\ \E a \in Words \cup {""} :
       /\ Reads(answer, a)
       /\ answer' = a
       /\ agreed' = (a \in Yes)
       /\ GoesTo(CASE a \in Yes -> "get" [] a \in No -> "prompt" [] OTHER -> "confirm")
  /\ UNCHANGED <<connected, input, it, fname, files, sent, fresh, appeared>>

(* handle_get: the file is received, or the server refuses, as it does     *)
(* with an empty name, or an exception ends the client.                    *)
Get ==
  /\ pc = "get"
  /\ sent' = "GET"
  /\ \/ fname # "" /\ files' = files \cup {fname} /\ (GoesTo("prompt") \/ Ends("error"))
     \/ UNCHANGED files /\ (GoesTo("prompt") \/ Ends("error"))
  /\ UNCHANGED <<connected, input, it, fname, answer, typed, closed, history>>

(* parse_command says "not implemented yet" and reads no argument.         *)
Put ==
  /\ pc = "command" /\ it = "PUT"
  /\ GoesTo("prompt")
  /\ UNCHANGED <<connected, input, it, fname, answer, files, sent, typed, closed, history>>

(* handle_quit: the send may throw.                                        *)
Quit ==
  /\ pc = "command" /\ it = "QUIT"
  /\ \/ sent' = "QUIT" /\ Ends("quit")
     \/ UNCHANGED sent /\ Ends("error")
  /\ UNCHANGED <<connected, input, it, fname, answer, files, typed, closed, history>>

(* Another program makes a file in the directory of the client.            *)
Appear ==
  /\ pc # "gone"
  /\ \E f \in Names \ files :
       /\ files' = files \cup {f}
       /\ appeared' = (appeared \/ (pc = "get" /\ f = fname))
  /\ UNCHANGED <<pc, connected, input, it, fname, answer, sent, ended, typed, closed,
                 fresh, agreed>>

Next ==
  \/ (StartServer \/ StartClient) /\ UNCHANGED termVars
  \/ /\ \/ Usage \/ Start \/ NoWord \/ Prompt \/ List \/ ReadName \/ Confirm \/ Get
        \/ Put \/ Quit \/ Appear
     /\ UNCHANGED argVars

Spec == Init /\ [][Next]_vars

-----------------------------------------------------------------------------
(* When the input has ended the client runs its last command again and     *)
(* again (run_client:104).  A GET that is run so names no file, and a      *)
(* question left open is never taken for a Y: nothing in the directory is  *)
(* written that the user did not type the name of.                         *)
NoFileAfterEnd == closed /\ pc = "get" => fname = ""

(* "already exists. Overwrite? Y/N" (Client.cpp:263): a GET goes on only   *)
(* for a file that handle_get did not find, or with the user's Y.          *)
OverwriteIsConfirmed == pc = "get" /\ fname \in files => agreed \/ appeared

(* client_diagram.png: from "Wait for user command" only "Valid user       *)
(* command entered" leads to a command: every command run was typed.       *)
CommandsAreTyped == pc = "command" => fresh

(* README.txt:33, "such as 'exit', 'ls', 'get', 'put', and 'q'": when PUT   *)
(* has been run the server has been sent it.                               *)
PutIsSent == pc = "prompt" /\ it = "PUT" => sent = "PUT"

=============================================================================
