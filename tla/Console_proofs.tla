--------------------------- MODULE Console_proofs ---------------------------
(***************************************************************************)
(* The command lines, for ports and ints of every width, and the prompt of *)
(* the client, for every set of words and however the input ends.          *)
(***************************************************************************)
EXTENDS Console, TLAPS

-----------------------------------------------------------------------------
(* Numbers that are in range are kept.                                     *)
LEMMA RemainderLemma == \A k \in Nat, d \in Nat : k < d => k % d = k
  OBVIOUS

LEMMA IntKept == \A n \in Int : InInt(n) => AsInt(n) = n
<1> TAKE n \in Int
<1> HAVE InInt(n)
<1>1. /\ n + IntMax + 1 \in Nat /\ 2 * IntMax + 2 \in Nat
      /\ n + IntMax + 1 < 2 * IntMax + 2
  BY ArgumentsAssumption DEF InInt
<1>2. (n + IntMax + 1) % (2 * IntMax + 2) = n + IntMax + 1
  BY <1>1, RemainderLemma
<1> QED
  BY <1>2, ArgumentsAssumption DEF AsInt

LEMMA PortKept == \A n \in 0 .. PortMax : AsPort(n) = n
  BY RemainderLemma, ArgumentsAssumption DEF AsPort

-----------------------------------------------------------------------------
(* What each program made of its argument.                                 *)
ServerParsed ==
  /\ sarg.value \in Int /\ carg.value \in Int
  /\ server = "rejected" => ~ServerTakes(sarg)
  /\ server = "running" =>
       (AsPort(AsInt(sarg.value)) # 0 => sport = AsPort(AsInt(sarg.value)))

ClientParsed ==
  /\ client = "rejected" => ~ClientTakes(carg)
  /\ client = "running" => ClientTakes(carg) /\ cport = AsPort(carg.value)

ArgInv == ServerParsed /\ ClientParsed

LEMMA ArgumentLemma == \A a \in Argument : a.value \in Int
<1> TAKE a \in Argument
<1>1. a.value \in Numerals \/ a.value = 0
  BY DEF Argument
<1>2. \A n \in Numerals : n \in Int
  BY ArgumentsAssumption
<1> QED
  BY <1>1, <1>2

LEMMA ArgStart == Init => ArgInv
<1> SUFFICES ASSUME Init PROVE ArgInv
  OBVIOUS
<1>1. server = "off" /\ client = "off" /\ sarg.value = 0 /\ carg.value = 0
  BY DEF Init, ArgInit, None
<1> QED
  BY <1>1 DEF ArgInv, ServerParsed, ClientParsed

LEMMA ArgNext == ArgInv /\ [Next]_vars => ArgInv'
<1> SUFFICES ASSUME ArgInv, [Next]_vars PROVE ArgInv'
  OBVIOUS
<1> USE DEF ArgInv, ServerParsed, ClientParsed
<1>1. CASE StartServer
  <2>1. PICK a \in Argument :
          /\ sarg' = a /\ server = "off"
          /\ \/ /\ ServerTakes(a) /\ server' = "running"
                /\ AsPort(AsInt(a.value)) # 0 => sport' = AsPort(AsInt(a.value))
             \/ ~ServerTakes(a) /\ server' = "rejected"
    BY <1>1 DEF StartServer
  <2>2. UNCHANGED <<carg, client, cport>>
    BY <1>1 DEF StartServer
  <2> QED
    BY <2>1, <2>2, ArgumentLemma
<1>2. CASE StartClient
  <2>1. PICK a \in Argument :
          /\ carg' = a /\ client = "off"
          /\ \/ ClientTakes(a) /\ client' = "running" /\ cport' = AsPort(a.value)
             \/ ~ClientTakes(a) /\ client' = "rejected"
    BY <1>2 DEF StartClient
  <2>2. UNCHANGED <<sarg, server, sport>>
    BY <1>2 DEF StartClient
  <2> QED
    BY <2>1, <2>2, ArgumentLemma
<1>3. CASE UNCHANGED argVars
  BY <1>3 DEF argVars
<1> QED
  BY <1>1, <1>2, <1>3 DEF Next, vars

LEMMA ArgHolds == Spec => []ArgInv
  BY ArgStart, ArgNext, PTL DEF Spec

(* parse_arguments and main of the server read a number in two ways, as an *)
(* int of stoi and as what atoi returns, and both cut it to a port: a      *)
(* client given the same argument as the server comes to the same port.    *)
THEOREM SamePort == Spec => []SameArgumentMeets
<1>1. ArgInv => SameArgumentMeets
  <2> SUFFICES ASSUME ArgInv, server = "running", client = "running", carg = sarg
               PROVE  cport = sport
    BY DEF SameArgumentMeets
  <2>1. InInt(sarg.value) /\ sarg.value \in Int /\ AsPort(sarg.value) > 0
        /\ cport = AsPort(sarg.value)
    BY DEF ArgInv, ServerParsed, ClientParsed, ClientTakes, Usable
  <2>2. AsInt(sarg.value) = sarg.value
    BY <2>1, IntKept
  <2> QED
    BY <2>1, <2>2 DEF ArgInv, ServerParsed
<1> QED
  BY <1>1, ArgHolds, PTL

(* No port of the range both programs print is refused by either.          *)
THEOREM PortsAreTaken == Spec => []EveryPortIsTaken
<1>1. ArgInv => EveryPortIsTaken
  <2> SUFFICES ASSUME ArgInv PROVE EveryPortIsTaken
    OBVIOUS
  <2>1. ASSUME client = "rejected", carg.form = "plain", carg.value \in 1 .. PortMax
        PROVE  FALSE
    <3>1. InInt(carg.value) /\ InRange(carg.value)
      BY <2>1, ArgumentsAssumption DEF InInt, InRange
    <3>2. Usable(AsPort(carg.value))
      BY <2>1, PortKept, ArgumentsAssumption DEF Usable
    <3> QED
      BY <2>1, <3>1, <3>2 DEF ArgInv, ClientParsed, ClientTakes
  <2>2. ASSUME server = "rejected", sarg.form = "plain", sarg.value \in 0 .. PortMax
        PROVE  FALSE
    <3>1. AsInt(sarg.value) = sarg.value
      BY <2>2, IntKept, ArgumentsAssumption DEF InInt
    <3> QED
      BY <2>2, <3>1 DEF ArgInv, ServerParsed, ServerTakes
  <2> QED
    BY <2>1, <2>2 DEF EveryPortIsTaken
<1> QED
  BY <1>1, ArgHolds, PTL

-----------------------------------------------------------------------------
(* A question is asked until it is answered, so a read that the end of the *)
(* input leaves without a word answers none.                               *)
Undecided == pc = "confirm" => answer \notin Yes

ConsoleInv == Undecided /\ NoFileAfterEnd /\ OverwriteIsConfirmed

LEMMA ConsoleInit == Init => ConsoleInv
  BY DEF Init, ConsoleInv, Undecided, NoFileAfterEnd, OverwriteIsConfirmed

(* A read that ended the input, or came after that, left its string alone. *)
LEMMA ReadsLemma ==
  ASSUME NEW old, NEW new, Reads(old, new), closed'
  PROVE  new = old
  BY DEF Reads

LEMMA ConsoleNext == ConsoleInv /\ [Next]_vars => ConsoleInv'
<1> SUFFICES ASSUME ConsoleInv, [Next]_vars PROVE ConsoleInv'
  OBVIOUS
<1> USE DEF ConsoleInv, Undecided, NoFileAfterEnd, OverwriteIsConfirmed, GoesTo, Ends, history
<1>1. CASE Usage \/ Start \/ NoWord \/ Prompt \/ List \/ Put \/ Quit \/ Get
  <2>1. pc' \notin {"confirm", "get"}
    BY <1>1 DEF Usage, Start, NoWord, Prompt, List, Put, Quit, Get
  <2> QED
    BY <2>1
<1>2. CASE ReadName
  <2>1. PICK n \in Words \cup {""} :
          /\ Reads("", n) /\ fname' = n
          /\ GoesTo(IF n \in files THEN "confirm" ELSE "get")
    BY <1>2 DEF ReadName, Exists, NameBefore
  <2>2. closed' => n = ""
    BY <2>1, ReadsLemma
  <2>3. "" \notin Yes
    BY ConsoleAssumption
  <2>4. UNCHANGED files /\ answer' = ""
    BY <1>2 DEF ReadName
  <2> QED
    BY <2>1, <2>2, <2>3, <2>4
<1>3. CASE Confirm
  <2>1. PICK a \in Words \cup {""} :
          /\ Reads(answer, a) /\ answer' = a /\ agreed' = (a \in Yes)
          /\ GoesTo(CASE a \in Yes -> "get" [] a \in No -> "prompt" [] OTHER -> "confirm")
    BY <1>3 DEF Confirm
  <2>2. pc = "confirm" /\ closed' => a \notin Yes
    BY <2>1, ReadsLemma
  <2>3. pc = "confirm"
    BY <1>3 DEF Confirm
  <2>4. CASE a \in Yes
    BY <2>1, <2>2, <2>3, <2>4
  <2>5. CASE a \notin Yes /\ a \in No
    BY <2>1, <2>5
  <2>6. CASE a \notin Yes /\ a \notin No
    BY <2>1, <2>6
  <2> QED
    BY <2>4, <2>5, <2>6
<1>4. CASE Appear
  BY <1>4 DEF Appear
<1>5. CASE UNCHANGED termVars
  BY <1>5 DEF termVars
<1> QED
  BY <1>1, <1>2, <1>3, <1>4, <1>5 DEF Next, vars

LEMMA ConsoleHolds == Spec => []ConsoleInv
  BY ConsoleInit, ConsoleNext, PTL DEF Spec

(* However the input ends and whatever the user may type: the commands the *)
(* client goes on repeating write no file (run_client:104, 136, get_yesno).*)
THEOREM RepeatedGetsWriteNothing == Spec => []NoFileAfterEnd
<1>1. ConsoleInv => NoFileAfterEnd
  BY DEF ConsoleInv
<1> QED
  BY <1>1, ConsoleHolds, PTL

(* handle_get:257-272: a file that was there when the client looked is not *)
(* written without a word that begins with Y.                              *)
THEOREM OverwritesAreConfirmed == Spec => []OverwriteIsConfirmed
<1>1. ConsoleInv => OverwriteIsConfirmed
  BY DEF ConsoleInv
<1> QED
  BY <1>1, ConsoleHolds, PTL

=============================================================================
