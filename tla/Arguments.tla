----------------------------- MODULE Arguments -----------------------------
(***************************************************************************)
(* The port on the command line of the two programs: parse_arguments of    *)
(* the client, main of the server, and the port each goes on with.  Console*)
(* goes on with the client.                                                *)
(***************************************************************************)
EXTENDS Integers

CONSTANTS
  Numerals,    \* numbers written as arguments (bound)
  IntMax,      \* largest value of an int
  PortMax,     \* largest value of a port_t
  Ephemeral    \* ports the system gives to a socket bound to port 0

ASSUME ArgumentsAssumption ==
  /\ Numerals \subseteq Int /\ PortMax \in Nat \ {0}
  /\ IntMax \in Nat /\ IntMax > PortMax /\ Ephemeral \subseteq 1 .. PortMax

VARIABLES
  sarg, carg,     \* the arguments given
  server, client, \* "off", "running" or "rejected"
  sport, cport    \* the ports listened on and connected to

argVars == <<sarg, carg, server, client, sport, cport>>

(* A numeral, one with more behind it ("21x"), more than one zero, no      *)
(* numeral at all.                                                         *)
Argument ==
  [form : {"plain", "trailing"}, value : Numerals]
    \cup [form : {"zeros", "word"}, value : {0}]

InInt(n)  == -IntMax - 1 <= n /\ n <= IntMax
AsInt(n)  == ((n + IntMax + 1) % (2 * IntMax + 2)) - IntMax - 1
AsPort(n) == n % (PortMax + 1)

None == [form |-> "word", value |-> 0]

ArgInit ==
  /\ server = "off" /\ client = "off" /\ sarg = None /\ carg = None
  /\ sport = 0 /\ cport = 0

(* main of the server: atoi gives 0 for what is no numeral, so only "0"    *)
(* itself may be 0.  Beyond an int glibc's atoi drops the higher bits.     *)
ServerTakes(a) == AsInt(a.value) # 0 \/ (a.form = "plain" /\ a.value = 0)

(* port is handed to welcome as a port_t; 0 lets the system choose.        *)
StartServer ==
  /\ server = "off"
  /\ \E a \in Argument :
       /\ sarg' = a
       /\ IF ServerTakes(a)
            THEN /\ server' = "running"
                 /\ \E p \in Ephemeral :
                      sport' = IF AsPort(AsInt(a.value)) = 0 THEN p ELSE AsPort(AsInt(a.value))
            ELSE server' = "rejected" /\ UNCHANGED sport
  /\ UNCHANGED <<carg, client, cport>>

\* Mutant: the highest port is out of range.
InRange_Below(n) == n < PortMax

(* iPort > maxValue is refused; nothing is said of numbers below 1.        *)
InRange(n) == n <= PortMax

\* Mutant: any port is taken.
Usable_Any(p) == TRUE

Usable(p) == p > 0

(* parse_arguments: stoi throws where there is no numeral or no int.       *)
ClientTakes(a) ==
  /\ a.form # "word" /\ InInt(a.value)
  /\ InRange(a.value) /\ Usable(AsPort(a.value))

StartClient ==
  /\ client = "off"
  /\ \E a \in Argument :
       /\ carg' = a
       /\ IF ClientTakes(a)
            THEN client' = "running" /\ cport' = AsPort(a.value)
            ELSE client' = "rejected" /\ UNCHANGED cport
  /\ UNCHANGED <<sarg, server, sport>>

-----------------------------------------------------------------------------
(* A client given the same argument as a server, whatever each parses out  *)
(* of it, connects to the port the server listens on.                      *)
SameArgumentMeets ==
  server = "running" /\ client = "running" /\ carg = sarg => cport = sport

(* Every port can be given to both, and the server also 0.                 *)
EveryPortIsTaken ==
  /\ client = "rejected" /\ carg.form = "plain" => carg.value \notin 1 .. PortMax
  /\ server = "rejected" /\ sarg.form = "plain" => sarg.value \notin 0 .. PortMax

(* "is out of range. Range is [1, maxValue]" (Client.cpp:508): a client    *)
(* that runs uses the port it was given.                                   *)
ClientPortIsGiven == client = "running" => cport = carg.value

(* "is an invalid port number (range 0 - ~(port_t)0)" (Server.cpp:55).     *)
ServerPortIsGiven == server = "running" => sarg.value \in {0, sport}

=============================================================================
