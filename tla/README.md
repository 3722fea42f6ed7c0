# Verification of the FTP client and server

TLA+ models of the two programs in this repository (`Client/`, `Server/` and the
sockets library they share in `Common/`), TLC configurations that check them, and
TLAPS proofs. Paths below are relative to the repository.

## 1. Inventory

Two programs and one library, C++, Windows and Linux.

| component | state | operations | interacts with |
|---|---|---|---|
| Client protocol, `Client/Client.cpp` | `kControl`; the locals of one command (message, response, `bListen`, `bytesLeft`, the output file) | `main`, `exchange_greetings`, `handle_ls`, `handle_get`, `handle_quit` (`handle_put` exists and is never called) | the session, over the control connection and one data connection per command; the user; local files |
| Server session, `Server/ClientSession.cpp` | `control_`, the command it serves, the data connection, the open file | `serve`, `greeting`, `handle_ls`, `handle_get`, `handle_put`, `handle_quit` | its client; the server's directory, shared with the other sessions |
| Server process, `Server/Server.cpp` | `g_run`, one detached thread per client | `main` (`welcome`), `serve_client`, SIGINT handler | operating system, sessions |
| Connection, `Common/Connection.cpp` | the socket descriptor | `welcome`, `connect`, `send` (stream, message), `receive` (stream, message), `shutdown`, destructor | sockets, `select` |
| Messages, `Common/Message.h`, `DataStream.cpp`, `NetworkDataStream.h` | none | encode and decode: 13-byte header, big endian, payload of at most 1024 bytes | Connection |
| Console of the client, `Client/Client.cpp` | the last token read | `run_client`, `parse_command`, `get_yesno`, `parse_arguments` | standard input, client protocol |
| Output streams, `Common/SyncStream.h` | one mutex each | `print` | all server threads |

### How they interact

The client connects to the server's port; this *control connection* carries
`HELLO` both ways, then the commands `LS`, `GET`, `PUT`, `QUIT` and the replies
`OK` and `ERROR`. For each `LS` and `GET` the client opens a *welcome socket* on a
port of the kernel's choice and sends that port in the command; the server
connects back to it, replies `OK` with the number of bytes that follow, sends
them, and both sides shut the data connection down (FIN, throw away what still
comes, close). The client is one thread. The server has one thread for `welcome`
and a detached one per client.

The two commands order the same events differently. `handle_get` of the client
reads the reply *before* it accepts (in the `onListen` callback, without a time
limit on the accept that follows), `handle_ls` accepts first (for ten seconds)
and reads the reply afterwards. The server always connects first.

### What is hard, and what makes each part correct

* **Replies and commands out of step** (stale state, timeouts). Replies carry no
  identification. After a command that gave up its reply is still coming. Correct:
  a command acts on its own reply and its own data connection.
* **Endings of a transfer** (partial failure). Either side may close, fail, be
  killed or time out at any block. Correct: no socket outlives its command, a
  success message only for a whole file, an exception reaches the right handler.
* **Waiting** (liveness, deadlock). Two FINs crossing, an accept without timeout, a
  loop on `recv` that returns 0. Correct: every command of the client ends, the
  thread of a client that is gone ends.
* **The process** (SIGPIPE, SIGINT). Correct: one client cannot end the server.
* **The wire** (numeric edges). Lengths of 16, 32 and 64 bits, `int` counters.
* **The store** (atomicity). `PUT` checks and opens in two steps; sessions share a
  directory.

The complete list, with lines, is in `PROJECT.json` under `hazards`.

## 2. The modules

| module | models | stands on | properties |
|---|---|---|---|
| `Network` | connections as the socket calls show them | | through `Ftp` |
| `Client`, `Session` | the two ends of the protocol | `Network` | through `Ftp` |
| `Ftp` | client and session together | the three above | replies in step, whole files, endings |
| `FtpService` | abstract: what the client promises its user | | implemented by `Ftp` |
| `Receive` | `receive` of a stream and of a message | | framing, time limits |
| `MessageQueue` | abstract: a queue of whole messages | | implemented by `Receive` |
| `SendStream` | `send` of a stream | | what goes out, what is counted |
| `Welcome` | the loop of `welcome` and its three callers | | descriptors, stopping, waiting |
| `Store` | PUT and GET of several sessions on one directory | | files kept, files whole |
| `ServerProcess` | accept loop, threads, Ctrl+C, output streams | | lines, serving, stopping |
| `ByteOrder` | numbers in a `NetworkDataStream` | | through `Wire` |
| `Wire` | messages as bytes, every command and answer | `ByteOrder` | round trip, length, answers |
| `Arguments` | the two command lines and the ports they lead to | | through `Console` |
| `Console` | words of the input to commands, `get_yesno` | `Arguments` | the port meant, overwriting, repeated commands |

Each `MC<module>` gives the constants of its module values for TLC. The proofs are in
`Ftp_proofs`, `Receive_proofs`, `SendStream_proofs`, `Store_proofs`,
`Welcome_proofs`, `ServerProcess_proofs`, `Console_proofs` (with `Arguments`) and
`Wire_proofs` (with `ByteOrder`); each extends the module it is about.

The modules fit together by what each takes for granted. `Ftp` takes a message for
one item: `Receive` shows that this is right (`IsQueue`), `Wire` that the item says the same at both ends. `Ftp` takes a
data connection for a pipe of blocks: `SendStream` shows that what goes in is the
file, as long as no `::send` takes a part of a chunk. `Ftp` has one client and constant
files: `ServerProcess` shows that a thread gets to its session and to its end whatever
the others do, `Store` what sessions do to each other through the directory.
`ServerProcess` takes from `Welcome` how its loop waits; it does not take from `Ftp` that
sessions end, because those of a PUT need not.

Left for a later version: a composition of `Store` with `Network` in place of its
one-record data connection.

## 3. The core model

### Network

A connection is a record of three functions over its two ends: what the end can
still read, its state, and the error the kernel noted for it. TCP is not in the
repository; the operators are written from how `Connection.cpp` uses the results:

* `Readable`, `Eof`, `Broken` are the three ways in which `recv_timeout`
  (`Connection.cpp:95`) can return without a timeout. A timeout is always possible
  instead when nothing is readable.
* `AfterSend`: data sent to a peer that has closed is lost, and the answer (a
  reset) may come before or after the next send; that one fails, or raises SIGPIPE
  on Linux (`SigPipe`).
* `Close` with unread data becomes a reset; `Abort` is what happens to connections
  nobody accepted when the welcome socket is closed.
* `Window` is the number of blocks after which `::send` blocks.

A message of the control connection is one item: `Connection::receive` puts
messages together (`Connection.cpp:240`); `Receive` looks at the pieces. Messages keep the fields that steer the protocol; `id`
is a history field, the user command a message belongs to, which no action of the
programs reads except to address the history of a data connection. `response` is zeroed
by each LS and GET (`ZERO_MSG`), as in the code. File data
travels in blocks named by file and position, so that a copy can be compared with
the original; `Chunk` blocks make the `CHUNK_SIZE` of one `receive`.

### Client

`cpc` is the blocking call the thread is in.

| `cpc` | code | actions |
|---|---|---|
| `connect` | `main`, `Connection::connect` | `Connect` |
| `send` | `kControl->send` | `ClientSend`, `ClientSignalled` |
| `greet` | `exchange_greetings:181` | `Greeted` |
| `prompt` | `cin >> input` | `UserCommand`, `CommandFails` |
| `reply` | `kControl->receive(&response, ...)` of LS or GET | `ReplyOk`, `ReplyError`, `ReplyThrows` |
| `accept` | the loop of `welcome` | `Accept`, `AcceptTimeout` (LS only), `WelcomeFails`, `AcceptPoll` |
| `recv` | the loop over `bytesLeft` | `RecvBlock`, `RecvThrows`, `WriteFails`, `RecvSpin`, `RecvDone` |
| `drain` | `shutdown` of the data connection, explicit or by its destructor | `Drain` |
| `exit`, `exitDrain` | `handle_quit`, or the end of `main` after an exception | `Exit`, `ExitDrain` |

The order of LS and GET is in `NextAfterSend`. `after` says where an exception or
a return leads once the data connection is shut down; an exception that passes
through `welcome` leaves its socket open until the process ends, as in the code.
`report` is what the user was told, `gaveUp` a history variable: an LS of this
client has run into its timeout.

### Session

`spc` is the call the thread is in: `hello` and `greet` (`greeting`), `idle`
(`serve`), `check` (`handle_get:155-216`), `connect`, `answer` (making the listing
or reading the length, and sending OK), `send`, `drain` (the data connection goes
out of scope), `close` and `closeDrain` (`handle_quit` or `client.reset()`). `Unwind`
is every exception during a transfer: a `ConnectionException` is swallowed by
`handle_get` and thrown again by `handle_ls`; anything else ends the session.

The uninitialized `response.msgid` of `handle_get` is the nondeterministic
`garbage` of `CheckFile`.

### Ftp and FtpService

`Ftp` interleaves the two threads with the user and the operating system. Weak
fairness is assumed of the client's own steps and of the session's own steps:
threads are scheduled, and a wait with a timeout ends. The user need not type,
nobody need kill anything, and no call has to fail: `ClientFails`, `StreamFails`,
`ClientKilled` and `ServerStops` are outside the fair actions, so no wait is ended by
them. `RecvSpin` and `AcceptPoll` are loops of the code that
change nothing; being steps that stutter, they never satisfy fairness.

`FtpService` is the promise to the user: one command at a time, only the GET of a
name changes its local copy, the copy is a prefix of the server's file throughout,
"received" only when it is the whole file. `Ftp` implements it under the mapping
in `Service`. The promise is void once an LS gave up (`inStep`); `FtpWhole.cfg`
shows that it has to be.

## 4. The other models

### Receive and MessageQueue

A byte is its position in the stream, so a message is known by where it ends; the
header says how far that is (`LengthsAt`). If a read did not begin at a message, the
length would be any number: the model does not assume the frame it is to show.
`rpc` is `header` or `body`, the two stream receives of a message receive
(`Connection.cpp:250` and `:266`); `howMany`, `total` and `timedOut` are the
variables of the code. The peer sends whole messages, they arrive in any pieces, and
the connection ends closed, reset, or silent. `Receive` implements `MessageQueue`: a
call returns the next message, or nothing and takes nothing.

### SendStream

`read` gives a full chunk, a short one with the end of the stream, or fails; `::send`
takes any part of what it is given (`Partial` TRUE: a blocking socket does so where a
signal interrupts it, and the comment at `Connection.cpp:162` expects it). `IntMax` is the
width of `totalBytesSent`, less than the longest stream, so the count wraps in the runs.
`again` is a history: a chunk needed a second `::send`.

### Welcome

`wpc` follows the loop: `setup`, `create` (the callback of the listening socket), `test`
(query and time limit), `select`, `accept`, `peer` (`getpeername`), `callback` (the
connection's). What the callbacks of the three callers can do is the set of outcomes in
`OnCreate`, `AcceptFails`, `CallbackReturns` and `CallbackThrows`. Time passes in
`select` only; `left` is the timeout, which Linux overwrites (`SelectUpdates`). A
callback of a failed accept that returns FALSE (`Connection.cpp:414-416`) has no caller
and no action. Fairness: the thread runs (weak), and `accept` does not fail for ever
(strong: descriptors come free when sessions end). Only the callbacks of the server,
which print a line and start a thread, are taken to return; those of LS and GET send and
receive, and may come to no end (`Connection.cpp:204-229`, `FtpCut.cfg`), so `WelcomeEnds`
follows a client's loop as far as its callback.

### Store

The directory as sequences of blocks, each named by the session whose PUT it belongs to.
The server's `handle_put` goes `check`, `open`, `connect`, `receive`; the time between
the first two is the hazard. `handle_put` of the client is modelled from its code
although `parse_command` never calls it. Each session serves one command. `raced` and
`mixed` are histories: PUTs that passed the check together, GETs of a file that was
being put. A stream has a position of its own, so a file that was emptied under it is
written with a hole, as the operating system does. `Crash` ends the process once;
files stay. Fairness: the steps of each session and of each client; not `Begin`,
`ClientDies` or `Crash`. `CheckThrows` is the `filesystem_error` of `fs::exists`, which ends
a session before it has answered.

### ServerProcess

One program counter per thread; a client has one from the queue of the listening
socket on. A printed line has a beginning and an end, with the lock of its stream
(`SyncStream.h:33`) held between. `MaxSockets` is what the system allows; with
`ThreadsRunOut` std::thread may throw, which ends the process. So does a `welcome` that
throws, while it sets its socket up (`SetUp`) or in its loop (`WelcomeThrows`): main prints
and returns (`Server.cpp:77-81`).
Fairness: threads run (weak), and a mutex and an `accept` that are possible again and
again succeed some time (strong). Nothing is assumed of sessions: one may serve an active
client for ever, wait for the rest of a message, or spin in a PUT that was cut. That a
descriptor comes free is a premise of `EachIsServed`, not an assumption.

### ByteOrder and Wire

Bytes have `Base` values and fields the widths `LenBytes`, `DataBytes` and `PortBytes`,
small enough for a length to wrap within the names that are tried. Both byte orders are
tried for both hosts. `Values`, `Digits` and `Number` are recursive functions, so that
they can be proved about; `Values(w)` is how many numbers `w` bytes hold.
`WireAssumption` has what the code's numbers satisfy: a message of 13 + 1024 bytes has a
length a `uint16_t` can hold. `Inserted` and `Extracted` go through the memory of the host as
the code does. `Wire` has every message a program of this repository sends after the
greeting, with the fields `MAKE_MSG` gives it; a greeting is a message like an LS with
another text. A handler may also give no answer at all (`Unanswered`): `connect` may throw in
LS and GET before they reply, and so may the directory of LS and `fs::exists`. `Frame` is
the number of characters the words around a name have in an error, one number where the
code has one per sentence.

### Arguments and Console

`Arguments` has a numeral, a numeral with text behind it, several zeros, and no numeral,
and ports and ints of a few bits; `atoi` of a number beyond an int is what glibc makes
of it. `Console` goes on from there: the client reaches a prompt only on the port the
server listens on; on another port nobody or another program answers, and the connect
or the greeting fails. At the prompt words are read until the input ends, which may be
at any time and leaves the variable as it was: `input` keeps the last command,
while the name of a GET is a new string each time (`NameBefore`). Other programs may
make files (`Appear`).

## 5. What the runs show

The runs of `Ftp` use names `short` (one block), `long` (three blocks: a full chunk
of two and a short one) and `absent`; `Window` 2 and `Chunk` 2 so that a sender
blocks and a transfer can be cut at a chunk's edge and inside a chunk.

| run | bounds | shows |
|---|---|---|
| `Ftp.cfg` | 2 commands, 2 ports, listings of up to 2 blocks, client and server may die, fairness | types, `NothingLeftOpen`, `NoReplyLeftOver`, `TransferIsOwn`, `ReceivedIsWholeInStep`, `LocalChangesAfterOk`, `KeepsPromise` (refinement), `CommandEndsUnlessCut`, `SessionEnds` |
| `FtpWhole.cfg` | 2 commands, 2 ports | violation of `ReceivedIsWhole` |
| `FtpCut.cfg` | 1 command, the server may end, fairness | violation of `CommandEnds` |
| `FtpPipe.cfg` | 1 command, SIGPIPE, the client may die | violation of `SessionEndsItself` |
| `Receive.cfg` | header of 2 bytes, payloads up to 2, 3 messages, fairness | types, `InFrame`, `IsQueue` (refinement), `CallReturnsWhileUp` |
| `Welcome.cfg` | 2 connections, select of 2, limit of 3, fairness | types, `NoDescriptorLost`, `StopIsNoticed`, `InTime`, `WelcomeEnds`, `QueueMoves` |
| `Store.cfg` | 2 sessions, a free, a taken and a refused name, files of 0 or 2 blocks, one crash, fairness | types, `OldFilesKept`, `StoredIsOwn`, `GetIsStored`, `StoredStays`, `PutEnds` |
| `Server.cfg` | 3 clients, backlog 1, 2 descriptors, SIGPIPE and failing threads, fairness | types, `LinesAreWhole`, `InterruptEnds`, `EachIsServed` |
| `SendStream.cfg` | all lengths up to 10, chunks of 3, ints up to 7, partial sends | types, `SentUnlessAgain`, `CountMeetsSize` |
| `SendPartial.cfg` | the same | violation of `SentIsStream` |
| `Wire.cfg` | limit of 4; names around it and beyond a length's width; both orders on both hosts | `MessagesArrive`, `LengthIsWhole`, `OnlyLongNamesRefused` |
| `Console.cfg` | 5 words of 8; 4-bit ports, 6-bit ints and the numbers around them | `NoFileAfterEnd`, `OverwriteIsConfirmed`, `SameArgumentMeets`, `EveryPortIsTaken` |

Two commands suffice for one to disturb the next, and a listing of two blocks is a
chunk that can be cut. What more commands could do is proved (section 6), except for the
two liveness properties: each command starts from a prompt with nothing left open and,
unless an LS gave up, no reply left over. Two ports let a late connect meet a socket that
is gone or one that belongs to the next command; a single port makes the kernel reuse it. Two
ports are interchangeable, and the files are not, so no symmetry is used. Two sessions
in `Store` are two PUTs that race, or a GET of a file that is being put (what more
sessions could do is proved, see below); two blocks are the least that can be cut. Five
words are a GET, its name, an answer that is neither yes nor no, one that is, and the
next command. Lengths up to 10 in chunks of 3 are none, one and several full chunks
with and without a rest, on both sides of the largest int. Three clients in
`ServerProcess` are two that use up the descriptors and one that waits.

### Findings

Four runs end in a violation; each is a disagreement between the code and what is
written about it, quoted in `PROJECT.json`.

* **A GET after an LS that gave up** (`FtpWhole.cfg`). The LS times out while the
  session is still to serve it; its OK is taken by the GET, which reports as
  "received successfully" as many bytes as the listing had.
* **End of stream inside a chunk** (`FtpCut.cfg`). `receive` has no branch for
  `recv` = 0 after some bytes and spins.
* **A vanished client ends the server** (`FtpPipe.cfg`). On Linux `::send` to a client that
  reset its connection raises SIGPIPE, which nobody handles: not the session but the
  process ends, and every other session with it.
* **A partial send repeats the chunk** (`SendPartial.cfg`). The loop that is there for
  partial sends passes the beginning of `buf` each time.

### Further disagreements

These properties say what a comment, a message or a diagram says, with the place quoted
above each, and the code does not do. No run states them; each is next to the
properties that do hold, and TLC gives a counterexample when it is put into the
configuration named.

| property | configuration | what the code does |
|---|---|---|
| `RefusalIsDeserved` | `Ftp.cfg` | `handle_get` reads `response.msgid` uninitialized and may refuse a readable file |
| `CommandIsReported` | `Ftp.cfg` | an LS that timed out returns to the prompt without a word; the diagram has an error message |
| `TimedCallReturns` | `Receive.cfg` | after the first byte of a message no time limit holds |
| `SelectWaits` | `Welcome.cfg` | where `select` overwrites its timeout (Linux) the loop polls from the second turn on |
| `AcceptNeverBlocks` | `Welcome.cfg` with `AbortRemoves = TRUE` | a connection aborted before the accept makes it wait for the next one |
| `NothingDeleted` | `Store.cfg` | two PUTs of a name pass the check together, and the second opening empties a file stored with success |
| `AnnouncedIsAll` | `Store.cfg` | a GET of a file that is being put sends more than it announced |
| `OkMeansConnected`, `FailureIsSent` | `Store.cfg` | `handle_put` says OK and then connects; a failure after OK is not sent |
| `RunsUntilInterrupted` | `Server.cfg` | the exception of `std::thread` passes `main`, that of `welcome` ends it, and so does SIGPIPE |
| `CommandsAreTyped`, `PutIsSent` | `Console.cfg` | at the end of the input the last command is repeated; PUT is listed and not implemented |
| `ClientPortIsGiven`, `ServerPortIsGiven` | `Console.cfg` | numbers out of the range the programs print are taken and wrap |

For two of these it is proved what the code does keep: `OnlyListingsEndSilently` beside
`CommandIsReported` and `StoredStays` beside `NothingDeleted` (section 6).

Three checked properties are what is left of a promise the code does not keep in full.

* "Returns number of bytes sent" (`Connection.h:64`) is false from 2 GiB on, where the int
  `totalBytesSent` wraps. `CountMeetsSize` says where the line is: `handle_get` finds the
  number equal to the size of the file exactly when an int can hold that size.
* "The client is waiting on an OK or ERROR message" (`ClientSession.cpp:156`): several ways
  lead to no answer (`Unanswered`). `OnlyLongNamesRefused` is about one of them: an answer
  that `send` refuses is the error of a GET whose name leaves no room for its words.
* At the end of the input the client repeats its last command (`CommandsAreTyped`).
  `NoFileAfterEnd` bounds the damage: a repeated GET has no name, and writes nothing.

Some outcomes are modelled and no property forbids them, because no comment, message or
diagram does: the crash of a client without a connection (`Start`) and of one whose input
ends before its first word (`NoWord`), the refused retry of a PUT that failed, a file that
appears between the look-up and the opening of the output.

## 6. What is proved

For every value of the constants that satisfies the named assumptions of the modules
(bounds are numbers, sentinels are not real ports, names or sessions, the server's
files have lengths).

* `TypeCorrect`: `Spec => []TypeOK`. `TypeOK` is not inductive. A client that
  receives must have a data connection (`ReadsData`), or what it appends is no
  block; a session that answers a GET must know the file (`ServesFile`), or the
  length is no number. `TypeInv` adds both.
* `LocalFilesSafe`: `Spec => LocalChangesAfterOk`, from `TypeInv` and `Answered`: where
  the client may write a file, the last response is an OK.
* `NothingStaysOpen`: `Spec => []NothingLeftOpen`. The inductive invariant `OpenInv`
  has three parts. `PortsNamed`: every LS or GET, made, in flight or being served,
  names a real port, so a session never connects to a client that does not
  listen. `ClientEnds`: the only open end of the client is that of `cdata`, and
  pending ones exist only while it listens. `ServerEnds`: the only open end of the
  session is that of its request, during its transfer.

* `RepliesAreTaken` and `TransfersAreOwn`: `Spec => []NoReplyLeftOver` and
  `Spec => []TransferIsOwn`. Replies carry no identification, so that they match their
  commands has to follow from what can be under way. `InStep` says it: while the
  client waits (`Waiting`) exactly one of command, work and reply is under way and
  belongs to its command; while it needs no reply (`Quiet`) none is; the greeting is
  a case of its own, because the two HELLOs cross. `Own` adds that the backlog and the
  accepted connection are those of the command, which needs `OpenInv` for the empty
  backlog at the prompt. All of it is void once an LS gave up, as `FtpWhole.cfg` shows.

* `FilesAreWhole`: `Spec => []ReceivedIsWholeInStep`. `WholeInv` adds to the above that
  the blocks received, those in flight and those the session has still to send are
  one run of the file (`OneRun`), and that what was received plus what is still to
  come is its length. `LaterUnused` says that the connections of later commands have
  carried nothing yet, so a run starts empty; `CountKept` that a chunk ends exactly
  when its blocks are in, so `bytesLeft = 0` leaves no block of a chunk uncounted.
* `PromiseIsKept`: `Spec => KeepsPromise`, the refinement of `FtpService`. Every action
  of the client is mapped to an action of the promise or to a stutter, and every
  step of the session is a stutter; `Told` says that the outcome of a command is told
  once. That the growing copy stays a prefix of the file is `OneRun`.

* `ReceiveIsQueue` and `StaysInFrame`: `Spec => IsQueue` and `Spec => []InFrame`. The
  inductive invariant says where each call stands: its stream begins at the end of the
  last message delivered, what it has read is `total` bytes of the header or of the
  rest, and `howMany` is what is missing of them, so the header ends where the length
  is and the rest ends where the message does. Then a timeout that returns has read
  nothing, and every step is one of the queue or a stutter.
* `DisplacedBySecondSend` and `CountMeetsSizeInInt`: `Spec => []SentUnlessAgain` and
  `Spec => []CountMeetsSize`, whatever pieces `::send` takes. The inductive
  invariant adds `Parts`, as many bytes are on the wire as were read and are not left in
  `buf`, and `InInt`, an int that can hold the length of the stream has not wrapped.
* `OldFilesSafe` and `StoredIsSent`: `Spec => []OldFilesKept` and `Spec => []StoredIsOwn`.
  `Course` ties the call a session is in to what it has answered and read; `Made` says a
  file that was opened is there; `Apart`, that two PUTs of a name are together past
  the check only if both have raced: one that opened makes the check of the other
  fail. So a block is written to a file of the session's own, at its end
  (`WriteHolds`).

* `WelcomeTypes`, `DescriptorsAreKept`, `StopIsSoon` and `LimitIsKept`: the invariants of
  `Welcome`, for any number of connections, any limit and wait, and both kinds of
  `select`. `Listening` says when the welcome socket is open, `Timing` that a select in
  progress has not outlived its timeout and only the time spent in it may be beyond the
  limit, `LastOne` that after a connection handed over too late the loop gets no
  further than to its query.
* `ServerTypes` and `PrintsAreWhole`: the invariants of `ServerProcess`, for any number of
  clients, descriptors and any backlog. `LinesAreWhole` is inductive with the types.
* `SamePort` and `PortsAreTaken`, for every set of numerals and widths of ports and ints:
  `ServerParsed` and `ClientParsed` say what each program made of its argument, and that
  what one rejects its tests reject. `RepeatedGetsWriteNothing` and
  `OverwritesAreConfirmed`, for every set of words and files, with `Undecided`: an
  answer that is still asked for is no Y.
* `SendTypes`, `ReceiveTypes` and `StoreTypes`: type correctness of these modules. It needs
  their invariants: a chunk in `buf` lies within the stream, a call is within a message
  (`Fields`), a session that reads has a file that is there (`Known`).
* `GetsAreStored`: `Spec => []GetIsStored`. `Clean`: for a GET in whose time no PUT had the
  file open none has, the file is as long as announced, and its beginning has been sent
  up to the position of the stream. An opening by a PUT marks the GETs of the name as
  `mixed`, so only a file nobody writes is left to argue about.
* `RoundTrip`: what `operator<<` of one host writes `operator>>` of another reads, for every
  base, width, number and pair of byte orders. It is an induction over the bytes; the
  library's induction theorem cannot be applied, so the induction is an argument by a
  least counterexample (`LeastNat`, `UpTo`), and `Recursion` shows that the
  recursive functions exist. `DigitsSayNumber` and `NumberHasDigits` say that digits and
  numbers are inverse, `InsertedIsDigits` and `ExtractedIsNumber` that the order of
  the host cancels out.
* `FieldsArrive`, `HeaderIsRight` and `RefusedForLongNames`: `Spec => []MessagesArrive`,
  `[]LengthIsWhole` and `[]OnlyLongNamesRefused`, for all widths, limits, names, sizes and
  ports. `OnTheWire` says the bytes under way are those of the message just sent, which
  fits; `Understood`, that the server works on the command it was given; `Arrives`,
  that such bytes are parsed to the message they were made from.

Two theorems bound disagreements of section 5:

* `EndsAreTold`: `Spec => []OnlyListingsEndSilently`, from `Told`: whatever leads back to
  the prompt has made a report, except `AcceptTimeout`. No run states the property; TLC
  finds no violation of it in `Ftp.cfg`.
* `StoredIsKept`: `Spec => StoredStays`. A step that writes a stored file would be that of
  another PUT past the check, so `Apart` says the first one has raced; `Reported` says
  that a PUT that reports success has opened its file.

The lemmas of `Ftp_proofs` say what each socket operator does to a connection; the
step lemmas have one case per action.

Every safety property a passing run checks is a theorem for all constants that satisfy the
named assumptions. Only model-checked is all liveness (`CommandEndsUnlessCut`,
`SessionEnds`, `CallReturnsWhileUp`, `WelcomeEnds`, `QueueMoves`, `PutEnds`,
`InterruptEnds`, `EachIsServed`): liveness under fairness is out of the prover's reach.

## 7. Not modelled, and why

* Text of messages and reports; what a listing contains (it is a number of blocks), and
  `MAKE_MSG` taking its length as 32 bits, which a listing does not reach.
* In `Ftp`, errors while a socket is set up and failures of `select` and `accept` are only
  what they lead to (`Connect`, `CommandFails`, `WelcomeFails`, `ConnectData`);
  `Welcome` has them one by one.
* `WSAStartup` and `WSACleanup`; name resolution in `connect`, which succeeds or throws.
* Descriptors of `FD_SETSIZE` and more, on which `FD_SET` is undefined.
* Jumps of the clock of `welcome`.
* `operator>>` of a `MSGECODE` (`DataStream.cpp:81`), which nobody calls; it does not
  convert from network order as the others do.
* Build files and precompiled headers.
