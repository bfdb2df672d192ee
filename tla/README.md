# A verification of the SDN controller and its agents

The repository is a small software-defined network in C++: one `Controller`
process, and one `Agent` process on every host.  The controller sends commands
to the hosts (`ip -6 route add ...`, `ip6tables ...`), the agents execute them
and answer.  A packet for which a host has no route leaves the host's kernel
through a tunnel into the agent, which *elevates* it to the controller; the
controller looks the packet up in its configuration, sends the commands of the
record it finds to the hosts, and tells the agent to retry or to drop the packet.

This directory holds TLA+ models of that code, TLC configurations that check
them, and proofs for TLAPS.  Every definition of a model is a translation of
code; `PROJECT.json` ("map") says of which lines.  The program is the code under
`src/`; there are no tests in the repository, so the statements checked against
it come from `DESIGN.md`, from comments, and from what the code evidently is for.

## 1. Inventory

| component | code | state it keeps | operations |
|---|---|---|---|
| codec | `ProtocolMessage.cpp` (the same file in both programs) | none | `convertToTransferableMessage`, `ProtocolMessage(string)` |
| framing | `getNextMessageFromHost`, `getNextMessageFromController` (the same code) | `receiveBuffer` | cut the TCP stream into messages |
| host database | `runListener`, `authenticateHost`, `resetHostInfo`, `processCmd`; `hostInfo` in `Controller.h` | `hostDb`: for each host its secret, `isConnected`, `sockfd`, `seqNum`, a lock | admit a host, number a command, forget a host |
| session, commands | `sendCommand`, `processConnectedHost`; `listenForCommands`, `processCommand` | `seqNum`, `lastProcessedAckNum`, `responseMessageBuffer`; `lastProcessedSeqNum`, `requestMessageBuffer` | number, send, reorder, execute, answer, show |
| session, elevation | `processElevationRequest`, `sendElevResp`; `listenForElevation`, `handleElevationResponse` | `elevationPackets`, the agent's own `seqNum` | capture, request, look up, answer, resend or drop |
| configuration | `populateConfigDb`, `getValueFromConfigDb`; `configDbKey` | `configDb`, a multimap | read the file, find the record for a packet |
| command execution | `Command::execute` | descriptors of the process | run a child, collect its output |
| routing table names | `Table.cpp` | the file `rt_tables` | show, add, remove |
| other objects | `IPv6`, `NAT`, `Firewall`, `NeighborDiscoveryCache`, `Rule`, `Route` | none | build the text of one command line each |
| console | `runCmd`, `processCmd`, `readCommandsIntoVector`; `processCommand` (dispatch) | the C++ stack: files of commands inside each other | parse, refuse, send, read a file, exit |
| shutdown | the loop of `runListener`, `sigterm_handler`, `main`, `cleanUp` | `terminateExec`, the open sockets | stop listening, join, exit |
| start | `createNewTunnel`, `setupPacketSockets`, `createPacketSocket`, the agent's `main` | the tunnel | once, at the start |

**How they meet.**  The controller has a listener thread, a console thread and
one handler thread per connected host.  The console and *every* handler send
commands to *any* host, because a record of the configuration may name other
hosts than the one that elevated the packet.  What they share is `hostDb`,
mostly without its lock.  The agent has a command thread and an elevation
thread, which share `elevationPackets`, the controller's socket and nothing
else.  The two programs share one TCP connection, with numbered messages in
both directions.  The command thread of the agent executes each command in a
child process and waits for it.

**What is hard to test.**  `PROJECT.json` ("hazards") lists each at its line.
In short: numbers are taken under a lock but messages are sent outside it; the
answer to an elevation is not part of the numbering; numbers and lengths are put
together from signed characters; a record is reset while other threads use it;
nothing has a time limit; `operator<` of the configuration is not a strict weak
order; pipes and descriptors run out; a file is removed before its successor is
in place; files of commands name each other; a signal arrives between the look at
its flag and the call that should notice it; and eight tables of words and
numbers, in two programs, have to agree.

**What makes each part correct.**

- codec and framing: what is read is what was written, whole and in order;
- session, commands: every command is executed once, in the order of the
  numbers, and reported in that order;
- session, elevation: every packet gets one answer, this answer finds this
  packet, and a packet is resent only after its commands were executed;
- host database: only admitted connections are served; the record agrees with
  the threads; numbers start at 1 on every connection; hosts come back;
- configuration: the record found is the one the file means;
- command execution: success means executed, and every command ends;
- console and handlers: a file is what its lines are when typed; what is accepted
  is understood; the words that were typed reach the host's tools; there are words
  by which `remove` undoes `add`;
- shutdown: the controller stops for a reason, soon, and serves until then;
- routing tables: unique numbers, and names as far as they are given alone, nothing
  lost, true answers.

## 2. Modules

| module | models | uses |
|---|---|---|
| `ProtocolMessage` | numbers, flags, enums and whole messages on the wire | |
| `CommandService` | abstract: commands issued, executed, reported in order | |
| `Session` | one authenticated connection, both ends | `ProtocolMessage` |
| `SessionProperties` | its properties and invariants | `Session`, `CommandService` |
| `HostDb` | listener, handlers, senders, agents around `hostDb` | |
| `HostDbProperties` | its properties | `HostDb` |
| `Shutdown` | the end of the controller: signal, exit, sockets | `HostDb` |
| `ShutdownProperties` | its properties, among them the liveness of `HostDb` | `Shutdown`, `HostDbProperties` |
| `Handlers` | the command line the agent executes for a message | `ProtocolMessage` |
| `Console`, `ConsoleProperties` | from a line of words to the agent's command line | `Handlers` |
| `ConfigFile` | a line of the configuration cut into its parts | |
| `ConfigDb`, `ConfigDbProperties` | the multimap, its order and how it is filled | `ConfigFile` |
| `Channel` | abstract: messages arrive whole and in order | |
| `MessageStream` | one direction of a connection as bytes | `ProtocolMessage`, `Channel` |
| `Command` | `Command::execute`, its child and its pipes | |
| `Table` | `rt_tables` and its temporary copy | |
| `MC...` | instances for TLC | |
| `ProtocolMessageProofs`, `SessionProofs`, `MessageStreamProofs`, `CommandProofs`, `TableProofs`, `ConfigDbProofs` | proofs about the module of that name | its properties |
| `HostDbProofs` | proofs about `HostDb`, then about `Shutdown` | `ShutdownProperties` |
| `ConsoleProofs` | proofs about `Console` and `Handlers` | `ConsoleProperties`, `ProtocolMessageProofs` |

A definition named `X_Slip` is `X` with a mistake a programmer could make.
Nothing uses it; `PROJECT.json` ("mutants") says which property notices it when
it takes the place of `X`.

### Session

`Threads` are the handler of the host and `Others`.  `NumberCommand` is
`sendCommand` up to the release of the lock: number and message are made
together.  `SendCommand` is its `send()`, a step of its own, so that threads can
overtake each other.  `HandlerResponse`, `HandlerDrain`, `HandlerRequest` and
`HandlerItem` are `processConnectedHost`: a response in turn, a turn of the loop
over buffered ones, an elevation request and its look-up, and a turn of the loop
over the commands of the record found.  `AgentRequest`, `AgentDrain` and
`AgentElevResponse` are `listenForCommands` in the same way, and `ElevCapture`,
`ElevStore` and `ElevSend` are `listenForElevation`.  `toAgent` and
`toController` are the TCP connection; here a `send()` is atomic, which is what
`MessageStream` is about.  Every number goes through `OnWire`, the codec.

`elevationPackets` is a `std::map` without a lock.  While the elevation thread
inserts (`elevPc = "insert"`), a lookup of the command thread may miss its key,
and the insertion may be lost; the history variable `raced` says that it has
happened.  A crash or an endless loop in the tree, which are possible too, are
not modelled.

`Plan` is what the configuration holds for each packet, reduced to the kind of
each entry.  The instances have records with one `retry` or `drop`, at the end,
as `Config.txt` does.  Nothing in the code demands it: a record without one
leaves its packet in the map for ever.

### HostDb

Each access to the record is a step, because almost none is locked:
`resetHostInfo` is `HandlerErase`, `HandlerInsert` and three steps of
`HandlerAssign`; the check and the use of `isConnected` by the listener are
apart, as are `processCmd`'s check, `sendCommand`'s number and its `send()`.
`operator[]` of the map makes a record that is missing, so every access is
written `Update(h, Touched(h))`.  Two places hold the lock: `sendCommand`'s
numbering, and the listener between `isConnected` and `sockfd`; the guard of
`SenderNumber` is that exclusion.  `peer` is what the kernel knows of the other
end: after a close the first `send()` succeeds or is answered with a reset and
the second raises SIGPIPE; `recv()` returns 0 after a close and -1 after a reset,
and -1 ends the whole controller.

`raced` and `stale` are history: hosts whose next agent was authenticated, or
whose sender was between check and send, while the record was being reset.  The
invariants hold outside of these windows, and the run `hostdb_numbers` shows what
happens inside of one.  Left out are the memory of the map's
tree and the lock that is destroyed while held: both are undefined behaviour
with no outcome worth listing.

### Shutdown

`Shutdown` is `HostDb` with what that leaves out: `Look` is the test of
`terminateExec`, a step before `Accept`, so that SIGTERM can come in between;
`AcceptFails` is `accept()` without a descriptor left; `StopListening` closes the
listening socket, which turns away whoever waits in its backlog, and goes on to
the join; `Serve` is the body of the loop, as in `HostDb`.  `sa_flags` is not set
for SIGTERM, so whether `accept()` and `recv()` are restarted after it is chosen
at the start (`restarts`).  `exit`, typed on the console, runs `cleanUp` while the
other threads go on, and the end of the process follows at once: the two are one
step, since nothing of what cleanUp closes or frees outlives the process.

### Console, Handlers, ProtocolMessage

A line is a sequence of words.  Each thread that hands lines to `processCmd` has
the C++ stack it has got into: `ReadFile` puts the lines of a file on top,
`Return` takes an exhausted loop off, and every other action consumes one line of
the innermost loop.  `MaxDepth` is where the stack overflows.  `IssueCommand`
encodes the message with `Encode`, byte by byte, and `Receive` decodes it with
`Decode` and finds with `Operation` what the agent executes.  The words of the
body are the tail of the bytes: each counts as one, since neither program looks
into it.  `Low`, `Shift` and `Word32` are the casts, shifts and sums that the four
bytes of a length go through.  `RepeatLine` is `getline` after the end of the input.

`Typed`, what lines amount to if each is typed, is a recursive function and not a
`RECURSIVE` operator, and "leads to" (`Leads`) is membership in every set of files
closed under naming: both can be evaluated and proved about.  `DropAssumption`
says no more than that a literal of the code is a string, which TLAPS cannot see.

`Handlers` has one operator for each class of the agent.  The tool's own words are
kept; the texts of the responses are not.  What such a command line adds or removes
is outside of the program, but for `Table`: `Target` of `ConsoleProperties` says of
`ip`, `ip6tables` and `Table` what its words name, `Positions` being the words which
`ip6tables` takes for the number of a rule.

### ConfigFile, ConfigDb

`ConfigFile` cuts a line of tokens as `populateConfigDb` cuts its string, with
`Find` for `find` and `Cut` for `substr`.  The instance has every record the file
can hold in four ways of writing it, and lines that end the program.  What the
writer of a line means comes with it, as history, and `EveryLineKept` compares.

A multimap is a sequence in the order of its iterator.  `Places` are the
positions at which a search of the tree for the place of a new key can end,
whatever the tree's shape.  `Before` is `operator<`, which compares a key with
itself as smaller.

### MessageStream, Command, Table

`MessageStream` models bytes: `send()` copies what the kernel has room for and
sleeps without the socket's lock; `recv()` returns any prefix.  `Command` models
the parent's and the child's steps, the two pipes and the count of open
descriptors; a call of `pipe()` that fails leaves its two numbers unset, and the
child then runs with luck or not at all.  `Table` models a line as its number
and the words behind it, of which the first is the table's name, the copy line by
line, and the death of the agent between any two steps.  What `add` and `remove` are
given is the whole body of the message, in any number of words, and they compare it
with single words (`Taken`, `Has`).  A file whose last line is not ended is one of
the initial states.

## 3. Runs

All runs use small values of `Base` (2, 4 or 16 instead of 256): half of the wire's
range, where the codec changes sign, is then 2, 8 or 128 and is reached by the bounds
or kept out of reach by them, as the run needs.

| run | asks | bounds |
|---|---|---|
| `session` | do the reorderings give back the order of the numbers; is no command lost or doubled; does each packet get one answer that finds it; when can a packet miss its route; does everything end? | 2 other threads, 2 commands, 2 elevations of 3 kinds of record; `Base` 4, so no number leaves the range |
| `session_wrap` | is no distinguishable command lost when the numbers outgrow the wire? | `Base` 2: the range is used up by the second number |
| `hostdb_records` | admission, agreement of record and threads, numbering | 1 host, 2 connections, 2 senders, all failures, short packets |
| `shutdown` | why and how soon does it stop; until then, are agents answered, closes noticed, admitted agents connected? | 1 host, 2 connections, 1 or 2 sockets, closes, resets and silence, SIGTERM and exit at any time |
| `console` | from words to command lines: nothing forgotten, repeated, misread or not understood | every command with every type and 0, 1, 2 or 4 further words, a position among the 4; 8 lines that are refused; 5 files, one in another twice, two in a circle; 1 line typed and 1 repeated, 1 packet elevated |
| `configdb` | is the right record found, whatever the file? | files of up to 4 lines over 2 hosts and 2 addresses, 4 ways to write each, 3 malformed |
| `stream` | are messages returned whole and in order, however the stream is cut? | 2 threads, 3 messages of 5 bytes or of 8, which are misread, a kernel buffer of 11, `recv()` of up to 10: two messages at once, or one in many pieces |
| `command` | is success success, does every command end, how long do descriptors last? | 3 commands that write up to one byte more than a pipe of 2 bytes holds; 8 descriptors, the third command may find none |
| `table` | unique, kept, true, under crashes, and for bodies of any number of words? | bodies of no word, one (a number too) and two, up to 4 lines |

Two connections of one host are the smallest number at which a reset meets the
next admission; two senders the smallest at which numbers are overtaken; two
elevations the smallest at which an answer can find the wrong packet, and three
kinds of record are all there are: commands and a retry, a drop, none; three
messages the smallest at which the rest of one `recv()` holds a whole message
and a piece; three records of one host the smallest at which the catch-all, the
one-sided and the exact record meet, and a fourth makes two of a kind; the files
of `console` are inside each other twice, and a circle of two is the smallest that
no look at one file finds; the stack holds five files (`MaxDepth`), all there are,
so that only a circle can overflow it.
`MaxInbox`, `MaxCmds`, `MaxElevs`, `MaxConns`, `MaxMsgs`, `MaxRecords`,
`MaxLines`, `MaxTyped` and `MaxRepeated` are bounds of the model and stand in
guards; `MaxDepth` is the size of the stack.  Deadlock is checked in the session runs, where `Quiescent` names the states in which every thread waits
for input; in the other modules the bounds stop the input and the check is off.

### Fairness

Weak fairness of each thread that can go on: the kernel schedules every runnable
thread, and the locks involved are held for a bounded time.  Nothing that people
or the network decide is fair: nobody has to type, connect, send a packet or
fail.  Weak fairness is enough, because no other thread disables a step that is
ready for good.  The fairness is per thread, not per action: a thread does one
thing at a time.  In `Shutdown` the main thread is the listener (`MainStep`), and
the thread that called `exit` finishes `cleanUp`; nobody has to send SIGTERM or
to type `exit`.

### What the code does not do

Some properties hold with an exception, which is in the formula and named for
what has to happen first:

- `SeqInRange`, `ElevInRange`: numbers from half of the wire's range on come
  back from the codec as other numbers, and 65536 as none.  The answer to such an
  elevation finds no packet, or another one;
- `raced` of `Session`: the agent's two threads meet in the map without a lock; a
  retry may then resend the empty string instead of the packet;
- `raced` of `HostDb`: the listener authenticates the host's next agent between
  two assignments of `resetHostInfo`; the agent may run, unknown to the record;
- `stale` of `HostDb`: a sender that checked `isConnected` before a reset takes
  its number after it;
- `spoiled` of `MessageStream`: with the kernel's buffer full, the bytes of two
  threads' messages mix; a length whose second lowest byte is 128 or more is
  misread.  What follows such a message is not promised to arrive;
- `Waiting` of `Shutdown`: a peer that connects and says nothing blocks the
  listener in `recv()`; no agent is answered, and SIGTERM is not looked at;
- `Sockets` of `Shutdown`: when the process may open no more, `accept()` fails and
  the loop spins, with no agent admitted any more;
- `pipes` of `Command`: the descriptors are used up, commands are not run and
  success is reported (`DescriptorsLast` says when, at the earliest);
- `TooMuch` of `Command`: an output larger than a pipe.  The child waits for a
  reader, and the reader for the child's end;
- `OnlyCyclesOverflow` of `ConsoleProperties`: files that name themselves, directly or
  by way of others, end the controller;
- `glued` of `Table`: `add` writes behind a last line without a newline, reports
  success, and there is no such table;
- a routing table with several words.  `add routingTable h main x` does not notice
  that there is a table `main`, writes a second line of that name, as often as it is
  asked to, and reports success; `remove` with the same words finds nothing, and with
  `main` alone it removes both.  `UniqueTables` allows a repeated name only to a line
  with words behind it, and `AnswersTellTheTruth` says that a removal by several words
  is refused;
- `RemoveUndoesAdd` of `ConsoleProperties`: the words that undo an addition
  (`Undoing`) are not always those of the addition.  For nat and firewall the position
  has to be left out, or `ip6tables -D` takes it for a part of the rule; for a routing
  table only the name may be given;
- `WordsAreKept`: words behind the second of `ip` and the third of `neighbor` are
  dropped, and the response reports them as added;
- `AppropriateRecordFound` of `ConfigDbProperties`: among records for every source
  `operator<` does not look at the destination, and the first in the file is found.
  DESIGN.md:32 speaks of the appropriate match; a drop of everything that stands
  before a route to one destination, both for every source, hides that route.  In
  `Config.txt` the drop of everything stands last.

`ClosedIsNoticed` is about agents whose connection closes.  One that stops without
closing it stays connected for ever and its host is refused: there is no timeout.

Three statements of the documents were taken as they stand and are refuted;
`PROJECT.json` ("findings") quotes them.

| run | what happens |
|---|---|
| `session_overtaken` | another thread has number 1 and has not sent it; the handler's commands 2 and 3 wait at the agent; the answer `retry` does not wait: the packet is resent without its route.  `RouteUnlessOvertaken`, which holds, says that this is the only way |
| `hostdb_numbers` | a sender that checked `isConnected` before the reset takes number 1 of the next connection, whose agent then waits for it for ever |
| `shutdown_sigterm` | SIGTERM; another agent connects and the loop ends; `main` joins the console thread, which reads for ever, and the controller runs on without listening |

## 4. Proofs

TLC's results are about small instances; these are about all of them.

`ProtocolMessageProofs`: the codec is the identity on numbers below `SignLimit`
(`WireIdentity`, for every even `Base`), and what it returns is a number of 16
bits (`OnWireType`).  `MessageRoundTrip` extends it to whole messages, with any
flags, type, command and body: each field stands where the constructor looks for
it (`Layout`), the flags do not touch each other (`FlagsRead`), and the numbers
are `WireIdentity`.  A length goes through four bytes (`LengthIsRead`).  What holds
beyond `SignLimit` too is that a number of 16 bits other than 0 is never read as 0
(`NeverReadAsZero`): a command is always read as one.  All that is assumed is
`BaseAssumption`.

`SessionProofs`, for every set of threads, packets and records, and every bound:

- `TypeCorrect`: `TypeOK`, inductive as it stands;
- `SequencingCorrect`: `SequencingInv`.  Order is not inductive by itself: that
  the agent executes command *n* next depends on what the message with number *n*
  carries, wherever it is.  The invariant therefore follows the pair of number
  and command through the sending threads, the socket and both buffers
  (`NumberedCommands`, `AnsweredCommands`), and ties both counters to the lengths
  of the histories (`ExecutedInOrder`, `ShownInOrder`).  It is stated for
  sessions whose numbers are in the range of the codec (`SeqInRange`), which is
  where `WireIdentity` comes in.  `SeqInRange` is not invariant, but the numbers
  only grow: a state in range comes from a state in range, so the implication is
  inductive;
- `CommandsInOrder`: a session that stays in range implements `CommandService`
  (its safety part) with `reported <- shown`: `NumberCommand` is `Issue`,
  `ProcessCommand` is `Execute`, `Show` is `Report`, all else stutters;
- `NothingToReorder`: `ResponsesArriveInOrder`, from `ResponsesInv`: the
  responses on their way are numbered consecutively from the one the handler
  waits for;
- `CommandsInOnePlace`: `EachCommandInOnePlace`, which has no hypothesis about
  the range.  It counts occurrences, so each place has a lemma of its own (what
  appending to, or taking from, a thread, the queue, the buffer and the history
  does to the count), and the step of a command adds up two of them.  The
  strengthening is `Traced`: every message carries what was issued under its
  number, and its number on the wire is that number after the codec.  The agent
  drops a message only if its number on the wire is 0 or is already in its
  buffer, which is what `Mistaken` excepts.

About the elevations, under the hypothesis `RecordsAnswerOnce`: every record of the
configuration ends in its only `retry` or `drop`.  This is a condition on the
constant `Plan`; the code does not check it, `Config.txt` meets it, and
`MCSession` states it as an assumption that TLC evaluates.

- `ElevationsInOnePlace`, `AnswersFindTheirPackets`, `PacketsHeld`: the
  invariant is `Chain`, that the elevations form one line.  Those resolved come
  first, then the answers on their way back, the elevation the handler works on,
  the requests on their way to it, and the one the agent has in hand; each queue
  holds consecutive numbers, from where the part before it ends to where the
  next one begins (`Taken`, `Answered`).  `MapInv` then says what
  `elevationPackets` holds, as long as the agent's threads have not met in it;
- `RouteCorrect`: `RouteUnlessOvertaken`, an action property, while the numbers
  fit the wire.  `RouteInv` adds three things: a request has the packet captured
  under its number; of an elevation the handler has taken, commands numbered and
  commands still to do add up to those of the record (`Counted`); and a command
  of an elevation that is not executed is in the agent's buffer, in the queue
  ahead of the answer, or with the handler, which then has not answered
  (`Placed`).  When the answer is at the head of the queue, only the first two
  are left, and the queue has nothing ahead of its head: what is not executed
  waits in the buffer for another thread's command.

`HostDbProofs`, for every set of hosts and senders, any number of connections
and all failures: `AdmissionCorrect`, `OnlyAdmittedAreServed`.  What the listener
has found out is in its program counter, so the invariant `Admission` says what
each place implies (`ListenerKnows`).  A later step must not take it back: the
connections in the backlog are different ones, were made and have no thread, nor
is the listener busy with one of them (`BacklogFresh`), so neither a new
connection nor another answer can change what a thread was admitted by
(`ServedAdmitted`).  `Shape` is the part of the types that this depends on.
Assumed: `HostDbAssumption`, a host file with at least one host.

- `AgreementCorrect` (`RecordAgreesWithThreads`) and `OwnSocketCorrect`
  (`ThreadsReadTheirOwnSocket`), from `AgreementInv`.  A host that was never
  authenticated in the middle of a reset goes round: it is free, in the
  listener's hand, served by one thread, being reset by this thread
  (`Agreement`), and where it is says what the record holds.  Without the
  exception `raced` it is not inductive: the flag is cleared before the rest of
  the reset, and the listener may come in between;
- `NumbersCorrect` (`NumbersOfThisConnection`), from `Counting`: the socket of a
  record is a connection of its host that was admitted (`SocketsInv`); the
  numbers sent on it and those its senders hold are those below `seqNum`, and as
  many, so that none is there twice (`Numbered`); while the host is not
  connected the record is as it was made, and nobody holds a number
  (`Numbering`).

`CommandProofs`, for every set of outputs, size of the pipes and limit of
descriptors, commands that write too much included:

- `CommandTypeOK`, and with it that `used` never exceeds the limit nor becomes
  negative;
- `SuccessIsTrue`, `ErrorIsTrue`: what a response says is decided long before it
  is sent.  The invariant says for each place of the parent what it knows of the
  child, and that what a command writes is always the sum of what is left, what
  is in the pipe and what was read, as long as there is a pipe;
- `LeakIsAsLargeAsSaid`: an equation between the descriptors in use and the
  history of the answers, with the descriptors of the command being executed
  added while there is one;
- `DescriptorsDoLast` follows from it: a command takes four at the most, and each
  before it left four at the most.

About `Shutdown`, for every configuration of hosts, senders and sockets:
`StopsAfterOneMore`.  `AtMostOneMore` is not inductive; the invariant adds that
the loop cannot have looked at the flag successfully once a connection was
accepted after the signal.  Only six variables matter to it, so all of `HostDb`
is one step of the proof.

- `StopsForAReason`: `ReasonToStop`.  Its core is the handler's `recv()` on
  descriptor 0, which would fail and end the program: a thread that waits for a
  message of standard input contradicts `Agreement`, so its host is in `raced`.
  `AgreementInv` is therefore shown again for the steps of `Shutdown`: each is a
  step of `HostDb`, or closes the listening socket, or ends the process
  (`StepOfHostDb`);
- `ShutdownTypesCorrect`: `ShutdownTypeOK`, whose bounds need invariants of their
  own: a number held or given next is at most one more than the commands
  numbered, which with those still to be numbered keep to `MaxCmds`
  (`NumbersBounded`); only `accept()` adds a socket, and only when one is left;
  the listener has nothing in hand when `main` goes on to the join (`LoopBounded`).

`TableProofs`, for every set of bodies and every initial file: `UniqueTablesCorrect`,
`TablesKeptCorrect`, `AnswersCorrect`, all from `TableInv`.  The three properties
and the types are part of it; what has to be added is that the copy, up to the
line `remove` has come to, holds exactly the lines without the word (`Copied`), and
that there is no file only between the removal and the renaming.  Assumed:
`TableAssumption`, that the file the system comes with names no table twice, neither
by number nor by name.  Nothing is assumed of the bodies.

`ConfigDbProofs`, for files of any length, under the hypothesis
`LinesReadAsMeant`: a line is refused if and only if it has no meaning, and is
otherwise cut into the key and the commands its writer meant.  `MCConfigDb` states
it as an assumption about its lines, and TLC evaluates it: this is the parsing,
a search for words, and stays with TLC.  What is proved is the multimap:
`EveryLineCorrect` (`EveryLineKept`), `TreeShapeCorrect`
(`TreeShapeDoesNotMatter`) and `AppropriateCorrect` (`AppropriateRecordFound`).
`operator<` is no strict weak order; the invariant `Ordered` says what comes out
of it after all: entries stand by host, source and destination, the largest
first, those for every source are equal, and of equal keys the later line comes
first if both addresses are given and the earlier otherwise (`Precedes`).  Along
such a sequence `Before` a key changes from false to true once, so a search has
one end.  `Recorded` ties the entries to the lines of the file.  Of two records that
serve a packet, one that stands first is more specific, or has the other's addresses,
or both are for every source (`Fits`): the last is why the property has its exception.

`MessageStreamProofs`, for any number of threads, lengths of messages, capacity of
the kernel and size of `recv()`: `MessagesInOrder` (`ReturnsTheNextMessage`), that one
direction of a connection implements `Channel` up to the message `spoiled` names:
`Send` is its `Send`, `Return` its `Receive`, all else stutters.  The property looks at
whole messages, and the steps at bytes; `StreamInv` joins the two.  The bytes the
receiver holds followed by those in the kernel are `Pending`, and there is a function
`at` of positions in them (`Aligned`): message by message they lie behind each other,
from the first that is not returned (`Offsets`), each with its own bytes (`Contents`),
and they end with the last one, or inside it while one thread still sends it (`Ends`).
A `recv()` of any size moves the border between the two buffers and leaves `Pending`
as it is, which is why the cuts do not matter.  Nothing is said from the message
`spoiled` on.  `ReadLength` needs that a length not spoiled is read as it was written,
which is what `Spoils` asks when the message is sent.  TLC checked `StreamInv` too, on
the instance of the run `stream`.

`ConsoleProofs`, for every set of lines, files, records and hosts.  Six theorems from
one invariant, `ConsoleInv`, with three independent parts:

- `Delivered`: what was sent to a host is what it answered followed by what is on the
  wire, message by message, each an answer about a packet (number 0) or a numbered
  message with a type and a command that a line can ask for.  `AcceptedIsUnderstood` (`CommandsAreUnderstood`) and, with
  `LengthIsRead` and `MessageRoundTrip`, `ReadAsSent` (`MessagesAreRead`) follow.  The
  latter has the hypothesis `MessagesFit`: no number sent and no length reaches
  `SignLimit`.  `WordsAreKept` (`WordsArrive`) and `RemoveUndoesAdd` (`AddIsUndone`)
  are about `Operation` alone, a case for each of the seven types, over bodies of any
  length: `OperationKept` gives the embedding of the words in the command line, and
  `Targets` what such a line is about: it is cut at its verb again (`CutAtVerb`), by
  which each tool can be told from the others (`OpeningParts`).  Their hypothesis is
  `NumbersFit`, that numbers stay below 65536: command number 65536 is read as 0 and
  nothing is run for it.  Both hypotheses are about the state, and `console` stays
  within them;
- `Followed`: loop *k* of a thread's stack reads lines of a file *n[k]* that each file
  below it leads to, and lines given ask for the first (`Trail`).  With more open files
  than there are, two are the same one, which therefore leads to itself:
  `OnlyCyclesOverflow` (`OverflowMeansCycle`).  It supposes `Cardinality(Files) <=
  MaxDepth`; files without a circle, but inside each other more deeply than the stack
  is large, overflow it too;
- `Owed`: what a thread has handled, followed by what its stack has still to hand out,
  is what the lines it was given amount to.  The second is a sum over the loops from
  the innermost out, each with the depth left to it (`Sums`); opening a file, handling
  a line and leaving a loop move an addend across the border, and nothing is left when
  the stack is empty.  `FileIsAsTyped` (`FilesAreTyped`) is all of that but the sum.
  No hypothesis: it holds for circles of files as well, as far as the stack goes.

What a step does to a stack is stated once, over `Next` (`StepMoves`): a thread
starts, handles a line, opens a file, returns or overflows, and the others keep what
they have (`MovesAlone`).  `Typed` is defined by recursion, twice, over depth and over
lines.  That such a function exists is a theorem too: `StepByStep` constructs one from
a first value and a step, from the well-foundedness of the numbers, and `TypedSolves`
uses it to unfold the definition.

### Proved or checked

`TypeOK` and `LeakOfEachCommand` of `Command` are only proved: the theorems say
more than a run would.  `TypeOK` of `HostDb` is part of `ShutdownTypeOK`, which
the run `shutdown` checks.

Every invariant that a passing run checks is proved as well, and so are the action
properties `RouteUnlessOvertaken` and `ReturnsTheNextMessage` and the
safety part of `SequencedCommands`.  What is only model-checked:

- liveness (`SequencedCommands` with its fairness, `EveryPacketAnswered`,
  `EveryMessageReturned`, `EveryCommandEnds` and the temporal properties of
  `Shutdown`), because fairness and `ENABLED` are out of the prover's reach;
- the two hypotheses about constants, `RecordsAnswerOnce` and `LinesReadAsMeant`, for
  the records and lines of the instances;
- the three statements the runs refute.

## 5. What is not modelled

- The tunnel, the raw sockets and the start of the agent: calls to the kernel,
  each once, with exit on failure.
- The texts: responses, error messages, `printConfigMap` and the other functions
  that print.
- Lines of the configuration that are not of the form of `Config.txt`: without a
  comma between two parameters or without their brackets.  (By reading: the first
  becomes a record that no packet matches, the second one whose first command is
  the beginning of the line, which is refused.)
- Spelling of addresses: `Config.txt` must use the form `inet_ntop` writes, or a
  record never matches.
- The memory of containers that threads share without a lock, and what `cleanUp`
  frees while they run: undefined, with no outcome worth listing.
- SIGCHLD, which the controller handles and never receives: it has no children.
- A record of the configuration without `retry` or `drop`, or with several: no
  document says that it is legal.  (By reading: the packet stays in
  `elevationPackets` for ever, or is resent empty.)

## 6. Plan

Done: every part with logic of its own, and the proofs above.

Next, in this order:

1. A composition of `HostDb` and `Session`: the numbering across reconnections,
   with the agent's `lastProcessedSeqNum` of the new connection.
2. Records without an answer, in `Session`.
3. The parsing of `ConfigFile`, proved for every line of the form of `Config.txt`, in
   place of the hypothesis `LinesReadAsMeant`.
