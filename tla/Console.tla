------------------------------ MODULE Console ------------------------------
(***************************************************************************)
(* The commands users give: the console thread, which reads lines, and the *)
(* handler threads, which take the lines of the record of an elevated      *)
(* packet, hand each to processCmd.  It refuses the line, reads a file of  *)
(* more lines (processCmd calls itself for these), ends the controller, or *)
(* sends a message, which the agent decodes and executes.                  *)
(*                                                                         *)
(* A line is the sequence of its words.  The C++ stack of a thread is the  *)
(* sequence of the loops it is in: each is the lines it has still to       *)
(* handle.  A command is checked, numbered and sent in one step, and hosts *)
(* neither come nor go: HostDb and Session model what happens in between.  *)
(*                                                                         *)
(* A definition named X_Slip is X with a mistake a programmer could make;  *)
(* nothing uses it: it is what a property is expected to notice.           *)
(***************************************************************************)
EXTENDS Handlers, FiniteSets

CONSTANTS
  Hosts,        \* the hosts in hostDb
  Connected,    \* those that are connected
  Elevating,    \* those that elevate a packet
  Terminal,     \* the console thread
  Lines,        \* lines a user types
  Records,      \* commands of the records of the configuration, <<>> without one
  Files,        \* names of files with lines
  Contents,     \* [Files -> the lines]
  MaxTyped,     \* bound: lines typed
  MaxRepeated,  \* bound: turns of the console's loop after the end of the input
  MaxDepth      \* files that can be open inside each other before the stack overflows

ASSUME ConsoleAssumption ==
  /\ Elevating \subseteq Connected /\ Connected \subseteq Hosts /\ Terminal \notin Hosts
  /\ Lines \subseteq Seq(STRING)
  /\ Records \subseteq Seq(Seq(STRING))
  /\ Contents \in [Files -> Seq(Seq(STRING))]
  /\ MaxTyped \in Nat /\ MaxRepeated \in Nat /\ MaxDepth \in Nat \ {0}

\* What the agent's configuration does without a record is written in the code; the
\* provers have to be told that a literal is a string.
ASSUME DropAssumption == "drop" \in STRING

Threads == Elevating \cup {Terminal}

VARIABLES
  stack,      \* [Threads -> the loops it is in, the outermost first]
  input,      \* the console: "open", or "ended" after a line without a newline
  up,         \* the controller: "running", "exited" or "overflowed"
  seqNum,     \* [Hosts -> the number of the next command]
  wire,       \* [Hosts -> messages on the way to the agent]
  given,      \* history: [Threads -> lines typed, repeated or found in the record]
  handled,    \* history: [Threads -> the lines handled]
  sent,       \* history: [Hosts -> the messages sent]
  answered    \* history: [Hosts -> what the agent did with those it received]

history == <<given, handled, sent, answered>>
vars == <<stack, input, up, seqNum, wire, history>>

\* seqNum of a new hostInfo: 0 would be no command.
FirstNumber == 1

Init ==
  /\ stack = [t \in Threads |-> <<>>]
  /\ input = "open"
  /\ up = "running"
  /\ seqNum = [h \in Hosts |-> FirstNumber]
  /\ wire = [h \in Hosts |-> <<>>]
  /\ given = [t \in Threads |-> <<>>]
  /\ handled = [t \in Threads |-> <<>>]
  /\ sent = [h \in Hosts |-> <<>>]
  /\ answered = [h \in Hosts |-> <<>>]

-----------------------------------------------------------------------------
Idle(t) == up = "running" /\ stack[t] = <<>>
Give(t, lines) ==
  /\ stack' = [stack EXCEPT ![t] = <<lines>>]
  /\ given' = [given EXCEPT ![t] = @ \o lines]

\* getline(cin, input) in runCmd.
TypeLine(line) ==
  /\ Idle(Terminal)
  /\ input = "open"
  /\ Len(given[Terminal]) < MaxTyped
  /\ Give(Terminal, <<line>>)
  /\ input' \in {"open", "ended"}
  /\ UNCHANGED <<up, seqNum, wire, handled, sent, answered>>

\* After the end of the input getline fails and leaves the line that did not end
\* in a newline where it was: it is processed again, and again.
RepeatLine ==
  /\ Idle(Terminal)
  /\ input = "ended"
  /\ Len(given[Terminal]) < MaxTyped + MaxRepeated
  /\ Give(Terminal, <<given[Terminal][Len(given[Terminal])]>>)
  /\ UNCHANGED <<input, up, seqNum, wire, handled, sent, answered>>

\* processElevationRequest: without a record, the packet is to be dropped.
Elevate(h, record) ==
  /\ Idle(h)
  /\ given[h] = <<>>
  /\ Give(h, IF record = <<>> THEN << <<"drop">> >> ELSE record)
  /\ UNCHANGED <<input, up, seqNum, wire, handled, sent, answered>>

-----------------------------------------------------------------------------
(* processCmd *)

Depth(t) == Len(stack[t])
Ready(t) == up = "running" /\ Depth(t) > 0 /\ stack[t][Depth(t)] # <<>>
Line(t) == Head(stack[t][Depth(t)])
After(t) == [stack[t] EXCEPT ![Depth(t)] = Tail(@)]

\* The loop goes on to its next line; frames is the stack then.
Turn(t, frames) ==
  /\ stack' = [stack EXCEPT ![t] = frames]
  /\ handled' = [handled EXCEPT ![t] = Append(@, Line(t))]

\* processElevationRequest looks at the first word of the lines of the record,
\* but not of those in the files these name.
IsAnswer(t) ==
  /\ t # Terminal /\ Depth(t) = 1
  /\ Line(t) # <<>> /\ Head(Line(t)) \in {"retry", "drop"}

Transmit(h, m) ==
  /\ wire' = [wire EXCEPT ![h] = Append(@, Encode(m))]
  /\ sent' = [sent EXCEPT ![h] = Append(@, m)]

\* sendElevResp, for the one packet of this host; its destination is left out.
AnswerElevation(t) ==
  /\ Ready(t) /\ IsAnswer(t)
  /\ Turn(t, After(t))
  /\ Transmit(t, [seq |-> 0, ack |-> 1, elevId |-> 0, isAuthentication |-> FALSE,
                  isElev |-> TRUE, isError |-> FALSE, type |-> TypeNumber.NoType,
                  command |-> EnumCommand(Head(Line(t))), body |-> <<>>])
  /\ UNCHANGED <<input, up, seqNum, given, answered>>

Accepted_AnyCommand(line) ==
  /\ Len(line) >= 3
  /\ line[2] \in ValidTypes /\ line[3] \in Connected

\* Three words or more: a command is sent ...
Accepted(line) ==
  /\ Len(line) >= 3
  /\ line[1] \in ValidCommands /\ line[2] \in ValidTypes /\ line[3] \in Connected

IssueCommand(t) ==
  LET h == Line(t)[3] IN
  /\ Ready(t) /\ ~IsAnswer(t)
  /\ Accepted(Line(t))
  /\ Turn(t, After(t))
  /\ seqNum' = [seqNum EXCEPT ![h] = @ + 1]
  /\ Transmit(h, [seq |-> seqNum[h], ack |-> 0, elevId |-> 0, isAuthentication |-> FALSE,
                  isElev |-> FALSE, isError |-> FALSE, type |-> EnumType(Line(t)[2]),
                  command |-> EnumCommand(Line(t)[1]),
                  body |-> SubSeq(Line(t), 4, Len(Line(t)))])
  /\ UNCHANGED <<input, up, given, answered>>

\* ... or refused, as are other lines of one or two words; an empty line is not
\* even that.  The file that is named does not exist: an exception is caught.
Refuse(t) ==
  LET line == Line(t) IN
  /\ Ready(t) /\ ~IsAnswer(t)
  /\ \/ Len(line) >= 3 /\ ~Accepted(line)
     \/ Len(line) = 2 /\ (line[1] # "file" \/ line[2] \notin Files)
     \/ Len(line) = 1 /\ line # <<"exit">>
     \/ line = <<>>
  /\ Turn(t, After(t))
  /\ UNCHANGED <<input, up, seqNum, wire, given, sent, answered>>

NamesFile(t) ==
  /\ Ready(t) /\ ~IsAnswer(t)
  /\ Len(Line(t)) = 2 /\ Line(t)[1] = "file" /\ Line(t)[2] \in Files

ReadFile_OneVector(t) ==
  /\ NamesFile(t)
  /\ Depth(t) <= MaxDepth
  /\ Turn(t, Append(After(t), stack[t][Depth(t)] \o Contents[Line(t)[2]]))
  /\ UNCHANGED <<input, up, seqNum, wire, given, sent, answered>>

ReadFile_Instead(t) ==
  /\ NamesFile(t)
  /\ Depth(t) <= MaxDepth
  /\ Turn(t, [stack[t] EXCEPT ![Depth(t)] = Contents[Line(t)[2]]])
  /\ UNCHANGED <<input, up, seqNum, wire, given, sent, answered>>

\* readCommandsIntoVector, and the loop over the lines of the file.
ReadFile(t) ==
  /\ NamesFile(t)
  /\ Depth(t) <= MaxDepth
  /\ Turn(t, Append(After(t), Contents[Line(t)[2]]))
  /\ UNCHANGED <<input, up, seqNum, wire, given, sent, answered>>

\* Files that name each other: processCmd calls itself without end.
Overflow(t) ==
  /\ NamesFile(t)
  /\ Depth(t) > MaxDepth
  /\ up' = "overflowed"
  /\ UNCHANGED <<stack, input, seqNum, wire, history>>

\* exit(0), in whatever thread.
Exit(t) ==
  /\ Ready(t) /\ Line(t) = <<"exit">>
  /\ up' = "exited"
  /\ Turn(t, After(t))
  /\ UNCHANGED <<input, seqNum, wire, given, sent, answered>>

\* The end of a loop: the call of processCmd returns.
Return(t) ==
  /\ up = "running"
  /\ Depth(t) > 0 /\ stack[t][Depth(t)] = <<>>
  /\ stack' = [stack EXCEPT ![t] = SubSeq(@, 1, Depth(t) - 1)]
  /\ UNCHANGED <<input, up, seqNum, wire, history>>

-----------------------------------------------------------------------------
\* listenForCommands of the agent: handleElevationResponse or processCommand.
\* The response to a command says so if nothing could be executed.
Receive(h) ==
  /\ wire[h] # <<>>
  /\ LET m == Decode(Head(wire[h])) IN
     answered' = [answered EXCEPT ![h] = Append(@,
       [message |-> m, ran |-> IF m.seq = 0 THEN NotACommand ELSE Operation(m)])]
  /\ wire' = [wire EXCEPT ![h] = Tail(@)]
  /\ UNCHANGED <<stack, input, up, seqNum, given, handled, sent>>

ThreadStep(t) ==
  \/ AnswerElevation(t) \/ IssueCommand(t) \/ Refuse(t)
  \/ ReadFile(t) \/ Overflow(t) \/ Exit(t) \/ Return(t)

Next ==
  \/ \E line \in Lines : TypeLine(line)
  \/ RepeatLine
  \/ \E h \in Elevating, record \in Records : Elevate(h, record)
  \/ \E t \in Threads : ThreadStep(t)
  \/ \E h \in Hosts : Receive(h)

Spec == Init /\ [][Next]_vars

=============================================================================
