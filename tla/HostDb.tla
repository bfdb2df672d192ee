------------------------------- MODULE HostDb -------------------------------
(***************************************************************************)
(* How hosts come and go: the listener of the controller, the thread it    *)
(* starts for each authenticated connection, the threads that send         *)
(* commands, the record all of them share in hostDb, and the agents that   *)
(* connect, are answered and disappear.                                    *)
(*                                                                         *)
(* The record is read and written without a lock, except for the numbering *)
(* of commands and the listener's update of isConnected and sockfd, so     *)
(* every access is a step of its own.  operator[] of the map creates a     *)
(* record that is missing.  Commands are their numbers here and the other  *)
(* messages only make a handler go round its loop: Session models them.    *)
(*                                                                         *)
(* A definition named X_Slip is X with a mistake a programmer could make;  *)
(* nothing uses it: it is what a property is expected to notice.           *)
(***************************************************************************)
EXTENDS Naturals, Sequences, FiniteSets

CONSTANTS
  Hosts,         \* the hosts of the host file
  Senders,       \* threads that run processCmd: the console, other handlers
  MaxConns,      \* bound: connections made
  MaxCmds,       \* bound: commands numbered
  MaxInbox,      \* bound: messages of an agent not received yet
  Failures,      \* how an agent may go away: subset of {"fin", "rst", "silent"}
  ShortPackets   \* whether a packet too short for an IPv6 header is elevated

ASSUME HostDbAssumption ==
  /\ Hosts # {}
  /\ MaxConns \in Nat /\ MaxCmds \in Nat /\ MaxInbox \in Nat
  /\ Failures \subseteq {"fin", "rst", "silent"}
  /\ ShortPackets \in BOOLEAN

Conns == 1..MaxConns
NoFd == 0          \* what sockfd holds without a connection: standard input

VARIABLES
  hostDb,      \* [Hosts -> record]
  listener,    \* where runListener is, and the connection it works on
  handler,     \* [Conns -> where its processConnectedHost is]
  sender,      \* [Senders -> where its processCmd is]
  up,          \* the controller has not exited
  backlog,     \* connections not accepted yet
  conns,       \* [Conns -> who made the connection and how he is answered]
  peer,        \* [Conns -> what the kernel knows of the other end]
  inbox,       \* [Conns -> messages of the agent the kernel still has]
  agent,       \* [Hosts -> where the agent of the host is]
  issued,      \* history: how many commands were numbered
  sent,        \* history: the numbers sent on each connection
  raced,       \* history: hosts authenticated in the middle of a reset
  stale        \* history: hosts reset in the middle of a processCmd

controller == <<hostDb, listener, handler, sender>>
network == <<backlog, conns, peer, inbox>>
history == <<issued, sent, raced, stale>>
vars == <<controller, up, network, agent, history>>

\* hostInfo() and hostInfo(preSharedSecret); secret says whether it is there.
Blank == [present |-> TRUE, secret |-> FALSE, isConnected |-> FALSE,
          sockfd |-> NoFd, seqNum |-> 1]
Fresh == [Blank EXCEPT !.secret = TRUE]
Absent == [Blank EXCEPT !.present = FALSE]

\* hostDb[h]
Touched(h) == IF hostDb[h].present THEN hostDb[h] ELSE Blank
Update(h, rec) == hostDb' = [hostDb EXCEPT ![h] = rec]

Init ==
  /\ hostDb = [h \in Hosts |-> Fresh]
  /\ listener = [pc |-> "accept", conn |-> NoFd]
  /\ handler = [c \in Conns |-> [pc |-> "none", fd |-> NoFd, secret |-> FALSE]]
  /\ sender = [t \in Senders |-> [pc |-> "idle", host |-> CHOOSE h \in Hosts : TRUE,
                                  seq |-> 0]]
  /\ up = TRUE
  /\ backlog = <<>>
  /\ conns = [c \in Conns |-> [host |-> CHOOSE h \in Hosts : TRUE, good |-> FALSE,
                               request |-> FALSE, reply |-> "none"]]
  /\ peer = [c \in Conns |-> "none"]
  /\ inbox = [c \in Conns |-> 0]
  /\ agent = [h \in Hosts |-> [pc |-> "down", conn |-> NoFd]]
  /\ issued = 0
  /\ sent = [c \in Conns |-> <<>>]
  /\ raced = {}
  /\ stale = {}

-----------------------------------------------------------------------------
(* The kernel *)

\* send() on a connection.  The first one after the agent has gone is answered
\* with a reset or reports it; the next one raises SIGPIPE, which kills.
Send(c) ==
  /\ up' = (peer[c] # "broken")
  /\ peer' = [peer EXCEPT ![c] = IF @ \in {"fin", "rst"} THEN "broken" ELSE @]

\* recv() returns what is there, then 0, or -1 for a reset that no send() has
\* reported before.
Closed(c) == inbox[c] = 0 /\ peer[c] \in {"fin", "broken"}
Reset(c) == inbox[c] = 0 /\ peer[c] = "rst"

-----------------------------------------------------------------------------
(* The listener *)

At(pc) == up /\ listener.pc = pc
Goto(pc) == listener' = [listener EXCEPT !.pc = pc]
Guest == conns[listener.conn].host

\* The handler of an old connection of h is inside resetHostInfo.
InReset(h) ==
  \E c \in Conns : /\ conns[c].host = h
                   /\ handler[c].pc \in {"insert", "secret", "flag", "rest"}

ListenerAccept ==
  /\ At("accept")
  /\ backlog # <<>>
  /\ listener' = [pc |-> "recv", conn |-> Head(backlog)]
  /\ backlog' = Tail(backlog)
  /\ UNCHANGED <<hostDb, handler, sender, up, conns, peer, inbox, agent, history>>

\* authenticateHost waits for the request, without a time limit.
ListenerReceive ==
  /\ At("recv")
  /\ \/ /\ conns[listener.conn].request
        /\ Goto("count")
        /\ UNCHANGED up
     \/ /\ ~conns[listener.conn].request /\ Closed(listener.conn)
        /\ Goto("refuse")
        /\ UNCHANGED up
     \/ /\ ~conns[listener.conn].request /\ Reset(listener.conn)
        /\ up' = FALSE
        /\ UNCHANGED listener
  /\ UNCHANGED <<hostDb, handler, sender, network, agent, history>>

ListenerCount ==
  /\ At("count")
  /\ Goto(IF hostDb[Guest].present THEN "check" ELSE "refuse")
  /\ UNCHANGED <<hostDb, handler, sender, up, network, agent, history>>

ListenerCheck_Twice ==
  /\ At("check")
  /\ Update(Guest, Touched(Guest))
  /\ Goto("verify")
  /\ UNCHANGED <<handler, sender, up, network, agent, history>>

ListenerCheck ==
  /\ At("check")
  /\ Update(Guest, Touched(Guest))
  /\ Goto(IF Touched(Guest).isConnected THEN "refuse" ELSE "verify")
  /\ raced' = IF InReset(Guest) THEN raced \cup {Guest} ELSE raced
  /\ UNCHANGED <<handler, sender, up, network, agent, issued, sent, stale>>

ListenerVerify_AnySecret ==
  /\ At("verify")
  /\ Update(Guest, Touched(Guest))
  /\ Goto(IF Touched(Guest).secret THEN "admit" ELSE "refuse")
  /\ UNCHANGED <<handler, sender, up, network, agent, history>>

ListenerVerify ==
  /\ At("verify")
  /\ Update(Guest, Touched(Guest))
  /\ Goto(IF Touched(Guest).secret /\ conns[listener.conn].good THEN "admit" ELSE "refuse")
  /\ UNCHANGED <<handler, sender, up, network, agent, history>>

\* The authentication response.  A refused connection is left open.
ListenerReply ==
  /\ up
  /\ listener.pc \in {"admit", "refuse"}
  /\ Send(listener.conn)
  /\ LET yes == listener.pc = "admit" IN
     /\ conns' = [conns EXCEPT ![listener.conn].reply = IF yes THEN "yes" ELSE "no"]
     /\ Goto(IF yes THEN "connect" ELSE "accept")
  /\ UNCHANGED <<hostDb, handler, sender, backlog, inbox, agent, history>>

ListenerConnect_NoFlag ==
  /\ At("connect")
  /\ Update(Guest, Touched(Guest))
  /\ Goto("sockfd")
  /\ UNCHANGED <<handler, sender, up, network, agent, history>>

\* Under the write lock of the record: isConnected, then sockfd.
ListenerConnect ==
  /\ At("connect")
  /\ Update(Guest, [Touched(Guest) EXCEPT !.isConnected = TRUE])
  /\ Goto("sockfd")
  /\ UNCHANGED <<handler, sender, up, network, agent, history>>

ListenerSockfd ==
  /\ At("sockfd")
  /\ Update(Guest, [Touched(Guest) EXCEPT !.sockfd = listener.conn])
  /\ Goto("spawn")
  /\ UNCHANGED <<handler, sender, up, network, agent, history>>

ListenerSpawn ==
  /\ At("spawn")
  /\ Update(Guest, Touched(Guest))
  /\ handler' = [handler EXCEPT ![listener.conn].pc = "fetch"]
  /\ Goto("accept")
  /\ UNCHANGED <<sender, up, network, agent, history>>

-----------------------------------------------------------------------------
(* The thread of a connected host *)

HandlerAt(c, pc) == up /\ handler[c].pc = pc
Step(c, pc) == handler' = [handler EXCEPT ![c].pc = pc]

\* getNextMessageFromHost reads the record's sockfd for each message.
HandlerFetch(c) ==
  LET h == conns[c].host IN
  /\ HandlerAt(c, "fetch")
  /\ Update(h, Touched(h))
  /\ handler' = [handler EXCEPT ![c].pc = "recv", ![c].fd = Touched(h).sockfd]
  /\ UNCHANGED <<listener, sender, up, network, agent, history>>

\* A message is processed: a response; an elevated packet, to be answered; or
\* one of fewer than 24 bytes, for which processElevationRequest throws like
\* getNextMessageFromHost at the end of the connection.
HandlerMessage(c) ==
  LET fd == handler[c].fd IN
  /\ HandlerAt(c, "recv")
  /\ fd # NoFd
  /\ inbox[fd] > 0
  /\ inbox' = [inbox EXCEPT ![fd] = @ - 1]
  /\ \/ Step(c, "fetch")
     \/ Step(c, "answer")
     \/ ShortPackets /\ Step(c, "erase")
  /\ UNCHANGED <<hostDb, listener, sender, up, backlog, conns, peer, agent, history>>

\* sendElevResp.  The commands of the packet's record are those of a sender.
HandlerAnswer(c) ==
  LET h == conns[c].host
      fd == Touched(h).sockfd
  IN
  /\ HandlerAt(c, "answer")
  /\ Update(h, Touched(h))
  /\ Step(c, "fetch")
  /\ IF fd = NoFd THEN UNCHANGED <<up, peer>> ELSE Send(fd)
  /\ UNCHANGED <<listener, sender, backlog, conns, inbox, agent, history>>

HandlerClosed_NoReset(c) ==
  /\ HandlerAt(c, "recv")
  /\ handler[c].fd # NoFd /\ Closed(handler[c].fd)
  /\ Step(c, "gone")
  /\ UNCHANGED <<hostDb, listener, sender, up, network, agent, history>>

HandlerClosed_Exits(c) ==
  /\ HandlerAt(c, "recv")
  /\ handler[c].fd # NoFd /\ Closed(handler[c].fd)
  /\ up' = FALSE
  /\ UNCHANGED <<controller, network, agent, history>>

HandlerClosed(c) ==
  /\ HandlerAt(c, "recv")
  /\ handler[c].fd # NoFd /\ Closed(handler[c].fd)
  /\ Step(c, "erase")
  /\ UNCHANGED <<hostDb, listener, sender, up, network, agent, history>>

\* recv() fails, on a connection that was reset or on standard input: exit(1).
HandlerError(c) ==
  /\ HandlerAt(c, "recv")
  /\ handler[c].fd # NoFd => Reset(handler[c].fd)
  /\ up' = FALSE
  /\ UNCHANGED <<controller, network, agent, history>>

\* resetHostInfo: the secret is saved and the record erased ...
HandlerErase(c) ==
  LET h == conns[c].host IN
  /\ HandlerAt(c, "erase")
  /\ handler' = [handler EXCEPT ![c].pc = "insert", ![c].secret = Touched(h).secret]
  /\ Update(h, Absent)
  /\ stale' = IF \E t \in Senders : /\ sender[t].host = h
                                    /\ sender[t].pc \in {"checked", "numbered"}
              THEN stale \cup {h} ELSE stale
  /\ UNCHANGED <<listener, sender, up, network, agent, issued, sent, raced>>

\* ... operator[] makes another one ...
HandlerInsert(c) ==
  LET h == conns[c].host IN
  /\ HandlerAt(c, "insert")
  /\ Update(h, Touched(h))
  /\ Step(c, "secret")
  /\ UNCHANGED <<listener, sender, up, network, agent, history>>

\* ... and the assignment overwrites it, member by member.  The socket of the
\* old connection is not closed.
HandlerAssign(c) ==
  LET h == conns[c].host IN
  /\ up
  /\ \/ /\ handler[c].pc = "secret"
        /\ Update(h, [hostDb[h] EXCEPT !.secret = handler[c].secret])
        /\ Step(c, "flag")
     \/ /\ handler[c].pc = "flag"
        /\ Update(h, [hostDb[h] EXCEPT !.isConnected = FALSE])
        /\ Step(c, "rest")
     \/ /\ handler[c].pc = "rest"
        /\ Update(h, [hostDb[h] EXCEPT !.sockfd = NoFd, !.seqNum = 1])
        /\ Step(c, "gone")
  /\ UNCHANGED <<listener, sender, up, network, agent, history>>

-----------------------------------------------------------------------------
(* processCmd and sendCommand *)

SenderAt(t, pc) == up /\ sender[t].pc = pc

\* hostDb.count(host); a command refused here leaves nothing behind.
SenderCount(t, h) ==
  /\ SenderAt(t, "idle")
  /\ hostDb[h].present
  /\ sender' = [sender EXCEPT ![t].pc = "counted", ![t].host = h]
  /\ UNCHANGED <<hostDb, listener, handler, up, network, agent, history>>

SenderCheck(t) ==
  LET h == sender[t].host IN
  /\ SenderAt(t, "counted")
  /\ Update(h, Touched(h))
  /\ sender' = [sender EXCEPT
                  ![t].pc = IF Touched(h).isConnected THEN "checked" ELSE "idle"]
  /\ UNCHANGED <<listener, handler, up, network, agent, history>>

SenderNumber_NoIncrement(t) ==
  LET h == sender[t].host IN
  /\ SenderAt(t, "checked")
  /\ ~(listener.pc = "sockfd" /\ Guest = h)
  /\ Update(h, Touched(h))
  /\ sender' = [sender EXCEPT ![t].pc = "numbered", ![t].seq = Touched(h).seqNum]
  /\ issued' = issued + 1
  /\ UNCHANGED <<listener, handler, up, network, agent, sent, raced, stale>>

\* The command is numbered under the record's lock, which the listener has
\* between isConnected and sockfd.
SenderNumber(t) ==
  LET h == sender[t].host IN
  /\ SenderAt(t, "checked")
  /\ ~(listener.pc = "sockfd" /\ Guest = h)
  /\ Update(h, [Touched(h) EXCEPT !.seqNum = @ + 1])
  /\ sender' = [sender EXCEPT ![t].pc = "numbered", ![t].seq = Touched(h).seqNum]
  /\ issued' = issued + 1
  /\ UNCHANGED <<listener, handler, up, network, agent, sent, raced, stale>>

\* The command goes to the socket the record has now; standard input is none,
\* and the error is only reported.
SenderSend(t) ==
  LET h == sender[t].host
      fd == Touched(h).sockfd
  IN
  /\ SenderAt(t, "numbered")
  /\ Update(h, Touched(h))
  /\ sender' = [sender EXCEPT ![t].pc = "idle", ![t].seq = 0]
  /\ IF fd = NoFd
     THEN UNCHANGED <<up, peer, sent>>
     ELSE Send(fd) /\ sent' = [sent EXCEPT ![fd] = Append(@, sender[t].seq)]
  /\ UNCHANGED <<listener, handler, backlog, conns, inbox, agent, issued, raced, stale>>

-----------------------------------------------------------------------------
(* The agents *)

\* setupConnectionWithController, with the secret of the host file or another.
AgentConnect(h, good) ==
  /\ up
  /\ agent[h].pc = "down"
  /\ \E c \in Conns :
       /\ peer[c] = "none"
       /\ \A d \in Conns : d < c => peer[d] # "none"
       /\ conns' = [conns EXCEPT ![c] = [host |-> h, good |-> good,
                                         request |-> FALSE, reply |-> "none"]]
       /\ peer' = [peer EXCEPT ![c] = "open"]
       /\ backlog' = Append(backlog, c)
       /\ agent' = [agent EXCEPT ![h] = [pc |-> "connected", conn |-> c]]
  /\ UNCHANGED <<controller, up, inbox, history>>

\* requestAuthentication up to the wait for the response.
AgentRequest(h) ==
  /\ up
  /\ agent[h].pc = "connected"
  /\ conns' = [conns EXCEPT ![agent[h].conn].request = TRUE]
  /\ agent' = [agent EXCEPT ![h].pc = "waiting"]
  /\ UNCHANGED <<controller, up, backlog, peer, inbox, history>>

\* The response: the agent runs, or exits.
AgentAnswered(h) ==
  LET c == agent[h].conn IN
  /\ up
  /\ agent[h].pc = "waiting"
  /\ \/ /\ conns[c].reply = "yes"
        /\ agent' = [agent EXCEPT ![h].pc = "running"]
        /\ UNCHANGED peer
     \/ /\ conns[c].reply = "no"
        /\ agent' = [agent EXCEPT ![h] = [pc |-> "down", conn |-> NoFd]]
        /\ peer' = [peer EXCEPT ![c] = "fin"]
  /\ UNCHANGED <<controller, up, backlog, conns, inbox, history>>

\* A response to a command, or an elevated packet.
AgentMessage(h) ==
  LET c == agent[h].conn IN
  /\ up
  /\ agent[h].pc = "running"
  /\ inbox[c] < MaxInbox
  /\ inbox' = [inbox EXCEPT ![c] = @ + 1]
  /\ UNCHANGED <<controller, up, backlog, conns, peer, agent, history>>

\* The agent goes away: it exits with everything read ("fin") or with unread
\* data ("rst"), or its machine stops and the controller hears nothing.
AgentGone(h, how) ==
  /\ up
  /\ agent[h].pc # "down"
  /\ peer' = [peer EXCEPT ![agent[h].conn] = how]
  /\ agent' = [agent EXCEPT ![h] = [pc |-> "down", conn |-> NoFd]]
  /\ UNCHANGED <<controller, up, backlog, conns, inbox, history>>

-----------------------------------------------------------------------------
ListenerStep ==
  \/ ListenerAccept \/ ListenerReceive \/ ListenerCount \/ ListenerCheck
  \/ ListenerVerify \/ ListenerReply \/ ListenerConnect \/ ListenerSockfd
  \/ ListenerSpawn
HandlerStep(c) ==
  \/ HandlerFetch(c) \/ HandlerMessage(c) \/ HandlerAnswer(c) \/ HandlerClosed(c)
  \/ HandlerError(c) \/ HandlerErase(c) \/ HandlerInsert(c) \/ HandlerAssign(c)
SenderStep(t) == SenderCheck(t) \/ SenderNumber(t) \/ SenderSend(t)
AgentStep(h) == AgentRequest(h) \/ AgentAnswered(h)

\* Bound: commands numbered or about to be.
CommandInput ==
  \E t \in Senders, h \in Hosts :
    /\ issued + Cardinality({u \in Senders : sender[u].pc \in {"counted", "checked"}}) < MaxCmds
    /\ SenderCount(t, h)

Next ==
  \/ ListenerStep
  \/ \E c \in Conns : HandlerStep(c)
  \/ CommandInput
  \/ \E t \in Senders : SenderStep(t)
  \/ \E h \in Hosts, good \in BOOLEAN : AgentConnect(h, good)
  \/ \E h \in Hosts : AgentStep(h)
  \/ \E h \in Hosts : AgentMessage(h)
  \/ \E h \in Hosts, how \in Failures : AgentGone(h, how)

\* Threads and agents that can go on do so; nobody has to type, connect or fail.
Fairness ==
  /\ WF_vars(ListenerStep)
  /\ \A c \in Conns : WF_vars(HandlerStep(c))
  /\ \A t \in Senders : WF_vars(SenderStep(t))
  /\ \A h \in Hosts : WF_vars(AgentStep(h))

Spec == Init /\ [][Next]_vars /\ Fairness

=============================================================================
