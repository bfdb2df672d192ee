---------------------------- MODULE HostDbProofs ----------------------------
(***************************************************************************)
(* Proofs about HostDb, for any hosts, senders, connections and failures,  *)
(* and about Shutdown, which composes it with the end of the controller,   *)
(* for any number of descriptors and whatever SIGTERM interrupts.          *)
(***************************************************************************)
EXTENDS ShutdownProperties, FiniteSetTheorems, TLAPS

ListenerPcs == {"accept", "recv", "count", "check", "verify", "admit", "refuse",
                "connect", "sockfd", "spawn"}
Peers == {"none", "open", "broken", "fin", "rst", "silent"}

HandlerPcs == {"none", "fetch", "recv", "answer", "erase", "insert", "secret", "flag",
               "rest", "gone"}
Records == [present : BOOLEAN, secret : BOOLEAN, isConnected : BOOLEAN,
            sockfd : Conns \cup {NoFd}, seqNum : Nat]
Listeners == [pc : ListenerPcs, conn : Conns \cup {NoFd}]
Handlers == [pc : HandlerPcs, fd : Conns \cup {NoFd}, secret : BOOLEAN]
SenderStates == [pc : {"idle", "counted", "checked", "numbered"}, host : Hosts, seq : Nat]
ConnRecords == [host : Hosts, good : BOOLEAN, request : BOOLEAN,
                reply : {"none", "yes", "no"}]

\* The types of what the admission of a connection depends on.
Shape ==
  /\ hostDb \in [Hosts -> Records]
  /\ listener \in Listeners
  /\ listener.pc # "accept" => listener.conn \in Conns
  /\ handler \in [Conns -> Handlers]
  /\ sender \in [Senders -> SenderStates]
  /\ backlog \in Seq(Conns)
  /\ conns \in [Conns -> ConnRecords]
  /\ peer \in [Conns -> Peers]

\* Connection c was made, and no thread serves it.
Unserved(c) == peer[c] # "none" /\ handler[c].pc = "none"

\* What the listener has found out about its connection so far.
Admitted(c) == conns[c].good /\ conns[c].reply = "yes"
ListenerKnows ==
  LET c == listener.conn IN
  /\ listener.pc # "accept" => peer[c] # "none"
  /\ listener.pc \in {"recv", "count", "check", "verify", "admit", "refuse"}
       => handler[c].pc = "none"
  /\ listener.pc = "admit" => conns[c].good
  /\ listener.pc \in {"connect", "sockfd", "spawn"} => Admitted(c)

\* A connection is accepted once: those in the backlog are different ones, not
\* served, and not the one the listener is busy with.
BacklogFresh ==
  /\ \A i \in 1..Len(backlog) :
       /\ Unserved(backlog[i])
       /\ listener.pc # "accept" => backlog[i] # listener.conn
  /\ \A i, j \in 1..Len(backlog) : i # j => backlog[i] # backlog[j]

\* A connection that was not made is not served, so that making it takes no
\* admission back.
ServedAdmitted ==
  \A c \in Conns : handler[c].pc # "none" => peer[c] # "none" /\ Admitted(c)

Admission == ListenerKnows /\ BacklogFresh /\ ServedAdmitted

-----------------------------------------------------------------------------
\* Senders, agents and threads at work do not take part in the admission.
Quiet ==
  /\ UNCHANGED <<listener, backlog>>
  /\ \A c \in Conns : /\ handler[c].pc = "none" <=> handler'[c].pc = "none"
                      /\ peer[c] # "none" => peer'[c] # "none"
                      /\ conns'[c].good = conns[c].good
                      /\ conns'[c].reply = conns[c].reply

\* Quiet steps leave the invariant alone.
LEMMA QuietStep ==
  ASSUME Shape, Admission, Quiet
  PROVE  Admission'
<1>1. \A i \in 1..Len(backlog) : backlog[i] \in Conns
  BY DEF Shape
<1>2. \A c \in Conns : Unserved(c) => Unserved(c)'
  BY DEF Quiet, Unserved
<1>3. \A c \in Conns : Admitted(c) => Admitted(c)'
  BY DEF Quiet, Admitted
<1>4. ListenerKnows'
  BY <1>3 DEF Shape, Admission, ListenerKnows, Quiet
<1>5. BacklogFresh'
  BY <1>1, <1>2 DEF Admission, BacklogFresh, Quiet
<1>6. ServedAdmitted'
  BY <1>3 DEF Admission, ServedAdmitted, Quiet
<1> QED BY <1>4, <1>5, <1>6 DEF Admission

\* send() makes no connection and forgets none.
LEMMA SendKeepsPeers ==
  ASSUME Shape, NEW c, Send(c)
  PROVE  /\ peer' \in [Conns -> Peers]
         /\ \A d \in Conns : peer[d] = "none" <=> peer'[d] = "none"
BY DEF Shape, Send, Peers

\* The initial state.
LEMMA InitAdmission == Init => Shape /\ Admission
<1> SUFFICES ASSUME Init PROVE Shape /\ Admission
  OBVIOUS
<1>1. (CHOOSE h \in Hosts : TRUE) \in Hosts
  BY HostDbAssumption
<1>2. Shape
  <2>1. hostDb \in [Hosts -> Records]
    <3>1. Fresh \in Records
      BY DEF Fresh, Blank, Records
    <3> QED BY <3>1 DEF Init
  <2>2. listener \in Listeners /\ (listener.pc # "accept" => listener.conn \in Conns)
    BY DEF Init, Listeners, ListenerPcs
  <2>3. handler \in [Conns -> Handlers]
    BY DEF Init, Handlers, HandlerPcs
  <2>4. sender \in [Senders -> SenderStates]
    BY <1>1 DEF Init, SenderStates
  <2>5. conns \in [Conns -> ConnRecords]
    BY <1>1 DEF Init, ConnRecords
  <2>6. backlog \in Seq(Conns) /\ peer \in [Conns -> Peers]
    BY DEF Init, Peers
  <2> QED BY <2>1, <2>2, <2>3, <2>4, <2>5, <2>6 DEF Shape
<1>3. Admission
  BY DEF Init, Admission, ListenerKnows, BacklogFresh, ServedAdmitted
<1> QED BY <1>2, <1>3

-----------------------------------------------------------------------------
(* Every step keeps the types *)

\* hostDb[h] is a record, be it there or made, and remains one with other values.
LEMMA TouchedType ==
  ASSUME Shape, NEW h \in Hosts
  PROVE  Touched(h) \in Records
BY DEF Shape, Touched, Blank, Records

LEMMA UpdateType ==
  ASSUME Shape, NEW h \in Hosts, NEW rec \in Records, Update(h, rec)
  PROVE  hostDb' \in [Hosts -> Records]
BY DEF Shape, Update, Records

\* The host whose connection the listener has is one of the hosts.
LEMMA GuestType ==
  ASSUME Shape, listener.pc # "accept"
  PROVE  listener.conn \in Conns /\ Guest \in Hosts
BY DEF Shape, Guest, ConnRecords

\* Goto and Step change a place, and nothing else.
LEMMA GotoType ==
  ASSUME Shape, listener.pc # "accept", NEW pc \in ListenerPcs, Goto(pc)
  PROVE  /\ listener' \in Listeners
         /\ listener'.conn = listener.conn /\ listener'.conn \in Conns
         /\ listener'.pc = pc
BY DEF Shape, Goto, Listeners

LEMMA StepType ==
  ASSUME Shape, NEW c \in Conns, NEW pc \in HandlerPcs, Step(c, pc)
  PROVE  /\ handler' \in [Conns -> Handlers]
         /\ handler'[c].pc = pc
         /\ \A d \in Conns \ {c} : handler'[d] = handler[d]
BY DEF Shape, Step, Handlers

LEMMA ListenerShape ==
  ASSUME Shape, ListenerStep
  PROVE  Shape'
<1> USE DEF ListenerPcs
<1>1. CASE ListenerAccept
  <2>1. /\ listener'.conn \in Conns /\ listener' \in Listeners
        /\ backlog' \in Seq(Conns)
    BY <1>1 DEF Shape, ListenerAccept, Listeners
  <2> QED BY <1>1, <2>1 DEF Shape, ListenerAccept
<1>2. CASE ListenerReceive
  <2>1. listener' \in Listeners /\ listener'.conn \in Conns
    BY <1>2, GotoType DEF ListenerReceive, At, Shape
  <2> QED BY <1>2, <2>1 DEF Shape, ListenerReceive, network
<1>3. CASE ListenerCount
  <2>1. listener' \in Listeners /\ listener'.conn \in Conns
    BY <1>3, GotoType DEF ListenerCount, At
  <2> QED BY <1>3, <2>1 DEF Shape, ListenerCount, network
<1>4. CASE ListenerCheck
  <2>1. hostDb' \in [Hosts -> Records]
    BY <1>4, GuestType, TouchedType, UpdateType DEF ListenerCheck, At
  <2>2. listener' \in Listeners /\ listener'.conn \in Conns
    BY <1>4, GotoType DEF ListenerCheck, At
  <2> QED BY <1>4, <2>1, <2>2 DEF Shape, ListenerCheck, network
<1>5. CASE ListenerVerify
  <2>1. hostDb' \in [Hosts -> Records]
    BY <1>5, GuestType, TouchedType, UpdateType DEF ListenerVerify, At
  <2>2. listener' \in Listeners /\ listener'.conn \in Conns
    BY <1>5, GotoType DEF ListenerVerify, At
  <2> QED BY <1>5, <2>1, <2>2 DEF Shape, ListenerVerify, network
<1>6. CASE ListenerReply
  <2>1. peer' \in [Conns -> Peers]
    BY <1>6, SendKeepsPeers DEF ListenerReply
  <2>2. PICK r \in {"yes", "no"} : conns' = [conns EXCEPT ![listener.conn].reply = r]
    BY <1>6 DEF ListenerReply
  <2>3. conns' \in [Conns -> ConnRecords]
    BY <2>2 DEF Shape, ConnRecords
  <2>4. listener' \in Listeners /\ listener'.conn \in Conns
    BY <1>6, GotoType DEF ListenerReply
  <2> QED BY <1>6, <2>1, <2>3, <2>4 DEF Shape, ListenerReply
<1>7. CASE ListenerConnect
  <2>1. [Touched(Guest) EXCEPT !.isConnected = TRUE] \in Records
    BY <1>7, GuestType, TouchedType DEF ListenerConnect, At, Records
  <2>2. hostDb' \in [Hosts -> Records]
    BY <1>7, <2>1, GuestType, UpdateType DEF ListenerConnect, At
  <2>3. listener' \in Listeners /\ listener'.conn \in Conns
    BY <1>7, GotoType DEF ListenerConnect, At
  <2> QED BY <1>7, <2>2, <2>3 DEF Shape, ListenerConnect, network
<1>8. CASE ListenerSockfd
  <2>1. [Touched(Guest) EXCEPT !.sockfd = listener.conn] \in Records
    BY <1>8, GuestType, TouchedType DEF ListenerSockfd, At, Records
  <2>2. hostDb' \in [Hosts -> Records]
    BY <1>8, <2>1, GuestType, UpdateType DEF ListenerSockfd, At
  <2>3. listener' \in Listeners /\ listener'.conn \in Conns
    BY <1>8, GotoType DEF ListenerSockfd, At
  <2> QED BY <1>8, <2>2, <2>3 DEF Shape, ListenerSockfd, network
<1>9. CASE ListenerSpawn
  <2>1. hostDb' \in [Hosts -> Records]
    BY <1>9, GuestType, TouchedType, UpdateType DEF ListenerSpawn, At
  <2>2. listener' \in Listeners /\ listener'.conn \in Conns
    BY <1>9, GotoType DEF ListenerSpawn, At
  <2>3. handler' \in [Conns -> Handlers]
    BY <1>9 DEF Shape, ListenerSpawn, Handlers, HandlerPcs
  <2> QED BY <1>9, <2>1, <2>2, <2>3 DEF Shape, ListenerSpawn, network
<1> QED BY <1>1, <1>2, <1>3, <1>4, <1>5, <1>6, <1>7, <1>8, <1>9 DEF ListenerStep

LEMMA HandlerShape ==
  ASSUME Shape, NEW c \in Conns, HandlerStep(c)
  PROVE  Shape'
<1> USE DEF HandlerPcs
<1> DEFINE h == conns[c].host
<1>0. h \in Hosts /\ Touched(h) \in Records
  BY TouchedType DEF Shape, ConnRecords
<1>1. CASE HandlerFetch(c)
  <2>1. hostDb' \in [Hosts -> Records]
    BY <1>1, <1>0, UpdateType DEF HandlerFetch
  <2>2. Touched(h).sockfd \in Conns \cup {NoFd}
    BY <1>0 DEF Records
  <2>3. handler' \in [Conns -> Handlers]
    BY <1>1, <2>2 DEF Shape, HandlerFetch, Handlers
  <2> QED BY <1>1, <2>1, <2>3 DEF Shape, HandlerFetch, network
<1>2. CASE HandlerMessage(c)
  <2>1. handler' \in [Conns -> Handlers]
    BY <1>2, StepType DEF HandlerMessage
  <2> QED BY <1>2, <2>1 DEF Shape, HandlerMessage
<1>3. CASE HandlerAnswer(c)
  <2>1. hostDb' \in [Hosts -> Records]
    BY <1>3, <1>0, UpdateType DEF HandlerAnswer
  <2>2. peer' \in [Conns -> Peers]
    BY <1>3, SendKeepsPeers DEF HandlerAnswer, Shape
  <2>3. handler' \in [Conns -> Handlers]
    BY <1>3, StepType DEF HandlerAnswer
  <2> QED BY <1>3, <2>1, <2>2, <2>3 DEF Shape, HandlerAnswer
<1>4. CASE HandlerClosed(c)
  <2>1. handler' \in [Conns -> Handlers]
    BY <1>4, StepType DEF HandlerClosed
  <2> QED BY <1>4, <2>1 DEF Shape, HandlerClosed, network
<1>5. CASE HandlerError(c)
  BY <1>5 DEF Shape, HandlerError, controller, network
<1>6. CASE HandlerErase(c)
  <2>1. Absent \in Records
    BY DEF Absent, Blank, Records
  <2>2. hostDb' \in [Hosts -> Records]
    BY <1>6, <1>0, <2>1, UpdateType DEF HandlerErase
  <2>3. Touched(h).secret \in BOOLEAN
    BY <1>0 DEF Records
  <2>4. handler' \in [Conns -> Handlers]
    BY <1>6, <2>3 DEF Shape, HandlerErase, Handlers
  <2> QED BY <1>6, <2>2, <2>4 DEF Shape, HandlerErase, network
<1>7. CASE HandlerInsert(c)
  <2>1. hostDb' \in [Hosts -> Records]
    BY <1>7, <1>0, UpdateType DEF HandlerInsert
  <2>2. handler' \in [Conns -> Handlers]
    BY <1>7, StepType DEF HandlerInsert
  <2> QED BY <1>7, <2>1, <2>2 DEF Shape, HandlerInsert, network
<1>8. CASE HandlerAssign(c)
  <2>1. hostDb[h] \in Records /\ handler[c].secret \in BOOLEAN
    BY <1>0 DEF Shape, Handlers
  <2>2. /\ [hostDb[h] EXCEPT !.secret = handler[c].secret] \in Records
        /\ [hostDb[h] EXCEPT !.isConnected = FALSE] \in Records
        /\ [hostDb[h] EXCEPT !.sockfd = NoFd, !.seqNum = 1] \in Records
    BY <2>1 DEF Records
  <2>3. hostDb' \in [Hosts -> Records]
    BY <1>8, <1>0, <2>2, UpdateType DEF HandlerAssign
  <2>4. handler' \in [Conns -> Handlers]
    BY <1>8, StepType DEF HandlerAssign
  <2> QED BY <1>8, <2>3, <2>4 DEF Shape, HandlerAssign, network
<1> QED BY <1>1, <1>2, <1>3, <1>4, <1>5, <1>6, <1>7, <1>8 DEF HandlerStep

LEMMA SenderShape ==
  ASSUME Shape, NEW t \in Senders,
         SenderStep(t) \/ \E h \in Hosts : SenderCount(t, h)
  PROVE  Shape'
<1> DEFINE h == sender[t].host
<1>0. h \in Hosts /\ Touched(h) \in Records
  BY TouchedType DEF Shape, SenderStates
<1>1. ASSUME NEW g \in Hosts, SenderCount(t, g) PROVE Shape'
  <2>1. sender' \in [Senders -> SenderStates]
    <3> HIDE DEF h
    <3>1. [sender[t] EXCEPT !.pc = "counted", !.host = g] \in SenderStates
      BY DEF Shape, SenderStates
    <3>2. sender' = [sender EXCEPT ![t] = [sender[t] EXCEPT !.pc = "counted", !.host = g]]
      BY <1>1 DEF Shape, SenderCount, SenderStates
    <3> QED BY <3>1, <3>2 DEF Shape
  <2> QED BY <1>1, <2>1 DEF Shape, SenderCount, network
<1>2. CASE SenderCheck(t)
  <2>1. hostDb' \in [Hosts -> Records]
    BY <1>2, <1>0, UpdateType DEF SenderCheck
  <2>2. sender' \in [Senders -> SenderStates]
    BY <1>2 DEF Shape, SenderCheck, SenderStates
  <2> QED BY <1>2, <2>1, <2>2 DEF Shape, SenderCheck, network
<1>3. CASE SenderNumber(t)
  <2>1. Touched(h).seqNum \in Nat
    BY <1>0 DEF Records
  <2>2. [Touched(h) EXCEPT !.seqNum = @ + 1] \in Records
    BY <1>0, <2>1 DEF Records
  <2>3. hostDb' \in [Hosts -> Records]
    BY <1>3, <1>0, <2>2, UpdateType DEF SenderNumber
  <2>4. sender' \in [Senders -> SenderStates]
    BY <1>3, <2>1 DEF Shape, SenderNumber, SenderStates
  <2> QED BY <1>3, <2>3, <2>4 DEF Shape, SenderNumber, network
<1>4. CASE SenderSend(t)
  <2>1. hostDb' \in [Hosts -> Records]
    BY <1>4, <1>0, UpdateType DEF SenderSend
  <2>2. peer' \in [Conns -> Peers]
    BY <1>4, SendKeepsPeers DEF SenderSend, Shape
  <2>3. sender' \in [Senders -> SenderStates]
    BY <1>4 DEF Shape, SenderSend, SenderStates
  <2> QED BY <1>4, <2>1, <2>2, <2>3 DEF Shape, SenderSend
<1> QED BY <1>1, <1>2, <1>3, <1>4 DEF SenderStep

\* The agents make connections, ask, send and go away.
AgentActs(h) ==
  \/ \E good \in BOOLEAN : AgentConnect(h, good)
  \/ AgentStep(h)
  \/ AgentMessage(h)
  \/ \E how \in Failures : AgentGone(h, how)

LEMMA AgentShape ==
  ASSUME Shape, NEW h \in Hosts, AgentActs(h)
  PROVE  Shape'
<1>1. ASSUME NEW good \in BOOLEAN, AgentConnect(h, good) PROVE Shape'
  <2>1. PICK c \in Conns :
          /\ conns' = [conns EXCEPT ![c] = [host |-> h, good |-> good,
                                            request |-> FALSE, reply |-> "none"]]
          /\ peer' = [peer EXCEPT ![c] = "open"]
          /\ backlog' = Append(backlog, c)
    BY <1>1 DEF AgentConnect
  <2>2. conns' \in [Conns -> ConnRecords]
    BY <2>1 DEF Shape, ConnRecords
  <2>3. peer' \in [Conns -> Peers] /\ backlog' \in Seq(Conns)
    BY <2>1 DEF Shape, Peers
  <2> QED BY <1>1, <2>2, <2>3 DEF Shape, AgentConnect, controller
<1>2. CASE AgentRequest(h)
  <2>1. conns' \in [Conns -> ConnRecords]
    BY <1>2 DEF Shape, AgentRequest, ConnRecords
  <2> QED BY <1>2, <2>1 DEF Shape, AgentRequest, controller
<1>3. CASE AgentAnswered(h)
  <2>1. peer' \in [Conns -> Peers]
    BY <1>3 DEF Shape, AgentAnswered, Peers
  <2> QED BY <1>3, <2>1 DEF Shape, AgentAnswered, controller
<1>4. CASE AgentMessage(h)
  BY <1>4 DEF Shape, AgentMessage, controller
<1>5. ASSUME NEW how \in Failures, AgentGone(h, how) PROVE Shape'
  <2>1. peer' \in [Conns -> Peers]
    BY <1>5, HostDbAssumption DEF Shape, AgentGone, Peers
  <2> QED BY <1>5, <2>1 DEF Shape, AgentGone, controller
<1> QED BY <1>1, <1>2, <1>3, <1>4, <1>5 DEF AgentActs, AgentStep

-----------------------------------------------------------------------------
(* Every step keeps the admission *)

\* The listener goes on with the same connection and touches no thread.
LEMMA ListenerGoesOn ==
  ASSUME Shape, Admission, listener.pc # "accept",
         UNCHANGED <<handler, backlog, conns, peer>>, listener'.conn = listener.conn,
         ListenerKnows'
  PROVE  Admission'
BY DEF Shape, Admission, ListenerKnows, BacklogFresh, ServedAdmitted, Unserved, Admitted

LEMMA ListenerAdmission ==
  ASSUME Shape, Admission, ListenerStep
  PROVE  Admission'
<1> USE DEF ListenerPcs
<1>1. CASE ListenerAccept
  <2>1. /\ backlog \in Seq(Conns) /\ Len(backlog) > 0
        /\ backlog' = Tail(backlog) /\ listener'.conn = backlog[1] /\ listener'.pc = "recv"
        /\ UNCHANGED <<handler, conns, peer>>
    BY <1>1 DEF Shape, ListenerAccept
  <2>2. Unserved(backlog[1])
    BY <2>1 DEF Admission, BacklogFresh
  <2>3. ListenerKnows'
    BY <2>1, <2>2 DEF ListenerKnows, Unserved
  <2>4. \A i \in 1..Len(backlog') : i + 1 \in 1..Len(backlog) /\ backlog'[i] = backlog[i + 1]
    BY <2>1
  <2>5. BacklogFresh'
    BY <2>1, <2>4 DEF Admission, BacklogFresh, Unserved
  <2>6. ServedAdmitted'
    BY <2>1 DEF Admission, ServedAdmitted, Admitted
  <2> QED BY <2>3, <2>5, <2>6 DEF Admission
<1>2. CASE ListenerReceive
  <2>1. /\ listener.pc = "recv" /\ UNCHANGED <<handler, backlog, conns, peer>>
        /\ listener' = listener \/ \E pc \in {"count", "refuse"} : Goto(pc)
    BY <1>2 DEF ListenerReceive, At, network
  <2>2. listener'.conn = listener.conn /\ listener'.pc \in {"recv", "count", "refuse"}
    BY <2>1, GotoType
  <2>3. ListenerKnows'
    BY <2>1, <2>2 DEF Admission, ListenerKnows
  <2> QED BY <2>1, <2>2, <2>3, ListenerGoesOn
<1>3. CASE ListenerCount
  <2>1. listener.pc = "count" /\ UNCHANGED <<handler, backlog, conns, peer>>
    BY <1>3 DEF ListenerCount, At, network
  <2>2. listener'.conn = listener.conn /\ listener'.pc \in {"check", "refuse"}
    BY <1>3, <2>1, GotoType DEF ListenerCount
  <2>3. ListenerKnows'
    BY <2>1, <2>2 DEF Admission, ListenerKnows
  <2> QED BY <2>1, <2>2, <2>3, ListenerGoesOn
<1>4. CASE ListenerCheck
  <2>1. listener.pc = "check" /\ UNCHANGED <<handler, backlog, conns, peer>>
    BY <1>4 DEF ListenerCheck, At, network
  <2>2. listener'.conn = listener.conn /\ listener'.pc \in {"verify", "refuse"}
    BY <1>4, <2>1, GotoType DEF ListenerCheck
  <2>3. ListenerKnows'
    BY <2>1, <2>2 DEF Admission, ListenerKnows
  <2> QED BY <2>1, <2>2, <2>3, ListenerGoesOn
<1>5. CASE ListenerVerify
  <2>1. listener.pc = "verify" /\ UNCHANGED <<handler, backlog, conns, peer>>
    BY <1>5 DEF ListenerVerify, At, network
  <2>2. /\ listener'.conn = listener.conn
        /\ \/ listener'.pc = "admit" /\ conns[listener.conn].good
           \/ listener'.pc = "refuse"
    BY <1>5, <2>1, GotoType DEF ListenerVerify
  <2>3. ListenerKnows'
    BY <2>1, <2>2 DEF Admission, ListenerKnows
  <2> QED BY <2>1, <2>2, <2>3, ListenerGoesOn
<1>6. CASE ListenerReply
  <2> DEFINE c == listener.conn
  <2>1. /\ listener.pc \in {"admit", "refuse"} /\ UNCHANGED <<handler, backlog>>
        /\ Send(c)
        /\ conns' = [conns EXCEPT ![c].reply = IF listener.pc = "admit" THEN "yes" ELSE "no"]
        /\ listener' = [listener EXCEPT !.pc = IF listener.pc = "admit" THEN "connect"
                                                                        ELSE "accept"]
    BY <1>6 DEF ListenerReply, Goto
  <2>2. c \in Conns /\ handler[c].pc = "none" /\ peer[c] # "none"
        /\ (listener.pc = "admit" => conns[c].good)
    BY <2>1 DEF Shape, Admission, ListenerKnows
  <2>3. \A d \in Conns : peer[d] = "none" <=> peer'[d] = "none"
    BY <2>1, SendKeepsPeers
  <2>4. \A d \in Conns \ {c} : conns'[d] = conns[d]
    BY <2>1 DEF Shape
  <2>5. listener.pc = "admit" => conns'[c].good /\ conns'[c].reply = "yes"
    BY <2>1, <2>2 DEF Shape, ConnRecords
  <2>6. listener'.conn = c /\ listener'.pc = IF listener.pc = "admit" THEN "connect" ELSE "accept"
    BY <2>1 DEF Shape, Listeners
  <2> HIDE DEF c
  <2>7. ListenerKnows'
    BY <2>1, <2>2, <2>3, <2>5, <2>6 DEF ListenerKnows, Admitted
  <2>8. BacklogFresh'
    <3>1. \A i \in 1..Len(backlog) : backlog[i] \in Conns /\ backlog[i] # c
      BY <2>1 DEF c, Shape, Admission, BacklogFresh
    <3> QED BY <2>1, <2>3, <2>6, <3>1 DEF Admission, BacklogFresh, Unserved
  <2>9. ServedAdmitted'
    BY <2>1, <2>2, <2>3, <2>4 DEF Admission, ServedAdmitted, Admitted
  <2> QED BY <2>7, <2>8, <2>9 DEF Admission
<1>7. CASE ListenerConnect
  <2>1. listener.pc = "connect" /\ UNCHANGED <<handler, backlog, conns, peer>>
    BY <1>7 DEF ListenerConnect, At, network
  <2>2. listener'.conn = listener.conn /\ listener'.pc = "sockfd"
    BY <1>7, <2>1, GotoType DEF ListenerConnect
  <2>3. ListenerKnows'
    BY <2>1, <2>2 DEF Admission, ListenerKnows, Admitted
  <2> QED BY <2>1, <2>2, <2>3, ListenerGoesOn
<1>8. CASE ListenerSockfd
  <2>1. listener.pc = "sockfd" /\ UNCHANGED <<handler, backlog, conns, peer>>
    BY <1>8 DEF ListenerSockfd, At, network
  <2>2. listener'.conn = listener.conn /\ listener'.pc = "spawn"
    BY <1>8, <2>1, GotoType DEF ListenerSockfd
  <2>3. ListenerKnows'
    BY <2>1, <2>2 DEF Admission, ListenerKnows, Admitted
  <2> QED BY <2>1, <2>2, <2>3, ListenerGoesOn
<1>9. CASE ListenerSpawn
  <2> DEFINE c == listener.conn
  <2>1. /\ listener.pc = "spawn" /\ UNCHANGED <<backlog, conns, peer>>
        /\ handler' = [handler EXCEPT ![c].pc = "fetch"]
        /\ listener' = [listener EXCEPT !.pc = "accept"]
    BY <1>9 DEF ListenerSpawn, At, network, Goto
  <2>2. c \in Conns /\ Admitted(c) /\ peer[c] # "none"
    BY <2>1 DEF Shape, Admission, ListenerKnows
  <2>3. listener'.pc = "accept" /\ \A d \in Conns \ {c} : handler'[d] = handler[d]
    BY <2>1 DEF Shape, Listeners
  <2>4. ListenerKnows'
    BY <2>3 DEF ListenerKnows
  <2>5. BacklogFresh'
    <3>1. \A i \in 1..Len(backlog) : backlog[i] \in Conns \ {c}
      BY <2>1 DEF Shape, Admission, BacklogFresh
    <3> QED BY <2>1, <2>3, <3>1 DEF Admission, BacklogFresh, Unserved
  <2>6. ServedAdmitted'
    BY <2>1, <2>2, <2>3 DEF Admission, ServedAdmitted, Admitted
  <2> QED BY <2>4, <2>5, <2>6 DEF Admission
<1> QED BY <1>1, <1>2, <1>3, <1>4, <1>5, <1>6, <1>7, <1>8, <1>9 DEF ListenerStep

\* A thread touches its own place and the record of its host.
LEMMA HandlerTouches ==
  ASSUME Shape, NEW c \in Conns, HandlerStep(c)
  PROVE  /\ UNCHANGED <<listener, conns, backlog, raced, sender>>
         /\ handler[c].pc # "none" /\ handler'[c].pc # "none"
         /\ \A d \in Conns \ {c} : handler'[d] = handler[d]
         /\ \A h \in Hosts \ {conns[c].host} : hostDb'[h] = hostDb[h]
<1> USE DEF HandlerAt, HandlerPcs
<1> DEFINE g == conns[c].host
           Place == /\ handler[c].pc # "none" /\ handler'[c].pc # "none"
                    /\ \A d \in Conns \ {c} : handler'[d] = handler[d]
           Record == UNCHANGED hostDb \/ \E rec : Update(g, rec)
<1>1. UNCHANGED <<listener, conns, backlog, raced, sender>>
  BY DEF HandlerStep, HandlerFetch, HandlerMessage, HandlerAnswer, HandlerClosed, HandlerError,
         HandlerErase, HandlerInsert, HandlerAssign, controller, network, history
<1>2. Place
  <2>1. CASE HandlerFetch(c)
    BY <2>1 DEF HandlerFetch, Shape, Handlers
  <2>2. CASE HandlerMessage(c)
    BY <2>2, StepType DEF HandlerMessage
  <2>3. CASE HandlerAnswer(c)
    BY <2>3, StepType DEF HandlerAnswer
  <2>4. CASE HandlerClosed(c)
    BY <2>4, StepType DEF HandlerClosed
  <2>5. CASE HandlerError(c)
    BY <2>5 DEF HandlerError, controller
  <2>6. CASE HandlerErase(c)
    BY <2>6 DEF HandlerErase, Shape, Handlers
  <2>7. CASE HandlerInsert(c)
    BY <2>7, StepType DEF HandlerInsert
  <2>8. CASE HandlerAssign(c)
    BY <2>8, StepType DEF HandlerAssign
  <2> QED BY <2>1, <2>2, <2>3, <2>4, <2>5, <2>6, <2>7, <2>8 DEF HandlerStep
<1>3. Record
  BY DEF HandlerStep, HandlerFetch, HandlerMessage, HandlerAnswer, HandlerClosed, HandlerError,
         HandlerErase, HandlerInsert, HandlerAssign, controller
<1>4. \A h \in Hosts \ {g} : hostDb'[h] = hostDb[h]
  BY <1>3 DEF Update, Shape
<1> QED BY <1>1, <1>2, <1>4

\* A thread stays one that serves its connection.
LEMMA HandlerAdmission ==
  ASSUME Shape, Admission, NEW c \in Conns, HandlerStep(c)
  PROVE  Admission'
<1>1. /\ UNCHANGED <<listener, backlog, conns>>
      /\ handler[c].pc # "none" /\ handler'[c].pc # "none"
      /\ \A d \in Conns \ {c} : handler'[d] = handler[d]
  BY HandlerTouches
<1>2. \A d \in Conns : peer[d] = "none" <=> peer'[d] = "none"
  <2>1. UNCHANGED peer \/ \E fd : Send(fd)
    BY DEF HandlerStep, HandlerFetch, HandlerMessage, HandlerAnswer, HandlerClosed,
           HandlerError, HandlerErase, HandlerInsert, HandlerAssign, network
  <2> QED BY <2>1, SendKeepsPeers
<1> QED BY <1>1, <1>2, QuietStep DEF Quiet

LEMMA SenderAdmission ==
  ASSUME Shape, Admission, NEW t \in Senders,
         SenderStep(t) \/ \E h \in Hosts : SenderCount(t, h)
  PROVE  Admission'
<1>1. UNCHANGED <<listener, backlog, conns, handler>>
  BY DEF SenderStep, SenderCount, SenderCheck, SenderNumber, SenderSend, network
<1>2. UNCHANGED peer \/ \E fd : Send(fd)
  BY DEF SenderStep, SenderCount, SenderCheck, SenderNumber, SenderSend, network
<1>3. \A d \in Conns : peer[d] = "none" <=> peer'[d] = "none"
  BY <1>2, SendKeepsPeers
<1> QED BY <1>1, <1>3, QuietStep DEF Quiet

\* An agent makes a connection nobody knew; its other acts are quiet.
LEMMA AgentAdmission ==
  ASSUME Shape, Admission, NEW h \in Hosts, AgentActs(h)
  PROVE  Admission'
<1>1. ASSUME NEW good \in BOOLEAN, AgentConnect(h, good) PROVE Admission'
  <2>1. PICK c \in Conns :
          /\ peer[c] = "none"
          /\ conns' = [conns EXCEPT ![c] = [host |-> h, good |-> good,
                                            request |-> FALSE, reply |-> "none"]]
          /\ peer' = [peer EXCEPT ![c] = "open"]
          /\ backlog' = Append(backlog, c)
    BY <1>1 DEF AgentConnect
  <2>2. UNCHANGED <<listener, handler>>
    BY <1>1 DEF AgentConnect, controller
  <2>3. handler[c].pc = "none" /\ peer'[c] # "none"
    BY <2>1 DEF Shape, Admission, ServedAdmitted
  <2>4. \A d \in Conns \ {c} : conns'[d] = conns[d] /\ peer'[d] = peer[d]
    BY <2>1 DEF Shape
  <2>5. listener.pc # "accept" => listener.conn \in Conns \ {c}
    BY <2>1 DEF Shape, Admission, ListenerKnows
  <2>6. ListenerKnows'
    BY <2>2, <2>4, <2>5 DEF Admission, ListenerKnows, Admitted
  <2>7. BacklogFresh'
    <3>1. /\ backlog \in Seq(Conns) /\ Len(backlog') = Len(backlog) + 1
          /\ \A i \in 1..Len(backlog) : backlog'[i] = backlog[i]
          /\ backlog'[Len(backlog) + 1] = c
      BY <2>1 DEF Shape
    <3>2. \A i \in 1..Len(backlog) : backlog[i] \in Conns \ {c}
      BY <2>1, <3>1 DEF Admission, BacklogFresh, Unserved
    <3>3. \A i \in 1..Len(backlog') :
            \/ i \in 1..Len(backlog) /\ backlog'[i] = backlog[i]
            \/ i = Len(backlog) + 1 /\ backlog'[i] = c
      BY <3>1
    <3>4. \A i \in 1..Len(backlog') :
            /\ peer'[backlog'[i]] # "none" /\ handler'[backlog'[i]].pc = "none"
            /\ listener.pc # "accept" => backlog'[i] # listener.conn
      BY <2>2, <2>3, <2>4, <2>5, <3>2, <3>3 DEF Admission, BacklogFresh, Unserved
    <3>5. \A i, j \in 1..Len(backlog') : i # j => backlog'[i] # backlog'[j]
      BY <3>2, <3>3 DEF Admission, BacklogFresh
    <3> QED BY <2>2, <3>4, <3>5 DEF BacklogFresh, Unserved
  <2>8. ServedAdmitted'
    BY <2>2, <2>3, <2>4 DEF Admission, ServedAdmitted, Admitted
  <2> QED BY <2>6, <2>7, <2>8 DEF Admission
<1>2. CASE AgentRequest(h)
  BY <1>2, QuietStep DEF Quiet, AgentRequest, controller, Shape, ConnRecords
<1>3. CASE AgentAnswered(h)
  BY <1>3, QuietStep DEF Quiet, AgentAnswered, controller, Shape
<1>4. CASE AgentMessage(h)
  BY <1>4, QuietStep DEF Quiet, AgentMessage, controller
<1>5. ASSUME NEW how \in Failures, AgentGone(h, how) PROVE Admission'
  BY <1>5, HostDbAssumption, QuietStep DEF Quiet, AgentGone, controller, Shape
<1> QED BY <1>1, <1>2, <1>3, <1>4, <1>5 DEF AgentActs, AgentStep

-----------------------------------------------------------------------------
\* Who takes a step.
LEMMA NextIsSomeStep ==
  Next => \/ ListenerStep
          \/ \E c \in Conns : HandlerStep(c)
          \/ \E t \in Senders : SenderStep(t) \/ \E h \in Hosts : SenderCount(t, h)
          \/ \E h \in Hosts : AgentActs(h)
BY DEF Next, CommandInput, AgentActs

LEMMA NextAdmission == Shape /\ Admission /\ [Next]_vars => Shape' /\ Admission'
<1> SUFFICES ASSUME Shape, Admission, [Next]_vars PROVE Shape' /\ Admission'
  OBVIOUS
<1>1. CASE ListenerStep
  BY <1>1, ListenerShape, ListenerAdmission
<1>2. ASSUME NEW c \in Conns, HandlerStep(c) PROVE Shape' /\ Admission'
  BY <1>2, HandlerShape, HandlerAdmission
<1>3. ASSUME NEW t \in Senders, SenderStep(t) \/ \E h \in Hosts : SenderCount(t, h)
      PROVE  Shape' /\ Admission'
  BY <1>3, SenderShape, SenderAdmission
<1>4. ASSUME NEW h \in Hosts, AgentActs(h) PROVE Shape' /\ Admission'
  BY <1>4, AgentShape, AgentAdmission
<1>5. CASE UNCHANGED vars
  BY <1>5 DEF vars, controller, network, Shape, Admission, ListenerKnows, BacklogFresh,
              ServedAdmitted, Unserved, Admitted
<1> QED BY <1>1, <1>2, <1>3, <1>4, <1>5, NextIsSomeStep

\* Whatever the hosts, the senders, the connections and the failures, a thread
\* serves only connections whose agent gave the secret of its host and was told
\* it is admitted.
THEOREM AdmissionCorrect == Spec => []OnlyAdmittedAreServed
<1>1. Init => Shape /\ Admission
  BY InitAdmission
<1>2. Shape /\ Admission /\ [Next]_vars => Shape' /\ Admission'
  BY NextAdmission
<1>3. Admission => OnlyAdmittedAreServed
  BY DEF Admission, ServedAdmitted, Admitted, OnlyAdmittedAreServed
<1> QED BY <1>1, <1>2, <1>3, PTL DEF Spec

-----------------------------------------------------------------------------
(* The record agrees with the threads *)

\* Connection c is one of h, and its thread is at work or resets the record.
Serves(h, c) == conns[c].host = h /\ handler[c].pc \in {"fetch", "recv", "answer", "erase"}
Resets(h, c) == conns[c].host = h /\ handler[c].pc \in {"insert", "secret", "flag", "rest"}
Engages(h, c) == Serves(h, c) \/ Resets(h, c)
Idle(h) == \A c \in Conns : ~Engages(h, c)

\* The listener is at one of these places with a connection of h.
InHand(h, pcs) == listener.pc \in pcs /\ Guest = h

\* A host that was never authenticated in the middle of a reset goes round: it
\* is free, in the listener's hand, served by one thread, reset by this thread.
Agreement(h) ==
  /\ \A c, d \in Conns : Engages(h, c) /\ Engages(h, d) => c = d
  /\ InHand(h, {"verify", "admit", "connect"}) => ~hostDb[h].isConnected /\ Idle(h)
  /\ InHand(h, {"sockfd", "spawn"}) => hostDb[h].isConnected /\ Idle(h)
  /\ InHand(h, {"spawn"}) => hostDb[h].sockfd = listener.conn
  /\ \A c \in Conns : Serves(h, c) =>
       /\ hostDb[h].isConnected /\ hostDb[h].sockfd = c
       /\ handler[c].pc = "recv" => handler[c].fd = c
  /\ \A c \in Conns : Resets(h, c) => ~hostDb[h].isConnected
  /\ hostDb[h].isConnected =>
       InHand(h, {"sockfd", "spawn"}) \/ \E c \in Conns : Serves(h, c)

AbsentInv == \A h \in Hosts : ~hostDb[h].present => ~hostDb[h].isConnected

AgreementInv == AbsentInv /\ \A h \in Hosts \ raced : Agreement(h)

\* A step that neither connects h nor moves its thread from one phase to the
\* next leaves the agreement alone.
LEMMA AgreementFrame ==
  ASSUME NEW h \in Hosts, Agreement(h),
         hostDb'[h].isConnected = hostDb[h].isConnected,
         hostDb[h].isConnected => hostDb'[h].sockfd = hostDb[h].sockfd,
         \A c \in Conns : Serves(h, c)' <=> Serves(h, c),
         \A c \in Conns : Resets(h, c)' <=> Resets(h, c),
         \A c \in Conns : Serves(h, c) /\ handler'[c].pc = "recv" => handler'[c].fd = c,
         InHand(h, {"verify", "admit", "connect"})' => InHand(h, {"verify", "admit", "connect"}),
         InHand(h, {"sockfd", "spawn"})' <=> InHand(h, {"sockfd", "spawn"}),
         InHand(h, {"spawn"})' => InHand(h, {"spawn"}) /\ listener'.conn = listener.conn
  PROVE  Agreement(h)'
<1>1. \A c \in Conns : Engages(h, c)' <=> Engages(h, c)
  BY DEF Engages
<1>2. Idle(h) => Idle(h)'
  BY <1>1 DEF Idle
<1>3. InHand(h, {"spawn"}) => InHand(h, {"sockfd", "spawn"})
  BY DEF InHand
<1> QED BY <1>1, <1>2, <1>3 DEF Agreement

\* Steps of threads and agents do not move the listener.
LEMMA InHandStays ==
  ASSUME Shape, Admission, NEW h \in Hosts, NEW pcs, UNCHANGED listener,
         \A c \in Conns : peer[c] # "none" => conns'[c].host = conns[c].host,
         "accept" \notin pcs
  PROVE  InHand(h, pcs)' <=> InHand(h, pcs)
BY DEF Shape, Admission, ListenerKnows, InHand, Guest

\* hostDb[g] keeps what the agreement is about, whether the record is there or made.
LEMMA TouchKeeps ==
  ASSUME Shape, AbsentInv, NEW g \in Hosts, NEW rec, Update(g, rec),
         rec.present, rec.isConnected = Touched(g).isConnected, rec.sockfd = Touched(g).sockfd
  PROVE  /\ \A h \in Hosts :
              /\ hostDb'[h].isConnected = hostDb[h].isConnected
              /\ hostDb[h].isConnected => hostDb'[h].sockfd = hostDb[h].sockfd
         /\ AbsentInv'
<1>1. hostDb' = [hostDb EXCEPT ![g] = rec] /\ hostDb \in [Hosts -> Records]
  BY DEF Shape, Update
<1>2. hostDb[g].isConnected \in BOOLEAN
  BY <1>1 DEF Records
<1>3. rec.isConnected = hostDb[g].isConnected
  BY <1>2 DEF Touched, Blank, AbsentInv
<1>4. hostDb[g].isConnected => rec.sockfd = hostDb[g].sockfd
  BY DEF Touched, AbsentInv
<1> QED BY <1>1, <1>3, <1>4 DEF AbsentInv

\* A record is there after operator[].
LEMMA TouchedPresent ==
  ASSUME Shape, NEW g \in Hosts
  PROVE  Touched(g).present
BY DEF Touched, Blank

\* No record that is absent is connected.
LEMMA HandlerAbsent ==
  ASSUME Shape, AbsentInv, NEW c \in Conns, HandlerStep(c)
  PROVE  AbsentInv'
<1> DEFINE g == conns[c].host
<1>0. g \in Hosts /\ hostDb \in [Hosts -> Records]
  BY DEF Shape, ConnRecords
<1>1. ASSUME Update(g, Touched(g)) PROVE AbsentInv'
  BY <1>0, <1>1, TouchKeeps, TouchedPresent
<1>2. CASE HandlerFetch(c) \/ HandlerAnswer(c) \/ HandlerInsert(c)
  BY <1>1, <1>2 DEF HandlerFetch, HandlerAnswer, HandlerInsert
<1>3. CASE HandlerMessage(c) \/ HandlerClosed(c) \/ HandlerError(c)
  BY <1>3 DEF HandlerMessage, HandlerClosed, HandlerError, AbsentInv, controller
<1>4. CASE HandlerErase(c)
  BY <1>0, <1>4 DEF HandlerErase, Update, Absent, Blank, AbsentInv
<1>5. CASE HandlerAssign(c)
  <2>1. ASSUME NEW s \in BOOLEAN
        PROVE  LET r == [hostDb[g] EXCEPT !.secret = s]
                   f == [hostDb[g] EXCEPT !.isConnected = FALSE]
                   n == [hostDb[g] EXCEPT !.sockfd = NoFd, !.seqNum = 1]
               IN  /\ r.present = hostDb[g].present /\ r.isConnected = hostDb[g].isConnected
                   /\ ~f.isConnected
                   /\ n.present = hostDb[g].present /\ n.isConnected = hostDb[g].isConnected
    BY <1>0 DEF Records
  <2>2. PICK rec : Update(g, rec) /\ (~rec.present => ~rec.isConnected)
    <3>1. handler[c].secret \in BOOLEAN
      BY DEF Shape, Handlers
    <3> QED BY <1>0, <1>5, <2>1, <3>1 DEF HandlerAssign, AbsentInv
  <2> QED BY <1>0, <2>2 DEF Update, AbsentInv
<1> QED BY <1>2, <1>3, <1>4, <1>5 DEF HandlerStep

\* A thread serves its connection, then resets the record: two phases of the round.
LEMMA HandlerAgreement ==
  ASSUME Shape, Admission, AgreementInv, NEW c \in Conns, HandlerStep(c),
         NEW h \in Hosts \ raced
  PROVE  Agreement(h)'
<1> DEFINE g == conns[c].host
<1>0. g \in Hosts /\ Agreement(h) /\ AbsentInv
  BY DEF Shape, ConnRecords, AgreementInv
<1>1. /\ UNCHANGED <<listener, conns>>
      /\ \A d \in Conns \ {c} : handler'[d] = handler[d]
      /\ \A k \in Hosts \ {g} : hostDb'[k] = hostDb[k]
  BY HandlerTouches
<1>2. \A pcs : InHand(h, pcs)' <=> InHand(h, pcs)
  BY <1>1 DEF InHand, Guest
<1>3. ASSUME hostDb'[h].isConnected = hostDb[h].isConnected,
             hostDb[h].isConnected => hostDb'[h].sockfd = hostDb[h].sockfd,
             Serves(h, c)' <=> Serves(h, c), Resets(h, c)' <=> Resets(h, c),
             Serves(h, c) /\ handler'[c].pc = "recv" => handler'[c].fd = c
      PROVE  Agreement(h)'
  <2>1. \A d \in Conns : (Serves(h, d)' <=> Serves(h, d)) /\ (Resets(h, d)' <=> Resets(h, d))
    BY <1>1, <1>3 DEF Serves, Resets
  <2>2. \A d \in Conns : Serves(h, d) /\ handler'[d].pc = "recv" => handler'[d].fd = d
    BY <1>0, <1>1, <1>3 DEF Agreement
  <2> QED BY <1>0, <1>1, <1>2, <1>3, <2>1, <2>2, AgreementFrame
<1>4. CASE h # g
  \* Another host's thread.
  <2>1. hostDb'[h] = hostDb[h] /\ ~Serves(h, c) /\ ~Serves(h, c)' /\ ~Resets(h, c) /\ ~Resets(h, c)'
    BY <1>1, <1>4 DEF Serves, Resets
  <2> QED BY <1>3, <2>1
<1>5. CASE h = g
  <2> USE DEF HandlerAt
  <2>0. hostDb \in [Hosts -> Records] /\ handler \in [Conns -> Handlers]
    BY DEF Shape
  <2>1. CASE HandlerFetch(c)
    <3>1. Serves(h, c) /\ ~Resets(h, c)
      BY <2>1, <1>5 DEF HandlerFetch, Serves, Resets
    <3>2. hostDb[h].isConnected /\ hostDb[h].sockfd = c /\ hostDb[h].present
      BY <1>0, <3>1 DEF Agreement, AbsentInv
    <3>3. Touched(h) = hostDb[h]
      BY <3>2 DEF Touched
    <3>4. hostDb'[h] = hostDb[h]
      BY <2>0, <2>1, <1>5, <3>3 DEF HandlerFetch, Update
    <3>5. handler'[c].pc = "recv" /\ handler'[c].fd = c
      BY <2>0, <2>1, <1>5, <3>2, <3>3 DEF HandlerFetch, Handlers
    <3>6. Serves(h, c)' /\ ~Resets(h, c)'
      BY <1>1, <1>5, <3>5 DEF Serves, Resets
    <3> QED BY <1>3, <3>1, <3>4, <3>5, <3>6
  <2>2. CASE HandlerMessage(c) \/ HandlerClosed(c)
    <3>1. Serves(h, c) /\ ~Resets(h, c) /\ hostDb'[h] = hostDb[h]
      BY <2>2, <1>5 DEF HandlerMessage, HandlerClosed, Serves, Resets
    <3>2. handler'[c].pc \in {"fetch", "answer", "erase"}
      BY <2>2, StepType DEF HandlerMessage, HandlerClosed, HandlerPcs
    <3>3. Serves(h, c)' /\ ~Resets(h, c)'
      BY <1>1, <1>5, <3>2 DEF Serves, Resets
    <3> QED BY <1>3, <3>1, <3>2, <3>3
  <2>3. CASE HandlerAnswer(c) \/ HandlerInsert(c)
    <3>1. Update(h, Touched(h))
      BY <2>3, <1>5 DEF HandlerAnswer, HandlerInsert
    <3>2. /\ hostDb'[h].isConnected = hostDb[h].isConnected
          /\ hostDb[h].isConnected => hostDb'[h].sockfd = hostDb[h].sockfd
      BY <1>0, <3>1, TouchKeeps, TouchedPresent
    <3>3. \/ handler[c].pc = "answer" /\ handler'[c].pc = "fetch"
          \/ handler[c].pc = "insert" /\ handler'[c].pc = "secret"
      BY <2>3, StepType DEF HandlerAnswer, HandlerInsert, HandlerPcs
    <3>4. (Serves(h, c)' <=> Serves(h, c)) /\ (Resets(h, c)' <=> Resets(h, c))
      BY <1>1, <1>5, <3>3 DEF Serves, Resets
    <3> QED BY <1>3, <3>2, <3>3, <3>4
  <2>4. CASE HandlerError(c)
    <3>1. hostDb' = hostDb /\ handler' = handler
      BY <2>4 DEF HandlerError, controller
    <3>2. (Serves(h, c)' <=> Serves(h, c)) /\ (Resets(h, c)' <=> Resets(h, c))
      BY <1>1, <3>1 DEF Serves, Resets
    <3> QED BY <1>0, <1>3, <3>1, <3>2 DEF Agreement
  <2>5. CASE HandlerErase(c)
    \* The only thread of h goes over to the reset.
    <3>1. Serves(h, c)
      BY <2>5, <1>5 DEF HandlerErase, Serves
    <3>2. Engages(h, c)
      BY <3>1 DEF Engages
    <3>3. /\ \A d \in Conns : Engages(h, d) => d = c
          /\ \A pcs \in SUBSET {"verify", "admit", "connect", "sockfd", "spawn"} : ~InHand(h, pcs)
      BY <1>0, <3>2 DEF Agreement, Idle, InHand
    <3>4. ~hostDb'[h].isConnected
      BY <2>0, <2>5, <1>5 DEF HandlerErase, Update, Absent, Blank
    <3>5. handler'[c].pc = "insert"
      BY <2>0, <2>5 DEF HandlerErase, Handlers
    <3>6. Resets(h, c)' /\ ~Serves(h, c)'
      BY <1>1, <1>5, <3>5 DEF Serves, Resets
    <3>7. \A d \in Conns \ {c} : ~Serves(h, d)' /\ ~Resets(h, d)'
      BY <1>1, <3>3 DEF Serves, Resets, Engages
    <3>8. \A pcs \in SUBSET {"verify", "admit", "connect", "sockfd", "spawn"} : ~InHand(h, pcs)'
      BY <1>2, <3>3
    <3> QED BY <3>4, <3>6, <3>7, <3>8 DEF Agreement, Engages, Idle
  <2>6. CASE HandlerAssign(c)
    <3>1. Resets(h, c) /\ ~Serves(h, c)
      BY <2>6, <1>5 DEF HandlerAssign, Serves, Resets
    <3>2. ~hostDb[h].isConnected
      BY <1>0, <3>1 DEF Agreement
    <3>3. ~hostDb'[h].isConnected
      BY <2>0, <2>6, <1>5, <3>2 DEF HandlerAssign, Update, Records
    <3>4. hostDb'[h].isConnected = hostDb[h].isConnected
      <4>1. hostDb' \in [Hosts -> Records]
        BY HandlerShape DEF Shape
      <4> QED BY <2>0, <3>2, <3>3, <4>1 DEF Records
    <3>5. CASE handler'[c].pc \in {"flag", "rest"}
      <4>1. Resets(h, c)' /\ ~Serves(h, c)'
        BY <1>1, <1>5, <3>5 DEF Serves, Resets
      <4> QED BY <1>3, <3>1, <3>2, <3>4, <4>1
    <3>6. CASE handler'[c].pc = "gone"
      <4>1. Engages(h, c) /\ ~Engages(h, c)' /\ ~Serves(h, c)' /\ ~Resets(h, c)'
        BY <3>1, <3>6 DEF Engages, Serves, Resets
      <4>2. \A d \in Conns : ~Serves(h, d)' /\ ~Resets(h, d)' /\ ~Engages(h, d)'
        BY <1>0, <1>1, <4>1 DEF Agreement, Serves, Resets, Engages
      <4>3. \A pcs \in SUBSET {"verify", "admit", "connect", "sockfd", "spawn"} : ~InHand(h, pcs)'
        BY <1>0, <1>2, <4>1 DEF Agreement, Idle, InHand
      <4> QED BY <3>3, <4>2, <4>3 DEF Agreement, Idle
    <3>7. handler'[c].pc \in {"flag", "rest", "gone"}
      BY <2>6, StepType DEF HandlerAssign, HandlerPcs
    <3> QED BY <3>5, <3>6, <3>7
  <2> QED BY <2>1, <2>2, <2>3, <2>4, <2>5, <2>6 DEF HandlerStep
<1> QED BY <1>4, <1>5

\* Senders and agents leave the agreement alone.
LEMMA BystanderAgreement ==
  ASSUME Shape, Admission, AgreementInv, UNCHANGED <<listener, handler, raced>>, AbsentInv',
         \A c \in Conns : peer[c] # "none" => conns'[c].host = conns[c].host,
         \A h \in Hosts : /\ hostDb'[h].isConnected = hostDb[h].isConnected
                          /\ hostDb[h].isConnected => hostDb'[h].sockfd = hostDb[h].sockfd
  PROVE  AgreementInv'
<1> SUFFICES ASSUME NEW h \in Hosts \ raced PROVE Agreement(h)'
  BY DEF AgreementInv
<1>1. \A c \in Conns : (Serves(h, c)' <=> Serves(h, c)) /\ (Resets(h, c)' <=> Resets(h, c))
  BY DEF Serves, Resets, Admission, ServedAdmitted
<1>2. Agreement(h) /\ \A c \in Conns : Serves(h, c) /\ handler'[c].pc = "recv" => handler'[c].fd = c
  BY DEF AgreementInv, Agreement
<1>3. \A pcs \in SUBSET {"verify", "admit", "connect", "sockfd", "spawn"} :
        InHand(h, pcs)' <=> InHand(h, pcs)
  BY InHandStays
<1> QED BY <1>1, <1>2, <1>3, AgreementFrame

\* Senders, and below them agents, are bystanders.
LEMMA SenderAgreement ==
  ASSUME Shape, Admission, AgreementInv, NEW t \in Senders,
         SenderStep(t) \/ \E h \in Hosts : SenderCount(t, h)
  PROVE  AgreementInv'
<1> DEFINE g == sender[t].host
<1>1. UNCHANGED <<listener, conns, handler, raced>> /\ AbsentInv
  BY DEF SenderStep, SenderCount, SenderCheck, SenderNumber, SenderSend, network, history,
         AgreementInv
<1>2. g \in Hosts /\ Touched(g) \in Records
  BY TouchedType DEF Shape, SenderStates
<1>3. \/ UNCHANGED hostDb
      \/ Update(g, Touched(g))
      \/ Update(g, [Touched(g) EXCEPT !.seqNum = @ + 1])
  BY DEF SenderStep, SenderCount, SenderCheck, SenderNumber, SenderSend
<1>4. CASE UNCHANGED hostDb
  BY <1>1, <1>4, BystanderAgreement DEF AbsentInv
<1>5. CASE Update(g, Touched(g))
  BY <1>1, <1>2, <1>5, BystanderAgreement, TouchKeeps, TouchedPresent
<1>6. CASE Update(g, [Touched(g) EXCEPT !.seqNum = @ + 1])
  <2> DEFINE rec == [Touched(g) EXCEPT !.seqNum = @ + 1]
  <2>1. /\ rec.present /\ rec.isConnected = Touched(g).isConnected
        /\ rec.sockfd = Touched(g).sockfd
    BY <1>2, TouchedPresent DEF Records
  <2> HIDE DEF rec
  <2> QED BY <1>1, <1>2, <1>6, <2>1, BystanderAgreement, TouchKeeps DEF rec
<1> QED BY <1>3, <1>4, <1>5, <1>6

\* An agent's steps are its own.
LEMMA AgentTouches ==
  ASSUME Shape, NEW h \in Hosts, AgentActs(h)
  PROVE  /\ UNCHANGED <<listener, handler, sender, hostDb, sent, raced, stale>>
         /\ \A c \in Conns : peer[c] # "none" => conns'[c].host = conns[c].host
<1>1. UNCHANGED <<listener, handler, sender, hostDb, sent, raced, stale>>
  BY DEF AgentActs, AgentConnect, AgentStep, AgentRequest, AgentAnswered, AgentMessage,
         AgentGone, controller, history
<1>2. \A c \in Conns : peer[c] # "none" => conns'[c].host = conns[c].host
  <2>1. ASSUME NEW good \in BOOLEAN, AgentConnect(h, good),
               NEW c \in Conns, peer[c] # "none"
        PROVE  conns'[c] = conns[c]
    BY <2>1 DEF AgentConnect, Shape
  <2>2. CASE AgentRequest(h)
    BY <2>2 DEF AgentRequest, Shape, ConnRecords
  <2>3. CASE UNCHANGED conns
    BY <2>3
  <2> QED BY <2>1, <2>2, <2>3 DEF AgentActs, AgentStep, AgentAnswered, AgentMessage, AgentGone
<1> QED BY <1>1, <1>2

\* Agents too.
LEMMA AgentAgreement ==
  ASSUME Shape, Admission, AgreementInv, NEW h \in Hosts, AgentActs(h)
  PROVE  AgreementInv'
<1>1. /\ UNCHANGED <<listener, handler, raced, hostDb>>
      /\ \A c \in Conns : peer[c] # "none" => conns'[c].host = conns[c].host
  BY AgentTouches
<1>2. AbsentInv /\ AbsentInv'
  BY <1>1 DEF AgreementInv, AbsentInv
<1> QED BY <1>1, <1>2, BystanderAgreement

\* The listener touches the record of its guest and starts the thread of its
\* connection.
LEMMA ListenerTouches ==
  ASSUME Shape, ListenerStep
  PROVE  /\ \A d \in Conns : conns'[d].host = conns[d].host
         /\ \A d \in Conns \ {listener.conn} : handler'[d] = handler[d]
         /\ listener.pc # "accept" => listener'.conn = listener.conn
         /\ listener.pc # "accept" => \A h \in Hosts \ {Guest} : hostDb'[h] = hostDb[h]
         /\ raced \subseteq raced' /\ UNCHANGED sender
<1>1. UNCHANGED sender /\ raced \subseteq raced'
  BY DEF ListenerStep, ListenerAccept, ListenerReceive, ListenerCount, ListenerCheck,
         ListenerVerify, ListenerReply, ListenerConnect, ListenerSockfd, ListenerSpawn, history
<1>2. \A d \in Conns : conns'[d].host = conns[d].host
  BY DEF ListenerStep, ListenerAccept, ListenerReceive, ListenerCount, ListenerCheck,
         ListenerVerify, ListenerReply, ListenerConnect, ListenerSockfd, ListenerSpawn, network,
         Shape, ConnRecords
<1>3. \A d \in Conns \ {listener.conn} : handler'[d] = handler[d]
  <2>1. UNCHANGED handler \/ handler' = [handler EXCEPT ![listener.conn].pc = "fetch"]
    BY DEF ListenerStep, ListenerAccept, ListenerReceive, ListenerCount, ListenerCheck,
           ListenerVerify, ListenerReply, ListenerConnect, ListenerSockfd, ListenerSpawn
  <2> QED BY <2>1 DEF Shape
<1>4. listener.pc # "accept" => listener'.conn = listener.conn
  BY DEF ListenerStep, ListenerAccept, ListenerReceive, ListenerCount, ListenerCheck, At, Goto,
         ListenerVerify, ListenerReply, ListenerConnect, ListenerSockfd, ListenerSpawn, Shape,
         Listeners
<1>5. listener.pc # "accept" => UNCHANGED hostDb \/ \E rec : Update(Guest, rec)
  BY DEF ListenerStep, ListenerAccept, ListenerReceive, ListenerCount, ListenerCheck,
         ListenerVerify, ListenerReply, ListenerConnect, ListenerSockfd, ListenerSpawn
<1>6. listener.pc # "accept" => \A h \in Hosts \ {Guest} : hostDb'[h] = hostDb[h]
  BY <1>5 DEF Update, Shape
<1> QED BY <1>1, <1>2, <1>3, <1>4, <1>6

\* The listener connects no record that is absent.
LEMMA ListenerAbsent ==
  ASSUME Shape, AbsentInv, ListenerStep
  PROVE  AbsentInv'
<1> DEFINE g == Guest
<1>1. listener.pc # "accept" =>
        g \in Hosts /\ hostDb \in [Hosts -> Records] /\ Touched(g) \in Records
  BY GuestType, TouchedType DEF Shape
<1>2. CASE ListenerAccept \/ ListenerReceive \/ ListenerCount \/ ListenerReply
  BY <1>2 DEF ListenerAccept, ListenerReceive, ListenerCount, ListenerReply, AbsentInv
<1>3. CASE ListenerCheck \/ ListenerVerify \/ ListenerSpawn
  BY <1>1, <1>3, TouchKeeps, TouchedPresent DEF ListenerCheck, ListenerVerify, ListenerSpawn, At
<1>4. CASE ListenerConnect \/ ListenerSockfd
  BY <1>1, <1>4, TouchedPresent DEF ListenerConnect, ListenerSockfd, At, Update, AbsentInv, Records
<1> QED BY <1>2, <1>3, <1>4 DEF ListenerStep

\* The listener takes a host in hand, connects it and hands it to its thread.
LEMMA ListenerAgreement ==
  ASSUME Shape, Admission, AgreementInv, ListenerStep, NEW h \in Hosts \ raced'
  PROVE  Agreement(h)'
<1> DEFINE k == listener.conn
           Late == {"verify", "admit", "connect", "sockfd", "spawn"}
<1>1. /\ \A d \in Conns : conns'[d].host = conns[d].host
      /\ \A d \in Conns \ {k} : handler'[d] = handler[d]
      /\ listener.pc # "accept" => listener'.conn = k
      /\ listener.pc # "accept" => \A g \in Hosts \ {Guest} : hostDb'[g] = hostDb[g]
      /\ h \notin raced
  BY ListenerTouches
<1>2. Agreement(h) /\ AbsentInv
  BY <1>1 DEF AgreementInv
<1>3. hostDb \in [Hosts -> Records] /\ listener \in Listeners /\ handler \in [Conns -> Handlers]
  BY DEF Shape
\* All but the last step leave the threads alone.
<1>4. ASSUME UNCHANGED handler
      PROVE  /\ \A d \in Conns : Serves(h, d)' <=> Serves(h, d)
             /\ \A d \in Conns : Resets(h, d)' <=> Resets(h, d)
             /\ \A d \in Conns : Serves(h, d) /\ handler'[d].pc = "recv" => handler'[d].fd = d
             /\ Idle(h)' <=> Idle(h)
  BY <1>1, <1>2, <1>4 DEF Serves, Resets, Engages, Idle, Agreement
<1>5. CASE listener.pc \notin Late /\ listener'.pc \notin Late
  <2>1. \A pcs \in SUBSET Late : ~InHand(h, pcs) /\ ~InHand(h, pcs)'
    BY <1>5 DEF InHand
  <2>2. UNCHANGED handler /\ (UNCHANGED hostDb \/ (ListenerCheck /\ listener.pc = "check"))
    BY <1>5 DEF ListenerStep, ListenerAccept, ListenerReceive, ListenerCount, ListenerCheck, At,
         ListenerVerify, ListenerReply, ListenerConnect, ListenerSockfd, ListenerSpawn
  <2>3. /\ hostDb'[h].isConnected = hostDb[h].isConnected
        /\ hostDb[h].isConnected => hostDb'[h].sockfd = hostDb[h].sockfd
    BY <1>2, <2>2, GuestType, TouchKeeps, TouchedPresent DEF ListenerCheck
  <2> QED BY <1>2, <1>4, <2>1, <2>2, <2>3, AgreementFrame
<1>6. CASE listener.pc # "accept" /\ Guest # h
  <2>1. hostDb'[h] = hostDb[h]
    BY <1>1, <1>6
  <2>2. listener.conn \in Conns /\ listener'.conn = k
    BY <1>1, <1>6 DEF Shape
  <2>3. \A pcs \in SUBSET Late : ~InHand(h, pcs) /\ ~InHand(h, pcs)'
    BY <1>1, <1>6, <2>2 DEF InHand, Guest
  <2>4. \A d \in Conns : (Serves(h, d)' <=> Serves(h, d)) /\ (Resets(h, d)' <=> Resets(h, d))
    BY <1>1, <1>6, <2>2 DEF Serves, Resets, Guest
  <2>5. \A d \in Conns : Serves(h, d) /\ handler'[d].pc = "recv" => handler'[d].fd = d
    BY <1>1, <1>2, <1>6, <2>2 DEF Agreement, Serves, Guest
  <2> QED BY <1>2, <2>1, <2>3, <2>4, <2>5, AgreementFrame
<1>7. CASE listener.pc # "accept" /\ Guest = h
  <2> USE <1>7 DEF At, ListenerPcs
  <2>0. k \in Conns /\ conns[k].host = h
    BY DEF Shape, Guest
  <2>1. \A pcs : InHand(h, pcs)' <=> listener'.pc \in pcs
    BY <1>1, <2>0 DEF InHand, Guest
  <2>2. \A pcs : InHand(h, pcs) <=> listener.pc \in pcs
    BY DEF InHand
  <2>3. CASE ListenerCheck /\ listener'.pc = "verify"
    <3>1. ~Touched(h).isConnected /\ Update(h, Touched(h)) /\ UNCHANGED handler /\ ~InReset(h)
      BY <2>3, <1>3, GotoType DEF ListenerCheck
    <3>2. /\ hostDb'[h].isConnected = hostDb[h].isConnected
          /\ hostDb'[h].isConnected = FALSE
      <4>1. hostDb'[h].isConnected = hostDb[h].isConnected
        BY <1>2, <3>1, TouchKeeps, TouchedPresent
      <4>2. hostDb'[h] = Touched(h) /\ Touched(h) \in Records
        BY <1>3, <3>1, TouchedType DEF Update
      <4> QED BY <3>1, <4>1, <4>2 DEF Records
    <3>3. \A d \in Conns : ~Serves(h, d) /\ ~Resets(h, d)
      BY <1>2, <3>1, <3>2 DEF Agreement, Resets, InReset
    <3>4. Idle(h)' /\ \A d \in Conns : ~Serves(h, d)' /\ ~Resets(h, d)' /\ ~Engages(h, d)'
      BY <1>4, <3>1, <3>3 DEF Idle, Engages
    <3> QED BY <2>1, <2>3, <3>2, <3>4 DEF Agreement
  <2>4. CASE ListenerVerify
    <3>1. listener.pc = "verify" /\ listener'.pc \in {"admit", "refuse"} /\ UNCHANGED handler
      BY <2>4, GotoType DEF ListenerVerify
    <3>2. /\ hostDb'[h].isConnected = hostDb[h].isConnected
          /\ hostDb[h].isConnected => hostDb'[h].sockfd = hostDb[h].sockfd
      BY <1>2, <2>4, TouchKeeps, TouchedPresent DEF ListenerVerify
    <3> QED BY <1>2, <1>4, <2>1, <2>2, <3>1, <3>2, AgreementFrame
  <2>5. CASE ListenerReply
    <3>1. /\ UNCHANGED <<handler, hostDb>>
          /\ \/ listener.pc = "admit" /\ listener'.pc = "connect"
             \/ listener.pc = "refuse" /\ listener'.pc = "accept"
      BY <2>5, GotoType DEF ListenerReply
    <3> QED BY <1>2, <1>4, <2>1, <2>2, <3>1, AgreementFrame
  <2>6. CASE ListenerConnect
    <3>1. listener.pc = "connect" /\ listener'.pc = "sockfd" /\ UNCHANGED handler
      BY <2>6, GotoType DEF ListenerConnect
    <3>2. hostDb'[h].isConnected = TRUE
      BY <1>3, <2>6, TouchedType DEF ListenerConnect, Update, Records
    <3>3. Idle(h)'
      BY <1>2, <1>4, <2>2, <3>1 DEF Agreement
    <3> QED BY <2>1, <3>1, <3>2, <3>3 DEF Agreement, Idle, Engages
  <2>7. CASE ListenerSockfd
    <3>1. listener.pc = "sockfd" /\ listener'.pc = "spawn" /\ UNCHANGED handler
      BY <2>7, GotoType DEF ListenerSockfd
    <3>2. hostDb[h].isConnected /\ hostDb[h].present
      BY <1>2, <2>2, <3>1 DEF Agreement, AbsentInv
    <3>3. hostDb'[h] = [hostDb[h] EXCEPT !.sockfd = k]
      BY <1>3, <2>7, <3>2 DEF ListenerSockfd, Update, Touched
    <3>4. hostDb'[h].isConnected /\ hostDb'[h].sockfd = k
      BY <1>3, <3>2, <3>3 DEF Records
    <3>5. Idle(h)'
      BY <1>2, <1>4, <2>2, <3>1 DEF Agreement
    <3> QED BY <1>1, <2>1, <3>1, <3>4, <3>5 DEF Agreement, Idle, Engages
  <2>8. CASE ListenerSpawn
    <3>1. listener.pc = "spawn" /\ listener'.pc = "accept"
      BY <2>8, GotoType DEF ListenerSpawn
    <3>2. hostDb[h].isConnected /\ hostDb[h].sockfd = k /\ Idle(h)
      BY <1>2, <2>2, <3>1 DEF Agreement
    <3>3. hostDb'[h].isConnected = hostDb[h].isConnected /\ hostDb'[h].sockfd = k
      BY <1>2, <2>8, <3>2, TouchKeeps, TouchedPresent DEF ListenerSpawn
    <3>4. handler'[k].pc = "fetch"
      BY <1>3, <2>0, <2>8 DEF ListenerSpawn, Handlers
    <3>5. \A d \in Conns : d = k => Serves(h, d)' /\ ~Resets(h, d)'
      BY <1>1, <2>0, <3>4 DEF Serves, Resets
    <3>6. \A d \in Conns \ {k} : ~Serves(h, d)' /\ ~Resets(h, d)'
      BY <1>1, <3>2 DEF Idle, Engages, Serves, Resets
    <3>7. \A d \in Conns : Engages(h, d)' => d = k
      BY <3>6 DEF Engages
    <3>8. \A d \in Conns : Serves(h, d)' => d = k
      BY <3>6
    <3>9. \A d \in Conns : ~Resets(h, d)'
      BY <3>5, <3>6
    <3>10. /\ ~InHand(h, {"verify", "admit", "connect"})'
           /\ ~InHand(h, {"sockfd", "spawn"})' /\ ~InHand(h, {"spawn"})'
      BY <2>1, <3>1
    <3> QED BY <2>0, <3>2, <3>3, <3>4, <3>5, <3>7, <3>8, <3>9, <3>10 DEF Agreement
  <2>9. \/ listener.pc \notin Late /\ listener'.pc \notin Late
        \/ ListenerCheck /\ listener'.pc = "verify"
        \/ ListenerVerify \/ ListenerReply \/ ListenerConnect \/ ListenerSockfd \/ ListenerSpawn
    <3>1. CASE ListenerAccept \/ ListenerReceive \/ ListenerCount
      BY <3>1, GotoType DEF ListenerAccept, ListenerReceive, ListenerCount
    <3>2. CASE ListenerCheck
      BY <3>2, GotoType DEF ListenerCheck
    <3> QED BY <3>1, <3>2 DEF ListenerStep
  <2> QED BY <1>5, <2>3, <2>4, <2>5, <2>6, <2>7, <2>8, <2>9
<1>8. listener.pc = "accept" => listener'.pc \notin Late
  BY DEF ListenerStep, ListenerAccept, ListenerReceive, ListenerCount, ListenerCheck, At,
         ListenerVerify, ListenerReply, ListenerConnect, ListenerSockfd, ListenerSpawn
<1> QED BY <1>5, <1>6, <1>7, <1>8

\* At the start no host is connected and nothing goes on.
LEMMA InitAgreement == Init => AgreementInv
<1> SUFFICES ASSUME Init PROVE AgreementInv
  OBVIOUS
<1>1. \A h \in Hosts : ~hostDb[h].isConnected
  BY DEF Init, Fresh, Blank
<1>2. \A h : \A c \in Conns : ~Serves(h, c) /\ ~Resets(h, c)
  BY DEF Init, Serves, Resets
<1>3. \A h : \A pcs : "accept" \notin pcs => ~InHand(h, pcs)
  BY DEF Init, InHand
<1> QED BY <1>1, <1>2, <1>3 DEF AgreementInv, AbsentInv, Agreement, Engages

\* Every step keeps it.
LEMMA NextAgreement ==
  Shape /\ Admission /\ AgreementInv /\ [Next]_vars => AgreementInv'
<1> SUFFICES ASSUME Shape, Admission, AgreementInv, [Next]_vars PROVE AgreementInv'
  OBVIOUS
<1>1. CASE ListenerStep
  BY <1>1, ListenerAgreement, ListenerAbsent DEF AgreementInv
<1>2. ASSUME NEW c \in Conns, HandlerStep(c) PROVE AgreementInv'
  <2>1. UNCHANGED raced
    BY <1>2, HandlerTouches
  <2> QED BY <1>2, <2>1, HandlerAgreement, HandlerAbsent DEF AgreementInv
<1>3. ASSUME NEW t \in Senders, SenderStep(t) \/ \E h \in Hosts : SenderCount(t, h)
      PROVE  AgreementInv'
  BY <1>3, SenderAgreement
<1>4. ASSUME NEW h \in Hosts, AgentActs(h) PROVE AgreementInv'
  BY <1>4, AgentAgreement
<1>5. CASE UNCHANGED vars
  <2>1. UNCHANGED <<listener, handler, raced, hostDb, conns>>
    BY <1>5 DEF vars, controller, network, history
  <2>2. AbsentInv'
    BY <2>1 DEF AgreementInv, AbsentInv
  <2> QED BY <2>1, <2>2, BystanderAgreement
<1> QED BY <1>1, <1>2, <1>3, <1>4, <1>5, NextIsSomeStep

\* What AgreementInv says in the words of the properties.
LEMMA AgreementMeans ==
  ASSUME Shape, AgreementInv
  PROVE  RecordAgreesWithThreads /\ ThreadsReadTheirOwnSocket
<1>1. ASSUME NEW h \in Hosts \ raced
      PROVE  /\ hostDb[h].present /\ hostDb[h].isConnected /\ ~InReset(h) => Served(h) # {}
             /\ Cardinality(Served(h)) <= 1
             /\ \A c \in Served(h) :
                  /\ hostDb[h].isConnected
                  /\ hostDb[h].sockfd = c \/ (listener.pc = "sockfd" /\ listener.conn = c)
  <2>1. Agreement(h)
    BY DEF AgreementInv
  <2>2. \A c \in Served(h) : Serves(h, c) \/ (InHand(h, {"sockfd", "spawn"}) /\ c = listener.conn)
    BY DEF Served, Serves, InHand, Guest
  <2>3. \A c, d \in Served(h) : c = d
    BY <2>1, <2>2 DEF Agreement, Idle, Engages, Served
  <2>4. Cardinality(Served(h)) <= 1
    <3>1. CASE Served(h) = {}
      BY <3>1, FS_EmptySet
    <3>2. ASSUME NEW c \in Served(h) PROVE Cardinality(Served(h)) <= 1
      <4>1. Served(h) = {c}
        BY <2>3
      <4> QED BY <4>1, FS_Singleton
    <3> QED BY <3>1, <3>2
  <2>5. hostDb[h].isConnected => Served(h) # {}
    <3>1. CASE InHand(h, {"sockfd", "spawn"})
      <4>1. listener.conn \in Served(h)
        BY <3>1 DEF InHand, Guest, Served, Shape
      <4> QED BY <4>1
    <3>2. ASSUME NEW c \in Conns, Serves(h, c) PROVE c \in Served(h)
      BY <3>2 DEF Serves, Served
    <3> QED BY <2>1, <3>1, <3>2 DEF Agreement
  <2>6. ASSUME NEW c \in Served(h)
        PROVE  /\ hostDb[h].isConnected
               /\ hostDb[h].sockfd = c \/ (listener.pc = "sockfd" /\ listener.conn = c)
    <3>1. c \in Conns
      BY DEF Served
    <3>2. CASE Serves(h, c)
      BY <2>1, <3>1, <3>2 DEF Agreement
    <3>3. CASE InHand(h, {"sockfd", "spawn"}) /\ c = listener.conn
      BY <2>1, <3>3 DEF Agreement, InHand
    <3> QED BY <2>2, <3>2, <3>3
  <2> QED BY <2>4, <2>5, <2>6
<1>2. RecordAgreesWithThreads
  BY <1>1 DEF RecordAgreesWithThreads
<1>3. ThreadsReadTheirOwnSocket
  BY DEF Shape, ConnRecords, AgreementInv, Agreement, Serves, ThreadsReadTheirOwnSocket
<1> QED BY <1>2, <1>3

\* Whoever connects, sends, disappears and comes back in whatever order: unless
\* a host was authenticated in the middle of a reset, its record is connected
\* exactly while one connection of its is served, and names that connection.
THEOREM AgreementCorrect == Spec => []RecordAgreesWithThreads
<1>1. Init => Shape /\ Admission /\ AgreementInv
  BY InitAdmission, InitAgreement
<1>2. Shape /\ Admission /\ AgreementInv /\ [Next]_vars => (Shape /\ Admission /\ AgreementInv)'
  BY NextAdmission, NextAgreement
<1>3. Shape /\ AgreementInv => RecordAgreesWithThreads
  BY AgreementMeans
<1> QED BY <1>1, <1>2, <1>3, PTL DEF Spec

\* Every message such a host's thread waits for comes from its own connection,
\* although it asks the shared record for the socket each time.
THEOREM OwnSocketCorrect == Spec => []ThreadsReadTheirOwnSocket
<1>1. Init => Shape /\ Admission /\ AgreementInv
  BY InitAdmission, InitAgreement
<1>2. Shape /\ Admission /\ AgreementInv /\ [Next]_vars => (Shape /\ Admission /\ AgreementInv)'
  BY NextAdmission, NextAgreement
<1>3. Shape /\ AgreementInv => ThreadsReadTheirOwnSocket
  BY AgreementMeans
<1> QED BY <1>1, <1>2, <1>3, PTL DEF Spec

-----------------------------------------------------------------------------
(* The sockets of the records, and what is sent to them *)

\* The senders with a number of h that they have not sent.
Held(h) == {t \in Senders : sender[t].pc = "numbered" /\ sender[t].host = h}

\* Types of what the numbering of commands depends on.
NumbersType ==
  /\ sent \in [Conns -> Seq(Nat)]
  /\ \A h \in Hosts : hostDb[h].seqNum # 0 /\ IsFiniteSet(Held(h))

\* The connection was handed to a thread, or is about to be.
Taken(c) == handler[c].pc # "none" \/ (listener.pc = "spawn" /\ listener.conn = c)

\* A record's socket is a connection of its host that was admitted, and no
\* command is sent on a connection before that.
SocketsInv ==
  /\ \A h \in Hosts : hostDb[h].sockfd # NoFd =>
       conns[hostDb[h].sockfd].host = h /\ Taken(hostDb[h].sockfd)
  /\ \A c \in Conns : sent[c] # <<>> => Taken(c)
  /\ listener.pc \in {"connect", "sockfd", "spawn"} => handler[listener.conn].pc = "none"

\* A step keeps this if it gives no record a new socket, and only to an admitted
\* connection anything.
LEMMA SocketsFrame ==
  ASSUME Shape, Admission, SocketsInv,
         \A c \in Conns : Taken(c) => Taken(c)',
         \A c \in Conns : peer[c] # "none" => conns'[c].host = conns[c].host,
         \A h \in Hosts : hostDb'[h].sockfd \in {hostDb[h].sockfd, NoFd},
         \A c \in Conns : sent'[c] = sent[c] \/ Taken(c),
         listener'.pc \in {"connect", "sockfd", "spawn"} => handler'[listener'.conn].pc = "none"
  PROVE  SocketsInv'
<1>1. \A c \in Conns : Taken(c) => peer[c] # "none"
  BY DEF Admission, ServedAdmitted, ListenerKnows, Taken
<1>2. ASSUME NEW h \in Hosts, hostDb'[h].sockfd # NoFd
      PROVE  conns'[hostDb'[h].sockfd].host = h /\ Taken(hostDb[h].sockfd)'
  <2>1. hostDb'[h].sockfd = hostDb[h].sockfd /\ hostDb[h].sockfd \in Conns
    BY <1>2 DEF Shape, Records
  <2>2. PICK c \in Conns : c = hostDb[h].sockfd /\ c = hostDb'[h].sockfd
    BY <2>1
  <2>3. conns[c].host = h /\ Taken(c)
    BY <1>2, <2>2 DEF SocketsInv
  <2>4. conns'[c].host = h /\ Taken(c)'
    BY <1>1, <2>3
  <2> QED BY <2>2, <2>4 DEF Taken
<1>3. \A c \in Conns : sent'[c] # <<>> => Taken(c)'
  BY DEF SocketsInv
<1> QED BY <1>2, <1>3 DEF SocketsInv

\* A thread takes the socket away, or nothing.
LEMMA HandlerSockets ==
  ASSUME Shape, Admission, SocketsInv, NEW c \in Conns, HandlerStep(c)
  PROVE  SocketsInv'
<1> DEFINE g == conns[c].host
<1>1. /\ UNCHANGED <<listener, conns>> /\ handler[c].pc # "none" /\ handler'[c].pc # "none"
      /\ \A d \in Conns \ {c} : handler'[d] = handler[d]
      /\ \A h \in Hosts \ {g} : hostDb'[h] = hostDb[h]
  BY HandlerTouches
<1>2. \A d \in Conns : Taken(d) => Taken(d)'
  BY <1>1 DEF Taken
<1>3. UNCHANGED sent
  BY DEF HandlerStep, HandlerFetch, HandlerMessage, HandlerAnswer, HandlerClosed, HandlerError,
         HandlerErase, HandlerInsert, HandlerAssign, history
<1>4. listener'.pc \in {"connect", "sockfd", "spawn"} => handler'[listener'.conn].pc = "none"
  BY <1>1 DEF SocketsInv, Shape
<1>5. hostDb'[g].sockfd \in {hostDb[g].sockfd, NoFd}
  <2>0. g \in Hosts /\ hostDb \in [Hosts -> Records]
    BY DEF Shape, ConnRecords
  <2>1. CASE UNCHANGED hostDb
    BY <2>1
  <2>2. CASE Update(g, Touched(g))
    BY <2>0, <2>2 DEF Update, Touched, Blank
  <2>3. CASE Update(g, Absent)
    BY <2>0, <2>3 DEF Update, Absent, Blank
  <2>4. CASE HandlerAssign(c)
    BY <2>0, <2>4 DEF HandlerAssign, Update, Records
  <2> QED BY <2>1, <2>2, <2>3, <2>4
      DEF HandlerStep, HandlerFetch, HandlerMessage, HandlerAnswer, HandlerClosed, HandlerError,
          HandlerErase, HandlerInsert, controller
<1> QED BY <1>1, <1>2, <1>3, <1>4, <1>5, SocketsFrame

\* A command goes only to the socket of a record.
LEMMA SenderSends ==
  ASSUME Shape, NumbersType, SocketsInv, NEW t \in Senders,
         SenderStep(t) \/ \E h \in Hosts : SenderCount(t, h)
  PROVE  /\ UNCHANGED <<listener, conns, handler, raced, stale>>
         /\ \A c \in Conns : \/ sent'[c] = sent[c]
                              \/ (SenderSend(t) /\ Taken(c) /\ conns[c].host = sender[t].host)
         /\ \A d \in Senders \ {t} : sender'[d] = sender[d]
         /\ \A h \in Hosts \ {sender[t].host} : hostDb'[h] = hostDb[h]
<1> DEFINE g == sender[t].host
<1>0. g \in Hosts
  BY DEF Shape, SenderStates
<1>1. UNCHANGED <<listener, conns, handler, raced, stale>>
  BY DEF SenderStep, SenderCount, SenderCheck, SenderNumber, SenderSend, network, history
<1>2. ASSUME NEW c \in Conns
      PROVE  sent'[c] = sent[c] \/ (SenderSend(t) /\ Taken(c) /\ conns[c].host = g)
  <2>1. CASE SenderSend(t)
    <3> DEFINE fd == Touched(g).sockfd
    <3>1. sent' = sent \/ (fd # NoFd /\ sent' = [sent EXCEPT ![fd] = Append(@, sender[t].seq)])
      BY <2>1 DEF SenderSend
    <3>2. fd # NoFd => fd = hostDb[g].sockfd
      BY DEF Touched, Blank
    <3>3. fd # NoFd => conns[fd].host = g /\ Taken(fd)
      BY <1>0, <3>2 DEF SocketsInv
    <3> QED BY <2>1, <3>1, <3>3 DEF NumbersType
  <2>2. CASE UNCHANGED sent
    BY <2>2
  <2> QED BY <2>1, <2>2 DEF SenderStep, SenderCount, SenderCheck, SenderNumber, history
<1>3. \A d \in Senders \ {t} : sender'[d] = sender[d]
  BY DEF SenderStep, SenderCount, SenderCheck, SenderNumber, SenderSend, Shape
<1>4. UNCHANGED hostDb \/ \E rec : Update(g, rec)
  BY DEF SenderStep, SenderCount, SenderCheck, SenderNumber, SenderSend
<1>5. \A h \in Hosts \ {g} : hostDb'[h] = hostDb[h]
  BY <1>4 DEF Update, Shape
<1> QED BY <1>1, <1>2, <1>3, <1>5

\* A sender uses the socket of the record.
LEMMA SenderSockets ==
  ASSUME Shape, Admission, NumbersType, SocketsInv, NEW t \in Senders,
         SenderStep(t) \/ \E h \in Hosts : SenderCount(t, h)
  PROVE  SocketsInv'
<1> DEFINE g == sender[t].host
<1>0. g \in Hosts /\ Touched(g) \in Records
  BY TouchedType DEF Shape, SenderStates
<1>1. /\ UNCHANGED <<listener, conns, handler>>
      /\ \A c \in Conns : sent'[c] = sent[c] \/ Taken(c)
      /\ \A h \in Hosts \ {g} : hostDb'[h] = hostDb[h]
  BY SenderSends
<1>2. hostDb'[g].sockfd \in {hostDb[g].sockfd, NoFd}
  <2>1. Touched(g).sockfd \in {hostDb[g].sockfd, NoFd}
    BY DEF Touched, Blank
  <2>2. \/ UNCHANGED hostDb
        \/ Update(g, Touched(g))
        \/ Update(g, [Touched(g) EXCEPT !.seqNum = @ + 1])
    BY DEF SenderStep, SenderCount, SenderCheck, SenderNumber, SenderSend
  <2> QED BY <1>0, <2>1, <2>2 DEF Update, Shape, Records
<1>3. \A c \in Conns : Taken(c) => Taken(c)'
  BY <1>1 DEF Taken
<1>4. listener'.pc \in {"connect", "sockfd", "spawn"} => handler'[listener'.conn].pc = "none"
  BY <1>1 DEF SocketsInv
<1> QED BY <1>1, <1>2, <1>3, <1>4, SocketsFrame

\* Nobody's step but the agents', or none.
LEMMA UntouchedSockets ==
  ASSUME Shape, Admission, SocketsInv, UNCHANGED <<listener, handler, hostDb, sent>>,
         \A c \in Conns : peer[c] # "none" => conns'[c].host = conns[c].host
  PROVE  SocketsInv'
<1>1. \A c \in Conns : Taken(c) => Taken(c)'
  BY DEF Taken
<1>2. listener'.pc \in {"connect", "sockfd", "spawn"} => handler'[listener'.conn].pc = "none"
  BY DEF SocketsInv
<1> QED BY <1>1, <1>2, SocketsFrame

\* The listener gives a record the connection it admitted.
LEMMA ListenerSockets ==
  ASSUME Shape, Admission, SocketsInv, ListenerStep
  PROVE  SocketsInv'
<1> USE DEF At, ListenerPcs
<1>1. /\ \A d \in Conns : conns'[d].host = conns[d].host
      /\ \A d \in Conns \ {listener.conn} : handler'[d] = handler[d]
      /\ listener.pc # "accept" => listener'.conn = listener.conn
      /\ listener.pc # "accept" => \A h \in Hosts \ {Guest} : hostDb'[h] = hostDb[h]
      /\ listener.pc # "accept" => listener.conn \in Conns /\ Guest \in Hosts
  BY ListenerTouches, GuestType
<1>2. UNCHANGED sent
  BY DEF ListenerStep, ListenerAccept, ListenerReceive, ListenerCount, ListenerCheck,
         ListenerVerify, ListenerReply, ListenerConnect, ListenerSockfd, ListenerSpawn, history
<1>3. listener'.pc \in {"connect", "sockfd", "spawn"} => handler'[listener'.conn].pc = "none"
  <2>1. \/ listener'.pc \notin {"connect", "sockfd", "spawn"}
        \/ /\ listener.pc \in {"admit", "connect", "sockfd"}
           /\ handler' = handler /\ listener'.conn = listener.conn
    <3>1. CASE ListenerAccept \/ ListenerReceive \/ ListenerCount \/ ListenerCheck
      BY <3>1, GotoType
      DEF ListenerAccept, ListenerReceive, ListenerCount, ListenerCheck
    <3>2. CASE ListenerVerify \/ ListenerSpawn
      BY <3>2, GotoType DEF ListenerVerify, ListenerSpawn
    <3>3. CASE ListenerReply
      BY <3>3, GotoType DEF ListenerReply
    <3>4. CASE ListenerConnect \/ ListenerSockfd
      BY <1>1, <3>4 DEF ListenerConnect, ListenerSockfd
    <3> QED BY <3>1, <3>2, <3>3, <3>4 DEF ListenerStep
  <2>2. listener.pc \in {"admit", "connect", "sockfd"} => handler[listener.conn].pc = "none"
    BY DEF SocketsInv, Admission, ListenerKnows
  <2> QED BY <2>1, <2>2
<1>4. \A c \in Conns : Taken(c) => Taken(c)'
  <2>1. CASE UNCHANGED handler /\ listener.pc # "spawn"
    BY <2>1 DEF Taken
  <2>2. CASE ListenerSpawn
    <3>1. handler' = [handler EXCEPT ![listener.conn].pc = "fetch"]
      BY <2>2 DEF ListenerSpawn
    <3>2. \A c \in Conns : Taken(c) => handler'[c].pc # "none"
      BY <3>1 DEF Taken, Shape, Handlers
    <3> QED BY <3>2 DEF Taken
  <2> QED BY <2>1, <2>2
      DEF ListenerStep, ListenerAccept, ListenerReceive, ListenerCount, ListenerCheck,
          ListenerVerify, ListenerReply, ListenerConnect, ListenerSockfd
<1>5. CASE ~ListenerSockfd
  <2>1. \A h \in Hosts : hostDb'[h].sockfd \in {hostDb[h].sockfd, NoFd}
    <3>1. CASE UNCHANGED hostDb
      BY <3>1
    <3>2. CASE listener.pc # "accept" /\ Update(Guest, Touched(Guest))
      BY <1>1, <3>2 DEF Update, Touched, Blank, Shape
    <3>3. CASE ListenerConnect
      <4>1. Touched(Guest) \in Records /\ Touched(Guest).sockfd \in {hostDb[Guest].sockfd, NoFd}
        BY <1>1, <3>3, TouchedType DEF ListenerConnect, Touched, Blank
      <4>2. hostDb'[Guest] = [Touched(Guest) EXCEPT !.isConnected = TRUE]
        BY <1>1, <3>3 DEF ListenerConnect, Update, Shape
      <4>3. hostDb'[Guest].sockfd = Touched(Guest).sockfd
        BY <4>1, <4>2 DEF Records
      <4> QED BY <1>1, <3>3, <4>1, <4>3 DEF ListenerConnect
    <3> QED BY <1>5, <3>1, <3>2, <3>3
        DEF ListenerStep, ListenerAccept, ListenerReceive, ListenerCount, ListenerCheck,
            ListenerVerify, ListenerReply, ListenerSpawn
  <2> QED BY <1>1, <1>2, <1>3, <1>4, <2>1, SocketsFrame
<1>6. CASE ListenerSockfd
  <2>1. /\ listener.pc = "sockfd" /\ UNCHANGED <<handler, conns, peer>>
        /\ listener'.pc = "spawn" /\ listener'.conn = listener.conn
    BY <1>6, GotoType DEF ListenerSockfd, network
  <2>2. hostDb'[Guest].sockfd = listener.conn
    <3>1. Touched(Guest) \in Records
      BY <1>1, <2>1, TouchedType
    <3> QED BY <1>1, <1>6, <2>1, <3>1 DEF ListenerSockfd, Update, Shape, Records
  <2>3. ASSUME NEW h \in Hosts, hostDb'[h].sockfd # NoFd
        PROVE  conns'[hostDb'[h].sockfd].host = h /\ Taken(hostDb[h].sockfd)'
    <3>1. CASE h = Guest
      BY <2>1, <2>2, <3>1 DEF Guest, Taken
    <3>2. CASE h # Guest
      <4>1. hostDb'[h] = hostDb[h] /\ hostDb[h].sockfd \in Conns
        BY <1>1, <2>1, <2>3, <3>2 DEF Shape, Records
      <4>2. conns[hostDb[h].sockfd].host = h /\ Taken(hostDb[h].sockfd)
        BY <2>3, <4>1 DEF SocketsInv
      <4> QED BY <2>1, <4>1, <4>2 DEF Taken
    <3> QED BY <3>1, <3>2
  <2>4. \A c \in Conns : sent'[c] # <<>> => Taken(c)'
    BY <1>2, <1>4 DEF SocketsInv
  <2> QED BY <1>3, <2>3, <2>4 DEF SocketsInv
<1> QED BY <1>5, <1>6
-----------------------------------------------------------------------------
(* The numbers of a connection *)

\* The commands numbered since the record was made are on connection c or still
\* with their senders.
Numbered(h, c) ==
  /\ {sent[c][i] : i \in DOMAIN sent[c]} \cup {sender[t].seq : t \in Held(h)}
       = 1..(hostDb[h].seqNum - 1)
  /\ Len(sent[c]) + Cardinality(Held(h)) = hostDb[h].seqNum - 1

\* The record as it is made.
Unused(h) == hostDb[h].seqNum = 1 /\ hostDb[h].sockfd = NoFd

\* While h is not connected, and until it has its socket, nobody numbers.
Numbering(h) ==
  /\ \A t \in Senders : sender[t].pc \in {"checked", "numbered"} /\ sender[t].host = h
       => hostDb[h].isConnected
  /\ ~hostDb[h].isConnected \/ InHand(h, {"sockfd"}) => Unused(h) /\ Held(h) = {}
  /\ hostDb[h].isConnected /\ ~InHand(h, {"sockfd"}) => Numbered(h, hostDb[h].sockfd)

NumberingInv == \A h \in Hosts \ (raced \cup stale) : Numbering(h)

\* A record that is touched keeps what it says.
Kept(h) ==
  /\ hostDb'[h].isConnected = hostDb[h].isConnected
  /\ hostDb[h].isConnected =>
       hostDb'[h].sockfd = hostDb[h].sockfd /\ hostDb'[h].seqNum = hostDb[h].seqNum
  /\ Unused(h) => Unused(h)'

\* operator[] is such a step.
LEMMA TouchedKept ==
  ASSUME Shape, AbsentInv, NEW g \in Hosts, Update(g, Touched(g))
  PROVE  \A h \in Hosts : Kept(h)
<1>1. hostDb' = [hostDb EXCEPT ![g] = Touched(g)] /\ hostDb \in [Hosts -> Records]
  BY DEF Update, Shape
<1>2. \A h \in Hosts \ {g} : hostDb'[h] = hostDb[h]
  BY <1>1
<1>3. hostDb'[g] = Touched(g)
  BY <1>1
<1>4. hostDb[g].isConnected \in BOOLEAN
  BY <1>1 DEF Records
<1>5. Kept(g)
  <2>1. CASE hostDb[g].present
    BY <1>3, <2>1 DEF Kept, Unused, Touched
  <2>2. CASE ~hostDb[g].present
    <3>1. hostDb[g].isConnected = FALSE
      BY <1>4, <2>2 DEF AbsentInv
    <3>2. hostDb'[g].isConnected = FALSE /\ hostDb'[g].seqNum = 1 /\ hostDb'[g].sockfd = NoFd
      BY <1>3, <2>2 DEF Touched, Blank
    <3> QED BY <3>1, <3>2 DEF Kept, Unused
  <2> QED BY <2>1, <2>2
<1> QED BY <1>2, <1>5 DEF Kept, Unused

\* Then the numbers stay in order, if no sender moves.
LEMMA NumberingFrame ==
  ASSUME Shape, NEW h \in Hosts, Numbering(h), Kept(h), UNCHANGED <<sender, sent>>,
         InHand(h, {"sockfd"})' <=> InHand(h, {"sockfd"})
  PROVE  Numbering(h)'
<1>1. Held(h)' = Held(h)
  BY DEF Held
<1>2. hostDb[h].isConnected /\ ~InHand(h, {"sockfd"}) => Numbered(h, hostDb[h].sockfd)'
  BY <1>1 DEF Numbering, Numbered, Kept
<1>3. ~hostDb[h].isConnected \/ InHand(h, {"sockfd"}) => Unused(h)' /\ Held(h)' = {}
  BY <1>1 DEF Numbering, Kept
<1>4. \A t \in Senders : sender'[t].pc \in {"checked", "numbered"} /\ sender'[t].host = h
        => hostDb'[h].isConnected
  BY DEF Numbering, Kept
<1> QED BY <1>2, <1>3, <1>4 DEF Numbering, Kept

\* A reset starts the numbers again; it finds no sender under way.
LEMMA HandlerNumbering ==
  ASSUME Shape, AgreementInv, NumberingInv, NEW c \in Conns, HandlerStep(c),
         NEW h \in Hosts \ (raced \cup stale)'
  PROVE  Numbering(h)'
<1> DEFINE g == conns[c].host
<1>1. /\ UNCHANGED <<listener, conns, raced, sender>>
      /\ \A k \in Hosts \ {g} : hostDb'[k] = hostDb[k]
  BY HandlerTouches
<1>2. UNCHANGED sent /\ stale \subseteq stale'
  BY DEF HandlerStep, HandlerFetch, HandlerMessage, HandlerAnswer, HandlerClosed, HandlerError,
         HandlerErase, HandlerInsert, HandlerAssign, history
<1>3. h \in Hosts \ raced /\ Numbering(h) /\ Agreement(h) /\ AbsentInv
  BY <1>1, <1>2 DEF NumberingInv, AgreementInv
<1>4. InHand(h, {"sockfd"})' <=> InHand(h, {"sockfd"})
  BY <1>1 DEF InHand, Guest
<1>5. Kept(h) => Numbering(h)'
  BY <1>1, <1>2, <1>3, <1>4, NumberingFrame
<1>6. hostDb'[h] = hostDb[h] => Kept(h)
  BY DEF Kept, Unused
<1>7. CASE h # g
  BY <1>1, <1>5, <1>6, <1>7
<1>8. CASE h = g
  <2>0. hostDb \in [Hosts -> Records] /\ h \in Hosts
    BY DEF Shape
  <2>1. CASE UNCHANGED hostDb
    BY <1>5, <1>6, <2>1
  <2>2. CASE Update(h, Touched(h))
    BY <1>3, <1>5, <2>2, TouchedKept
  <2>3. CASE HandlerErase(c)
    \* No sender is under way: the host would be stale.
    <3>1. \A t \in Senders : ~(sender[t].pc \in {"checked", "numbered"} /\ sender[t].host = h)
      BY <1>2, <1>8, <2>3 DEF HandlerErase
    <3>2. hostDb'[h] = Absent
      BY <1>8, <2>0, <2>3 DEF HandlerErase, Update
    <3>3. ~hostDb'[h].isConnected /\ Unused(h)'
      BY <3>2 DEF Absent, Blank, Unused
    <3>4. Held(h)' = {}
      BY <1>1, <3>1 DEF Held
    <3> QED BY <1>1, <3>1, <3>3, <3>4 DEF Numbering
  <2>4. CASE HandlerAssign(c)
    <3>1. Resets(h, c)
      BY <1>8, <2>4 DEF HandlerAssign, Resets
    <3>2. ~hostDb[h].isConnected
      BY <1>3, <3>1 DEF Agreement
    <3>3. PICK rec : /\ hostDb' = [hostDb EXCEPT ![h] = rec]
                     /\ rec.isConnected = hostDb[h].isConnected
                     /\ Unused(h) => rec.seqNum = 1 /\ rec.sockfd = NoFd
      <4>1. hostDb[h] \in Records
        BY <2>0
      <4>2. handler[c].secret \in BOOLEAN /\ hostDb[h].isConnected = FALSE
        BY <3>2, <4>1 DEF Shape, Handlers, Records
      <4>3. \/ Update(h, [hostDb[h] EXCEPT !.secret = handler[c].secret])
            \/ Update(h, [hostDb[h] EXCEPT !.isConnected = FALSE])
            \/ Update(h, [hostDb[h] EXCEPT !.sockfd = NoFd, !.seqNum = 1])
        BY <1>8, <2>4 DEF HandlerAssign
      <4>4. CASE Update(h, [hostDb[h] EXCEPT !.secret = handler[c].secret])
        <5> DEFINE r == [hostDb[h] EXCEPT !.secret = handler[c].secret]
        <5>1. /\ r.isConnected = hostDb[h].isConnected
              /\ r.seqNum = hostDb[h].seqNum /\ r.sockfd = hostDb[h].sockfd
          BY <4>1 DEF Records
        <5>2. hostDb' = [hostDb EXCEPT ![h] = r]
          BY <4>4 DEF Update
        <5> HIDE DEF r
        <5> QED BY <5>1, <5>2 DEF Unused
      <4>5. CASE Update(h, [hostDb[h] EXCEPT !.isConnected = FALSE])
        BY <4>1, <4>2, <4>5 DEF Update, Records, Unused
      <4>6. CASE Update(h, [hostDb[h] EXCEPT !.sockfd = NoFd, !.seqNum = 1])
        BY <4>1, <4>2, <4>6 DEF Update, Records, Unused
      <4> QED BY <4>3, <4>4, <4>5, <4>6
    <3>4. Kept(h)
      BY <2>0, <3>2, <3>3 DEF Kept, Unused
    <3> QED BY <1>5, <3>4
  <2> QED BY <1>8, <2>1, <2>2, <2>3, <2>4
      DEF HandlerStep, HandlerFetch, HandlerMessage, HandlerAnswer, HandlerClosed, HandlerError,
          HandlerInsert, controller
<1> QED BY <1>7, <1>8

\* The listener gives the socket to a record that nobody has numbered for.
LEMMA ListenerNumbering ==
  ASSUME Shape, AgreementInv, SocketsInv, NumbersType, NumberingInv, ListenerStep,
         NEW h \in Hosts \ (raced \cup stale)'
  PROVE  Numbering(h)'
<1> USE DEF At, ListenerPcs
<1>1. /\ \A d \in Conns : conns'[d].host = conns[d].host
      /\ listener.pc # "accept" => listener'.conn = listener.conn
      /\ listener.pc # "accept" => \A g \in Hosts \ {Guest} : hostDb'[g] = hostDb[g]
      /\ listener.pc # "accept" => listener.conn \in Conns /\ Guest \in Hosts
      /\ raced \subseteq raced' /\ UNCHANGED sender
  BY ListenerTouches, GuestType
<1>2. UNCHANGED <<sent, stale>>
  BY DEF ListenerStep, ListenerAccept, ListenerReceive, ListenerCount, ListenerCheck,
         ListenerVerify, ListenerReply, ListenerConnect, ListenerSockfd, ListenerSpawn, history
<1>3. h \in Hosts \ raced /\ Numbering(h) /\ Agreement(h) /\ AbsentInv
  BY <1>1, <1>2 DEF NumberingInv, AgreementInv
<1>4. ASSUME Kept(h), InHand(h, {"sockfd"})' <=> InHand(h, {"sockfd"}) PROVE Numbering(h)'
  BY <1>1, <1>2, <1>3, <1>4, NumberingFrame
<1>5. hostDb'[h] = hostDb[h] => Kept(h)
  BY DEF Kept, Unused
<1>6. CASE ListenerAccept
  <2>1. listener.pc = "accept" /\ listener'.pc = "recv" /\ UNCHANGED hostDb
    BY <1>6 DEF ListenerAccept
  <2> QED BY <1>4, <1>5, <2>1 DEF InHand
<1>7. CASE listener.pc # "accept" /\ Guest # h
  <2>1. ~InHand(h, {"sockfd"}) /\ ~InHand(h, {"sockfd"})'
    BY <1>1, <1>7 DEF InHand, Guest
  <2> QED BY <1>1, <1>4, <1>5, <1>7, <2>1
<1>8. CASE listener.pc # "accept" /\ Guest = h
  <2>0. /\ \A pcs : InHand(h, pcs) <=> listener.pc \in pcs
        /\ \A pcs : InHand(h, pcs)' <=> listener'.pc \in pcs
    BY <1>1, <1>8 DEF InHand, Guest
  <2>1. CASE ListenerReceive \/ ListenerCount \/ ListenerReply
    <3>1. UNCHANGED hostDb /\ listener.pc # "sockfd" /\ listener'.pc # "sockfd"
      BY <1>8, <2>1, GotoType DEF ListenerReceive, ListenerCount, ListenerReply
    <3> QED BY <1>4, <1>5, <2>0, <3>1
  <2>2. CASE ListenerCheck \/ ListenerVerify \/ ListenerSpawn
    <3>1. Update(h, Touched(h)) /\ listener.pc # "sockfd" /\ listener'.pc # "sockfd"
      BY <1>8, <2>2, GotoType DEF ListenerCheck, ListenerVerify, ListenerSpawn
    <3> QED BY <1>3, <1>4, <2>0, <3>1, TouchedKept
  <2>3. CASE ListenerConnect
    <3>1. listener.pc = "connect" /\ listener'.pc = "sockfd"
      BY <1>8, <2>3, GotoType DEF ListenerConnect
    <3>2. ~hostDb[h].isConnected
      BY <1>3, <2>0, <3>1 DEF Agreement
    <3>3. Unused(h) /\ Held(h) = {}
      BY <1>3, <3>2 DEF Numbering
    <3>4. hostDb'[h] = [Touched(h) EXCEPT !.isConnected = TRUE] /\ Touched(h) \in Records
      BY <1>3, <1>8, <2>3, TouchedType DEF ListenerConnect, Update, Shape
    <3>5. Touched(h).seqNum = 1 /\ Touched(h).sockfd = NoFd
      BY <3>3 DEF Unused, Touched, Blank
    <3>6. hostDb'[h].isConnected /\ Unused(h)' /\ Held(h)' = {}
      BY <1>1, <3>3, <3>4, <3>5 DEF Records, Unused, Held
    <3>7. InHand(h, {"sockfd"})'
      BY <2>0, <3>1
    <3> QED BY <3>6, <3>7 DEF Numbering
  <2>4. CASE ListenerSockfd
    <3>1. listener.pc = "sockfd" /\ listener'.pc = "spawn" /\ UNCHANGED handler
      BY <1>8, <2>4, GotoType DEF ListenerSockfd
    <3>2. hostDb[h].isConnected /\ Unused(h) /\ Held(h) = {}
      BY <1>3, <2>0, <3>1 DEF Agreement, Numbering
    <3>3. Touched(h) = hostDb[h] /\ hostDb[h] \in Records
      BY <1>3, <3>2 DEF Touched, AbsentInv, Shape
    <3>4. hostDb'[h] = [hostDb[h] EXCEPT !.sockfd = listener.conn]
      BY <1>3, <1>8, <2>4, <3>3 DEF ListenerSockfd, Update, Shape
    <3>5. hostDb'[h].isConnected /\ hostDb'[h].seqNum = 1 /\ hostDb'[h].sockfd = listener.conn
      BY <3>2, <3>3, <3>4 DEF Records, Unused
    <3>6. sent[listener.conn] = <<>>
      BY <1>1, <1>8, <3>1 DEF SocketsInv, Taken
    <3>7. Held(h)' = {}
      BY <1>1, <3>2 DEF Held
    <3>8. Numbered(h, hostDb[h].sockfd)'
      BY <1>2, <3>5, <3>6, <3>7, FS_EmptySet DEF Numbered
    <3>9. ~InHand(h, {"sockfd"})'
      BY <2>0, <3>1
    <3> QED BY <3>5, <3>8, <3>9 DEF Numbering
  <2> QED BY <1>6, <2>1, <2>2, <2>3, <2>4 DEF ListenerStep
<1>9. ListenerAccept \/ listener.pc # "accept"
  BY DEF ListenerStep, ListenerReceive, ListenerCount, ListenerCheck, ListenerVerify,
         ListenerReply, ListenerConnect, ListenerSockfd, ListenerSpawn
<1> QED BY <1>6, <1>7, <1>8, <1>9

\* Agents, or nobody.
LEMMA UntouchedNumbering ==
  ASSUME Shape, Admission, NumberingInv,
         UNCHANGED <<listener, hostDb, sender, sent, raced, stale>>,
         \A c \in Conns : peer[c] # "none" => conns'[c].host = conns[c].host
  PROVE  NumberingInv'
<1> SUFFICES ASSUME NEW h \in Hosts \ (raced \cup stale) PROVE Numbering(h)'
  BY DEF NumberingInv
<1>1. Kept(h)
  BY DEF Kept, Unused
<1>2. InHand(h, {"sockfd"})' <=> InHand(h, {"sockfd"})
  BY InHandStays
<1> QED BY <1>1, <1>2, NumberingFrame DEF NumberingInv

\* What a sender's step does to the numbers held.
LEMMA HeldSteps ==
  ASSUME Shape, NEW t \in Senders, NEW h \in Hosts,
         SenderStep(t) \/ \E g \in Hosts : SenderCount(t, g)
  PROVE  /\ ~SenderNumber(t) /\ ~SenderSend(t) => Held(h)' = Held(h)
         /\ sender[t].host # h => Held(h)' = Held(h)
         /\ SenderNumber(t) /\ sender[t].host = h => t \notin Held(h) /\ Held(h)' = Held(h) \cup {t}
         /\ SenderSend(t) /\ sender[t].host = h => t \in Held(h) /\ Held(h)' = Held(h) \ {t}
<1> USE DEF SenderAt
<1>0. sender \in [Senders -> SenderStates]
  BY DEF Shape
<1>1. \A d \in Senders \ {t} : sender'[d] = sender[d]
  BY <1>0 DEF SenderStep, SenderCount, SenderCheck, SenderNumber, SenderSend
<1>2. \A d : d # t => (d \in Held(h)' <=> d \in Held(h))
  BY <1>1 DEF Held
<1>3. \/ /\ ~SenderNumber(t) /\ ~SenderSend(t)
         /\ sender[t].pc # "numbered" /\ sender'[t].pc # "numbered"
      \/ /\ SenderNumber(t) /\ ~SenderSend(t) /\ sender'[t].host = sender[t].host
         /\ sender[t].pc = "checked" /\ sender'[t].pc = "numbered"
      \/ /\ SenderSend(t) /\ ~SenderNumber(t) /\ sender'[t].host = sender[t].host
         /\ sender[t].pc = "numbered" /\ sender'[t].pc = "idle"
  <2>1. CASE SenderCheck(t) \/ \E g \in Hosts : SenderCount(t, g)
    BY <1>0, <2>1 DEF SenderCount, SenderCheck, SenderNumber, SenderSend, SenderStates
  <2>2. CASE SenderNumber(t)
    BY <1>0, <2>2 DEF SenderNumber, SenderSend, SenderStates
  <2>3. CASE SenderSend(t)
    BY <1>0, <2>3 DEF SenderNumber, SenderSend, SenderStates
  <2> QED BY <2>1, <2>2, <2>3 DEF SenderStep
<1>4. (t \in Held(h) <=> sender[t].pc = "numbered" /\ sender[t].host = h)
      /\ (t \in Held(h)' <=> sender'[t].pc = "numbered" /\ sender'[t].host = h)
  BY DEF Held
<1> QED BY <1>2, <1>3, <1>4

\* The types, whoever takes a step.
LEMMA SenderNumbersType ==
  ASSUME Shape, NumbersType, NEW t \in Senders,
         SenderStep(t) \/ \E h \in Hosts : SenderCount(t, h)
  PROVE  NumbersType'
<1> DEFINE g == sender[t].host
<1>0. /\ hostDb \in [Hosts -> Records] /\ sender[t].seq \in Nat
      /\ g \in Hosts /\ Touched(g) \in Records
  BY TouchedType DEF Shape, SenderStates
<1>1. \A h \in Hosts : IsFiniteSet(Held(h)')
  <2>1. \A h \in Hosts : IsFiniteSet(Held(h))
    BY DEF NumbersType
  <2>2. IsFiniteSet(Held(g) \cup {t}) /\ IsFiniteSet(Held(g) \ {t})
    BY <1>0, <2>1, FS_AddElement, FS_RemoveElement
  <2>3. \A h \in Hosts :
          Held(h)' = Held(h) \/ (h = g /\ Held(h)' \in {Held(g) \cup {t}, Held(g) \ {t}})
    BY <1>0, HeldSteps
  <2> QED BY <2>1, <2>2, <2>3
<1>2. sent' \in [Conns -> Seq(Nat)]
  <2>1. CASE UNCHANGED sent
    BY <2>1 DEF NumbersType
  <2>2. CASE SenderSend(t)
    <3>1. PICK fd : UNCHANGED sent \/ sent' = [sent EXCEPT ![fd] = Append(@, sender[t].seq)]
      BY <2>2 DEF SenderSend
    <3>2. fd \in Conns => Append(sent[fd], sender[t].seq) \in Seq(Nat)
      BY <1>0 DEF NumbersType
    <3> QED BY <3>1, <3>2 DEF NumbersType
  <2> QED BY <2>1, <2>2 DEF SenderStep, SenderCount, SenderCheck, SenderNumber, history
<1>3. \A h \in Hosts : hostDb'[h].seqNum # 0
  <2>1. Touched(g).seqNum \in Nat \ {0}
    BY <1>0 DEF NumbersType, Touched, Blank, Records
  <2>2. CASE UNCHANGED hostDb
    BY <2>2 DEF NumbersType
  <2>3. CASE Update(g, Touched(g))
    BY <1>0, <2>1, <2>3 DEF NumbersType, Update
  <2>4. CASE Update(g, [Touched(g) EXCEPT !.seqNum = @ + 1])
    <3>1. hostDb'[g] = [Touched(g) EXCEPT !.seqNum = @ + 1]
      BY <1>0, <2>4 DEF Update
    <3>2. hostDb'[g].seqNum = Touched(g).seqNum + 1
      BY <1>0, <3>1 DEF Records
    <3>3. \A h \in Hosts \ {g} : hostDb'[h] = hostDb[h]
      BY <1>0, <2>4 DEF Update
    <3> QED BY <2>1, <3>2, <3>3 DEF NumbersType
  <2> QED BY <2>2, <2>3, <2>4 DEF SenderStep, SenderCount, SenderCheck, SenderNumber, SenderSend
<1> QED BY <1>1, <1>2, <1>3 DEF NumbersType

\* No number is zero: records are made with 1.
LEMMA OtherNumbersType ==
  ASSUME Shape, NumbersType, UNCHANGED <<sent, sender>>,
         \A h \in Hosts : hostDb'[h].seqNum \in {hostDb[h].seqNum, 1}
  PROVE  NumbersType'
<1>1. \A h : Held(h)' = Held(h)
  BY DEF Held
<1> QED BY <1>1 DEF NumbersType

\* Threads number no command, and leave the number of a record or make it 1.
LEMMA HandlerResetsNumbers ==
  ASSUME Shape, NEW c \in Conns, HandlerStep(c)
  PROVE  /\ UNCHANGED <<issued, sent, sender>>
         /\ \A h \in Hosts : hostDb'[h].seqNum \in {hostDb[h].seqNum, 1}
<1> DEFINE g == conns[c].host
<1>0. g \in Hosts /\ hostDb \in [Hosts -> Records]
  BY DEF Shape, ConnRecords
<1>1. /\ UNCHANGED <<issued, sent, sender>>
      /\ \A h \in Hosts \ {g} : hostDb'[h] = hostDb[h]
  BY HandlerTouches
  DEF HandlerStep, HandlerFetch, HandlerMessage, HandlerAnswer, HandlerClosed, HandlerError,
      HandlerErase, HandlerInsert, HandlerAssign, history
<1>2. hostDb'[g].seqNum \in {hostDb[g].seqNum, 1}
  <2>1. CASE UNCHANGED hostDb
    BY <2>1
  <2>2. CASE Update(g, Touched(g))
    BY <1>0, <2>2 DEF Update, Touched, Blank
  <2>3. CASE Update(g, Absent)
    BY <1>0, <2>3 DEF Update, Absent, Blank
  <2>4. CASE HandlerAssign(c)
    <3>1. hostDb[g] \in Records
      BY <1>0
    <3>2. PICK b, m : \/ Update(g, [hostDb[g] EXCEPT !.secret = b])
                      \/ Update(g, [hostDb[g] EXCEPT !.isConnected = b])
                      \/ Update(g, [hostDb[g] EXCEPT !.sockfd = m, !.seqNum = 1])
      BY <2>4 DEF HandlerAssign
    <3>3. /\ [hostDb[g] EXCEPT !.secret = b].seqNum = hostDb[g].seqNum
          /\ [hostDb[g] EXCEPT !.isConnected = b].seqNum = hostDb[g].seqNum
          /\ [hostDb[g] EXCEPT !.sockfd = m, !.seqNum = 1].seqNum = 1
      BY <3>1 DEF Records
    <3> QED BY <1>0, <3>2, <3>3 DEF Update
  <2> QED BY <2>1, <2>2, <2>3, <2>4
      DEF HandlerStep, HandlerFetch, HandlerMessage, HandlerAnswer, HandlerClosed, HandlerError,
          HandlerErase, HandlerInsert, controller
<1> QED BY <1>1, <1>2

LEMMA HandlerNumbersType ==
  ASSUME Shape, NumbersType, NEW c \in Conns, HandlerStep(c)
  PROVE  NumbersType'
BY HandlerResetsNumbers, OtherNumbersType

\* The listener does the same, where it makes a record.
LEMMA ListenerResetsNumbers ==
  ASSUME Shape, ListenerStep
  PROVE  /\ UNCHANGED <<issued, sent, sender>>
         /\ \A h \in Hosts : hostDb'[h].seqNum \in {hostDb[h].seqNum, 1}
<1>1. UNCHANGED <<issued, sent, sender>>
  BY ListenerTouches
  DEF ListenerStep, ListenerAccept, ListenerReceive, ListenerCount, ListenerCheck,
      ListenerVerify, ListenerReply, ListenerConnect, ListenerSockfd, ListenerSpawn, history
<1>2. \A h \in Hosts : hostDb'[h].seqNum \in {hostDb[h].seqNum, 1}
  <2>1. CASE UNCHANGED hostDb
    BY <2>1
  <2>2. CASE /\ listener.pc # "accept"
             /\ \/ Update(Guest, Touched(Guest))
                \/ Update(Guest, [Touched(Guest) EXCEPT !.isConnected = TRUE])
                \/ Update(Guest, [Touched(Guest) EXCEPT !.sockfd = listener.conn])
    <3>1. Guest \in Hosts /\ Touched(Guest) \in Records /\ hostDb \in [Hosts -> Records]
      BY <2>2, GuestType, TouchedType DEF Shape
    <3>2. hostDb'[Guest].seqNum = Touched(Guest).seqNum
      BY <2>2, <3>1 DEF Update, Records
    <3>3. \A h \in Hosts \ {Guest} : hostDb'[h] = hostDb[h]
      BY <2>2, <3>1 DEF Update
    <3>4. Touched(Guest).seqNum \in {hostDb[Guest].seqNum, 1}
      BY DEF Touched, Blank
    <3> QED BY <3>1, <3>2, <3>3, <3>4
  <2> QED BY <2>1, <2>2
      DEF ListenerStep, ListenerAccept, ListenerReceive, ListenerCount, ListenerCheck, At,
          ListenerVerify, ListenerReply, ListenerConnect, ListenerSockfd, ListenerSpawn
<1> QED BY <1>1, <1>2

LEMMA ListenerNumbersType ==
  ASSUME Shape, NumbersType, ListenerStep
  PROVE  NumbersType'
BY ListenerResetsNumbers, OtherNumbersType

\* A number goes from the record to its sender and from there to the connection.
LEMMA SenderNumbering ==
  ASSUME Shape, Admission, AgreementInv, SocketsInv, NumbersType, NumberingInv, NEW t \in Senders,
         SenderStep(t) \/ \E h \in Hosts : SenderCount(t, h),
         NEW h \in Hosts \ (raced \cup stale)
  PROVE  Numbering(h)'
<1> DEFINE g == sender[t].host
<1>1. /\ UNCHANGED <<listener, conns, handler>>
      /\ \A d \in Senders \ {t} : sender'[d] = sender[d]
      /\ \A k \in Hosts \ {g} : hostDb'[k] = hostDb[k]
      /\ \A c \in Conns : sent'[c] = sent[c] \/ (SenderSend(t) /\ conns[c].host = g)
  BY SenderSends
<1>2. Numbering(h) /\ Agreement(h) /\ AbsentInv
  BY DEF NumberingInv, AgreementInv
<1>3. \A pcs : InHand(h, pcs)' <=> InHand(h, pcs)
  BY <1>1 DEF InHand, Guest
<1>4. /\ hostDb \in [Hosts -> Records] /\ sender \in [Senders -> SenderStates]
      /\ g \in Hosts /\ Touched(g) \in Records
  BY TouchedType DEF Shape, SenderStates
\* What stays in order if the record and its socket are let alone.
<1>5. ASSUME Kept(h), Held(h)' = Held(h), \A d \in Held(h) : sender'[d] = sender[d],
             hostDb[h].sockfd # NoFd => sent'[hostDb[h].sockfd] = sent[hostDb[h].sockfd],
             \A d \in Senders : sender'[d].pc \in {"checked", "numbered"} /\ sender'[d].host = h
               => hostDb[h].isConnected
      PROVE  Numbering(h)'
  <2>1. ASSUME hostDb[h].isConnected, ~InHand(h, {"sockfd"})
        PROVE  Numbered(h, hostDb[h].sockfd)'
    <3>1. Numbered(h, hostDb[h].sockfd) /\ hostDb[h].sockfd # NoFd
      BY <1>2, <2>1 DEF Numbering, Agreement, Serves, InHand, Shape, NoFd, Conns
    <3>2. sent'[hostDb[h].sockfd] = sent[hostDb[h].sockfd]
      BY <1>5, <3>1
    <3>3. hostDb'[h].sockfd = hostDb[h].sockfd /\ hostDb'[h].seqNum = hostDb[h].seqNum
      BY <1>5, <2>1 DEF Kept
    <3>4. {sender'[d].seq : d \in Held(h)} = {sender[d].seq : d \in Held(h)}
      BY <1>5
    <3> QED BY <1>5, <3>1, <3>2, <3>3, <3>4 DEF Numbered
  <2>2. ~hostDb[h].isConnected \/ InHand(h, {"sockfd"}) => Unused(h)' /\ Held(h)' = {}
    BY <1>2, <1>5 DEF Numbering, Kept
  <2> QED BY <1>3, <1>5, <2>1, <2>2 DEF Numbering, Kept
<1>6. hostDb'[h] = hostDb[h] => Kept(h)
  BY DEF Kept, Unused
<1>7. CASE h # g
  <2>1. Held(h)' = Held(h) /\ \A d \in Held(h) : sender'[d] = sender[d]
    <3>1. t \notin Held(h)
      BY <1>7 DEF Held
    <3> QED BY <1>1, <1>7, <3>1, HeldSteps DEF Held
  <2>2. hostDb[h].sockfd # NoFd => sent'[hostDb[h].sockfd] = sent[hostDb[h].sockfd]
    <3>1. hostDb[h].sockfd # NoFd => conns[hostDb[h].sockfd].host = h /\ hostDb[h].sockfd \in Conns
      BY <1>4 DEF SocketsInv, Records
    <3> QED BY <1>1, <1>7, <3>1
  <2>3. ASSUME NEW d \in Senders, sender'[d].pc \in {"checked", "numbered"}, sender'[d].host = h
        PROVE  hostDb[h].isConnected
    <3>1. CASE d # t
      BY <1>1, <1>2, <2>3, <3>1 DEF Numbering
    <3>2. CASE d = t
      BY <1>4, <1>7, <2>3, <3>2
      DEF SenderStep, SenderCount, SenderCheck, SenderNumber, SenderSend, SenderStates
    <3> QED BY <3>1, <3>2
  <2> QED BY <1>1, <1>5, <1>6, <1>7, <2>1, <2>2, <2>3
<1>8. CASE h = g
  <2> USE DEF SenderAt
  <2>1. CASE ~SenderNumber(t) /\ ~SenderSend(t)
    <3>1. UNCHANGED hostDb \/ Update(h, Touched(h))
      BY <1>8, <2>1 DEF SenderStep, SenderCount, SenderCheck
    <3>2. Kept(h)
      BY <1>2, <1>6, <3>1, TouchedKept
    <3>3. Held(h)' = Held(h) /\ sender[t].pc # "numbered" /\ UNCHANGED sent
      BY <2>1, HeldSteps DEF SenderStep, SenderCount, SenderCheck, history
    <3>4. \A d \in Held(h) : sender'[d] = sender[d]
      BY <1>1, <3>3 DEF Held
    <3>5. ASSUME NEW d \in Senders, sender'[d].pc \in {"checked", "numbered"}, sender'[d].host = h
          PROVE  hostDb[h].isConnected
      <4>1. CASE d # t
        BY <1>1, <1>2, <3>5, <4>1 DEF Numbering
      <4>2. CASE d = t
        <5>1. SenderCheck(t) /\ Touched(h).isConnected
          BY <1>4, <1>8, <2>1, <3>5, <4>2 DEF SenderStep, SenderCount, SenderCheck, SenderStates
        <5> QED BY <5>1 DEF Touched, Blank
      <4> QED BY <4>1, <4>2
    <3> QED BY <1>5, <3>2, <3>3, <3>4, <3>5
  <2>2. CASE SenderNumber(t)
    \* The number goes from the record to the sender.
    <3> DEFINE c == hostDb[h].sockfd
               n == hostDb[h].seqNum
    <3>1. hostDb[h].isConnected /\ ~InHand(h, {"sockfd"})
      BY <1>2, <1>8, <2>2 DEF SenderNumber, Numbering, InHand
    <3>2. Numbered(h, c) /\ Touched(h) = hostDb[h] /\ n \in Nat \ {0}
      BY <1>2, <1>4, <3>1 DEF Numbering, Touched, AbsentInv, NumbersType, Records
    <3>3. hostDb'[h] = [hostDb[h] EXCEPT !.seqNum = n + 1]
      BY <1>4, <1>8, <2>2, <3>2 DEF SenderNumber, Update
    <3>4. hostDb'[h].isConnected /\ hostDb'[h].sockfd = c /\ hostDb'[h].seqNum = n + 1
      BY <1>4, <3>1, <3>3 DEF Records
    <3>5. sender'[t].seq = n /\ UNCHANGED sent
      BY <1>4, <1>8, <2>2, <3>2 DEF SenderNumber, SenderStates
    <3>6. t \notin Held(h) /\ Held(h)' = Held(h) \cup {t}
      BY <1>8, <2>2, HeldSteps
    <3>7. {sender'[d].seq : d \in Held(h) \cup {t}} = {sender[d].seq : d \in Held(h)} \cup {n}
      <4>1. \A d \in Held(h) : sender'[d] = sender[d]
        BY <1>1, <3>6 DEF Held
      <4> QED BY <3>5, <4>1
    <3>8. 1..((n + 1) - 1) = (1..(n - 1)) \cup {n}
      BY <3>2
    <3>9. /\ Cardinality(Held(h) \cup {t}) = Cardinality(Held(h)) + 1
          /\ Cardinality(Held(h)) \in Nat
      BY <3>6, FS_AddElement, FS_CardinalityType DEF NumbersType
    <3>10. Len(sent[c]) + (Cardinality(Held(h)) + 1) = (n + 1) - 1
      <4>1. Len(sent[c]) + Cardinality(Held(h)) = n - 1
        BY <3>2 DEF Numbered
      <4>2. c \in Conns /\ Len(sent[c]) \in Nat
        <5>1. c \in Conns
          BY <1>2, <3>1 DEF Agreement, Serves, InHand, Shape
        <5>2. sent[c] \in Seq(Nat)
          BY <5>1 DEF NumbersType
        <5> QED BY <5>1, <5>2
      <4>3. \A a, b, m \in Int : a + b = m - 1 => a + (b + 1) = (m + 1) - 1
        OBVIOUS
      <4>4. Len(sent[c]) \in Int /\ Cardinality(Held(h)) \in Int /\ n \in Int
        BY <3>2, <3>9, <4>2
      <4> HIDE DEF n
      <4> QED BY <4>1, <4>3, <4>4
    <3>11. {sent[c][i] : i \in DOMAIN sent[c]} \cup {sender'[d].seq : d \in Held(h) \cup {t}}
             = 1..((n + 1) - 1)
      BY <3>2, <3>7, <3>8 DEF Numbered
    <3>12. Numbered(h, hostDb[h].sockfd)'
      BY <3>4, <3>5, <3>6, <3>9, <3>10, <3>11 DEF Numbered
    <3> QED BY <1>3, <3>1, <3>4, <3>12 DEF Numbering
  <2>3. CASE SenderSend(t)
    \* The number goes from the sender to the connection.
    <3> DEFINE c == hostDb[h].sockfd
               n == hostDb[h].seqNum
               v == sender[t].seq
    <3>1. t \in Held(h) /\ Held(h)' = Held(h) \ {t}
      BY <1>8, <2>3, HeldSteps
    <3>2. hostDb[h].isConnected /\ ~InHand(h, {"sockfd"})
      BY <1>2, <3>1 DEF Numbering, Held
    <3>3. Numbered(h, c) /\ Touched(h) = hostDb[h] /\ n \in Nat \ {0}
      BY <1>2, <1>4, <3>2 DEF Numbering, Touched, AbsentInv, NumbersType, Records
    <3>4. c \in Conns /\ c # NoFd
      BY <1>2, <3>2 DEF Agreement, Serves, InHand, Shape, NoFd, Conns
    <3>5. hostDb'[h] = hostDb[h]
      BY <1>4, <1>8, <2>3, <3>3 DEF SenderSend, Update
    <3>6. sent' = [sent EXCEPT ![c] = Append(@, v)]
      BY <1>8, <2>3, <3>3, <3>4 DEF SenderSend
    <3>7. sent[c] \in Seq(Nat) /\ sent'[c] = Append(sent[c], v) /\ v \in Nat
      BY <1>4, <3>4, <3>6 DEF NumbersType, SenderStates
    <3>8. {sent'[c][i] : i \in DOMAIN sent'[c]} = {sent[c][i] : i \in DOMAIN sent[c]} \cup {v}
      <4>1. /\ DOMAIN sent'[c] = 1..(Len(sent[c]) + 1)
            /\ DOMAIN sent[c] = 1..Len(sent[c]) /\ Len(sent[c]) \in Nat
            /\ \A i \in 1..Len(sent[c]) : sent'[c][i] = sent[c][i]
            /\ sent'[c][Len(sent[c]) + 1] = v
        BY <3>7
      <4>2. \A i : i \in 1..(Len(sent[c]) + 1) <=> i \in 1..Len(sent[c]) \/ i = Len(sent[c]) + 1
        BY <4>1
      <4>3. \A x : x \in {sent'[c][i] : i \in DOMAIN sent'[c]}
                    <=> x \in {sent[c][i] : i \in DOMAIN sent[c]} \/ x = v
        BY <4>1, <4>2
      <4> QED BY <4>3
    <3>9. {sender'[d].seq : d \in Held(h) \ {t}} \cup {v} = {sender[d].seq : d \in Held(h)}
      <4>1. \A d \in Held(h) \ {t} : sender'[d] = sender[d]
        BY <1>1 DEF Held
      <4> QED BY <3>1, <4>1
    <3>10. /\ Cardinality(Held(h) \ {t}) = Cardinality(Held(h)) - 1
           /\ Cardinality(Held(h)) \in Nat
      BY <3>1, FS_RemoveElement, FS_CardinalityType DEF NumbersType
    <3>11. Len(sent'[c]) + (Cardinality(Held(h)) - 1) = n - 1
      <4>1. Len(sent[c]) + Cardinality(Held(h)) = n - 1
        BY <3>3 DEF Numbered
      <4>2. Len(sent'[c]) = Len(sent[c]) + 1 /\ Len(sent[c]) \in Nat
        BY <3>7
      <4> QED BY <3>3, <3>10, <4>1, <4>2
    <3>12. {sent'[c][i] : i \in DOMAIN sent'[c]} \cup {sender'[d].seq : d \in Held(h) \ {t}}
             = 1..(n - 1)
      BY <3>3, <3>8, <3>9 DEF Numbered
    <3>13. Numbered(h, hostDb[h].sockfd)'
      BY <3>1, <3>5, <3>10, <3>11, <3>12 DEF Numbered
    <3>14. \A d \in Senders : sender'[d].pc \in {"checked", "numbered"} /\ sender'[d].host = h
             => hostDb'[h].isConnected
      BY <3>2, <3>5
    <3> QED BY <1>3, <3>2, <3>5, <3>13, <3>14 DEF Numbering
  <2> QED BY <2>1, <2>2, <2>3
<1> QED BY <1>7, <1>8

-----------------------------------------------------------------------------
\* All about the numbers.
Counting == NumbersType /\ SocketsInv /\ NumberingInv

\* The initial state.
LEMMA InitCounting == Init => Counting
<1> SUFFICES ASSUME Init PROVE Counting
  OBVIOUS
<1>1. /\ \A h \in Hosts : ~hostDb[h].isConnected /\ hostDb[h].seqNum = 1 /\ hostDb[h].sockfd = NoFd
      /\ listener.pc = "accept"
      /\ \A t \in Senders : sender[t].pc = "idle"
      /\ sent = [c \in Conns |-> <<>>]
  BY DEF Init, Fresh, Blank
<1>2. \A h \in Hosts : Held(h) = {} /\ ~InHand(h, {"sockfd"})
  BY <1>1 DEF Held, InHand
<1>3. NumbersType
  <2>1. sent \in [Conns -> Seq(Nat)]
    BY <1>1
  <2>2. \A h \in Hosts : hostDb[h].seqNum # 0
    BY <1>1
  <2>3. \A h \in Hosts : IsFiniteSet(Held(h))
    BY <1>2, FS_EmptySet
  <2> QED BY <2>1, <2>2, <2>3 DEF NumbersType
<1>4. SocketsInv
  BY <1>1 DEF SocketsInv
<1>5. NumberingInv
  BY <1>1, <1>2 DEF NumberingInv, Numbering, Unused
<1> QED BY <1>3, <1>4, <1>5 DEF Counting

\* Every step keeps it.
LEMMA NextCounting ==
  Shape /\ Admission /\ AgreementInv /\ Counting /\ [Next]_vars => Counting'
<1> SUFFICES ASSUME Shape, Admission, AgreementInv, NumbersType, SocketsInv, NumberingInv,
                    [Next]_vars
             PROVE  NumbersType' /\ SocketsInv' /\ NumberingInv'
  BY DEF Counting
<1>1. CASE ListenerStep
  BY <1>1, ListenerNumbersType, ListenerSockets, ListenerNumbering DEF NumberingInv
<1>2. ASSUME NEW c \in Conns, HandlerStep(c)
      PROVE  NumbersType' /\ SocketsInv' /\ NumberingInv'
  BY <1>2, HandlerNumbersType, HandlerSockets, HandlerNumbering DEF NumberingInv
<1>3. ASSUME NEW t \in Senders, SenderStep(t) \/ \E h \in Hosts : SenderCount(t, h)
      PROVE  NumbersType' /\ SocketsInv' /\ NumberingInv'
  <2>1. UNCHANGED <<raced, stale>>
    BY <1>3, SenderSends
  <2>2. NumberingInv'
    BY <1>3, <2>1, SenderNumbering DEF NumberingInv
  <2> QED BY <1>3, <2>2, SenderNumbersType, SenderSockets
<1>4. CASE /\ UNCHANGED <<listener, handler, sender, hostDb, sent, raced, stale>>
           /\ \A c \in Conns : peer[c] # "none" => conns'[c].host = conns[c].host
  BY <1>4, OtherNumbersType, UntouchedSockets, UntouchedNumbering
<1>5. ASSUME NEW h \in Hosts, AgentActs(h)
      PROVE  NumbersType' /\ SocketsInv' /\ NumberingInv'
  BY <1>4, <1>5, AgentTouches
<1>6. CASE UNCHANGED vars
  BY <1>4, <1>6 DEF vars, controller, network, history
<1> QED BY <1>1, <1>2, <1>3, <1>5, <1>6, NextIsSomeStep

\* Whatever else happens, the numbers on the present connection of a host and
\* those its senders still hold are 1, 2, ... without a gap or a repetition,
\* unless the host was authenticated in the middle of a reset or reset in the
\* middle of a processCmd.
THEOREM NumbersCorrect == Spec => []NumbersOfThisConnection
<1> DEFINE I == Shape /\ Admission /\ AgreementInv /\ Counting
<1>1. Init => I
  BY InitAdmission, InitAgreement, InitCounting
<1>2. I /\ [Next]_vars => I'
  BY NextAdmission, NextAgreement, NextCounting
<1>3. I => NumbersOfThisConnection
  <2> SUFFICES ASSUME AgreementInv, NumberingInv, NEW h \in Hosts \ (raced \cup stale),
                      hostDb[h].sockfd # NoFd, hostDb[h].isConnected
               PROVE  Numbered(h, hostDb[h].sockfd)
    BY DEF I, Counting, NumbersOfThisConnection, Numbered, Held
  <2> QED BY DEF NumberingInv, Numbering, Unused
<1> QED BY <1>1, <1>2, <1>3, PTL DEF Spec

-----------------------------------------------------------------------------
(* Shutdown *)

\* The loop looks at the flag once for each accept, and not after the last one.
LoopInv ==
  /\ late \in {0, 1}
  /\ late = 1 => terminateExec /\ ~looked
  /\ terminateExec \in BOOLEAN /\ looked \in BOOLEAN

LEMMA InitLoopInv == ShutdownInit => LoopInv
<1> SUFFICES ASSUME ShutdownInit PROVE LoopInv
  OBVIOUS
<1>1. late = 0 => late \in {0, 1} /\ late # 1
  OBVIOUS
<1>2. late = 0 /\ terminateExec = FALSE /\ looked = FALSE
  BY DEF ShutdownInit
<1> QED BY <1>1, <1>2, Zenon DEF LoopInv

\* What the handlers, the senders and the agents do is no step of the loop.
LEMMA OtherStepsKeepLoop ==
  ASSUME UNCHANGED <<terminateExec, looked, late>>, LoopInv
  PROVE  LoopInv'
BY DEF LoopInv

LEMMA NextLoopInv == LoopInv /\ [ShutdownNext]_allVars => LoopInv'
<1> SUFFICES ASSUME LoopInv, [ShutdownNext]_allVars PROVE LoopInv'
  OBVIOUS
<1> USE DEF loop, process
<1>1. CASE Look
  \* While the flag is not set, nothing came late.
  BY <1>1 DEF Look, LoopInv
<1>2. CASE Accept
  <2>1. looked /\ looked' = FALSE /\ terminateExec' = terminateExec
    BY <1>2 DEF Accept, AtAccept
  <2>2. late = 0
    BY <2>1 DEF LoopInv
  <2>3. late' = IF terminateExec THEN late + 1 ELSE late
    BY <1>2 DEF Accept
  <2>4. late' \in {0, 1} /\ (late' = 1 => terminateExec)
    <3>1. CASE terminateExec
      BY <3>1, <2>2, <2>3
    <3>2. CASE ~terminateExec
      BY <3>2, <2>2, <2>3
    <3> QED BY <3>1, <3>2
  <2> QED BY <2>1, <2>4, Zenon DEF LoopInv
<1>3. CASE AcceptFails
  BY <1>3 DEF AcceptFails, AtAccept, LoopInv
<1>4. CASE StopListening \/ Serve \/ OtherStep \/ TypeExit \/ CleanUp
  <2>1. UNCHANGED <<terminateExec, looked, late>>
    BY <1>4 DEF StopListening, Serve, OtherStep, TypeExit, CleanUp
  <2> QED BY <2>1, OtherStepsKeepLoop
<1>5. CASE Sigterm
  <2>1. /\ terminateExec' = TRUE /\ ~terminateExec /\ late' = late
        /\ looked' \in {looked, FALSE}
    BY <1>5 DEF Sigterm
  <2> QED BY <2>1 DEF LoopInv
<1>6. CASE UNCHANGED allVars
  BY <1>6, OtherStepsKeepLoop DEF allVars
<1> QED BY <1>1, <1>2, <1>3, <1>4, <1>5, <1>6 DEF ShutdownNext, MainStep

\* runListener and sigterm_handler: however the signal falls between the look at
\* terminateExec and accept, at most one more connection is accepted.
THEOREM StopsAfterOneMore == ShutdownSpec => []AtMostOneMore
<1>1. LoopInv => AtMostOneMore
  BY DEF LoopInv, AtMostOneMore
<1> QED BY InitLoopInv, NextLoopInv, <1>1, PTL DEF ShutdownSpec

-----------------------------------------------------------------------------
(* What HostDb promises holds while the controller stops *)

\* A step is one of HostDb, or does nothing there, closes the listening socket,
\* or ends the process.
LEMMA StepOfHostDb ==
  ShutdownNext => \/ [Next]_vars
                  \/ StopListening
                  \/ UNCHANGED <<controller, network, agent, history>> /\ up' = FALSE
<1> SUFFICES ASSUME ShutdownNext
             PROVE  \/ [Next]_vars
                    \/ StopListening
                    \/ UNCHANGED <<controller, network, agent, history>> /\ up' = FALSE
  OBVIOUS
<1>1. CASE Look \/ AcceptFails \/ TypeExit
  BY <1>1 DEF Look, AcceptFails, TypeExit
<1>2. CASE Accept \/ Serve
  BY <1>2 DEF Accept, Serve, Next, ListenerStep
<1>3. CASE OtherStep
  BY <1>3 DEF OtherStep, Next
<1>4. CASE Sigterm
  BY <1>4 DEF Sigterm, vars
<1>5. CASE CleanUp
  BY <1>5 DEF CleanUp
<1> QED BY <1>1, <1>2, <1>3, <1>4, <1>5 DEF ShutdownNext, MainStep

\* The connections that are turned away are served by no thread.
LEMMA StopListeningAdmission ==
  ASSUME Shape, Admission, AgreementInv, StopListening
  PROVE  Shape' /\ Admission' /\ AgreementInv'
<1>1. /\ UNCHANGED <<hostDb, listener, handler, sender, peer, raced>>
      /\ listener.pc = "accept" /\ backlog' = <<>>
      /\ conns' = [c \in Conns |-> IF \E i \in DOMAIN backlog : backlog[i] = c
                                   THEN [conns[c] EXCEPT !.reply = "no"] ELSE conns[c]]
  BY DEF StopListening, controller, history, At
<1>2. conns' \in [Conns -> ConnRecords] /\ \A c \in Conns : conns'[c].host = conns[c].host
  BY <1>1 DEF Shape, ConnRecords
<1>3. Shape'
  BY <1>1, <1>2 DEF Shape
<1>4. \A c \in Conns : handler[c].pc # "none" => conns'[c] = conns[c]
  <2>1. \A i \in DOMAIN backlog : handler[backlog[i]].pc = "none"
    BY DEF Shape, Admission, BacklogFresh, Unserved
  <2> QED BY <1>1, <2>1
<1>5. ListenerKnows' /\ BacklogFresh'
  BY <1>1 DEF ListenerKnows, BacklogFresh
<1>6. ServedAdmitted'
  BY <1>1, <1>4 DEF Admission, ServedAdmitted, Admitted
<1>7. AbsentInv'
  BY <1>1 DEF AgreementInv, AbsentInv
<1>8. AgreementInv'
  BY <1>1, <1>2, <1>7, BystanderAgreement
<1> QED BY <1>3, <1>5, <1>6, <1>8 DEF Admission

LEMMA NextShutdownAgreement ==
  Shape /\ Admission /\ AgreementInv /\ [ShutdownNext]_allVars
    => (Shape /\ Admission /\ AgreementInv)'
<1> SUFFICES ASSUME Shape, Admission, AgreementInv, [ShutdownNext]_allVars
             PROVE  Shape' /\ Admission' /\ AgreementInv'
  OBVIOUS
<1>1. CASE [Next]_vars
  BY <1>1, NextAdmission, NextAgreement
<1>2. CASE StopListening
  BY <1>2, StopListeningAdmission
<1>3. CASE UNCHANGED <<controller, network, agent, history>>
  <2>1. UNCHANGED <<hostDb, listener, handler, sender, backlog, conns, peer, raced>>
    BY <1>3 DEF controller, network, history
  <2>2. Shape' /\ Admission'
    BY <2>1 DEF Shape, Admission, ListenerKnows, BacklogFresh, ServedAdmitted, Unserved, Admitted
  <2>3. AbsentInv'
    BY <2>1 DEF AgreementInv, AbsentInv
  <2> QED BY <2>1, <2>2, <2>3, BystanderAgreement
<1>4. CASE UNCHANGED allVars
  BY <1>1, <1>4 DEF allVars
<1> QED BY <1>1, <1>2, <1>3, <1>4, StepOfHostDb

-----------------------------------------------------------------------------
(* Why it stops *)

\* What ends the process is done: nothing happens afterwards.
LEMMA NothingAfterTheEnd == ShutdownNext => up
<1> USE DEF At, HandlerAt, SenderAt, AtAccept
<1>1. ListenerStep => up
  BY DEF ListenerStep, ListenerAccept, ListenerReceive, ListenerCount, ListenerCheck,
         ListenerVerify, ListenerReply, ListenerConnect, ListenerSockfd, ListenerSpawn
<1>2. ASSUME NEW c \in Conns, HandlerStep(c) PROVE up
  BY <1>2 DEF HandlerStep, HandlerFetch, HandlerMessage, HandlerAnswer, HandlerClosed,
              HandlerError, HandlerErase, HandlerInsert, HandlerAssign
<1>3. ASSUME NEW t \in Senders, SenderStep(t) \/ \E h \in Hosts : SenderCount(t, h) PROVE up
  BY <1>3 DEF SenderStep, SenderCount, SenderCheck, SenderNumber, SenderSend
<1>4. ASSUME NEW h \in Hosts, AgentActs(h) PROVE up
  BY <1>4 DEF AgentActs, AgentConnect, AgentStep, AgentRequest, AgentAnswered, AgentMessage,
              AgentGone
<1>5. Next => up
  BY <1>1, <1>2, <1>3, <1>4, NextIsSomeStep
<1>6. MainStep => up
  BY <1>1 DEF MainStep, Look, Accept, AcceptFails, StopListening, Serve, ListenerStep
<1>7. OtherStep => up
  BY <1>5 DEF OtherStep, Next
<1> QED BY <1>6, <1>7 DEF ShutdownNext, Sigterm, TypeExit, CleanUp

\* send() ends the process on a connection that was used after its agent went.
LEMMA SendEnds ==
  ASSUME Shape, NEW c \in Conns, Send(c), ~up'
  PROVE  peer'[c] = "broken"
BY DEF Shape, Send

\* A thread, the listener or a sender ends the process only by using a connection
\* that was reset or is gone, or one that a reset took from it.
LEMMA HostDbEnds ==
  ASSUME Shape, AgreementInv, Next, up, ~up'
  PROVE  (\E c \in Conns : peer'[c] \in {"rst", "broken"}) \/ raced # {}
<1> DEFINE Lost == \E c \in Conns : peer'[c] \in {"rst", "broken"}
<1>1. CASE ListenerStep
  <2>1. CASE ListenerReceive
    <3>1. Reset(listener.conn) /\ peer' = peer /\ listener.pc = "recv"
      BY <2>1 DEF ListenerReceive, network, At
    <3>2. listener.conn \in Conns
      BY <3>1 DEF Shape
    <3> QED BY <3>1, <3>2 DEF Reset
  <2>2. CASE ListenerReply
    <3>1. Send(listener.conn) /\ listener.conn \in Conns
      BY <2>2 DEF ListenerReply, Shape
    <3> QED BY <3>1, SendEnds
  <2> QED BY <1>1, <2>1, <2>2 DEF ListenerStep, ListenerAccept, ListenerCount, ListenerCheck,
            ListenerVerify, ListenerConnect, ListenerSockfd, ListenerSpawn
<1>2. ASSUME NEW c \in Conns, HandlerStep(c) PROVE Lost \/ raced # {}
  <2> DEFINE h == conns[c].host
  <2>1. h \in Hosts /\ handler[c].fd \in Conns \cup {NoFd}
    BY DEF Shape, ConnRecords, Handlers
  <2>2. CASE HandlerAnswer(c)
    <3>1. Touched(h).sockfd \in Conns \cup {NoFd}
      BY <2>1, TouchedType DEF Records
    <3>2. Touched(h).sockfd # NoFd /\ Send(Touched(h).sockfd)
      BY <2>2 DEF HandlerAnswer
    <3> QED BY <3>1, <3>2, SendEnds
  <2>3. CASE HandlerError(c)
    <3>1. handler[c].pc = "recv" /\ peer' = peer
      BY <2>3 DEF HandlerError, HandlerAt, network
    <3>2. CASE handler[c].fd # NoFd
      BY <2>1, <2>3, <3>1, <3>2 DEF HandlerError, Reset
    \* Only in the middle of a reset the record holds standard input.
    <3>3. CASE handler[c].fd = NoFd
      <4>1. c # NoFd
        BY DEF Conns, NoFd
      <4>2. Serves(h, c)
        BY <3>1 DEF Serves
      <4>3. ~Agreement(h)
        BY <3>1, <3>3, <4>1, <4>2 DEF Agreement
      <4> QED BY <2>1, <4>3 DEF AgreementInv
    <3> QED BY <3>2, <3>3
  <2> QED BY <1>2, <2>2, <2>3 DEF HandlerStep, HandlerFetch, HandlerMessage, HandlerClosed,
            HandlerErase, HandlerInsert, HandlerAssign
<1>3. ASSUME NEW t \in Senders, SenderStep(t) \/ \E h \in Hosts : SenderCount(t, h)
      PROVE  Lost
  <2> DEFINE h == sender[t].host
  <2>1. SenderSend(t)
    BY <1>3 DEF SenderStep, SenderCheck, SenderNumber, SenderCount
  <2>2. h \in Hosts
    BY DEF Shape, SenderStates
  <2>3. Touched(h).sockfd \in Conns \cup {NoFd}
    BY <2>2, TouchedType DEF Records
  <2>4. Touched(h).sockfd # NoFd /\ Send(Touched(h).sockfd)
    BY <2>1 DEF SenderSend
  <2> QED BY <2>3, <2>4, SendEnds
<1>4. ASSUME NEW h \in Hosts, AgentActs(h) PROVE FALSE
  BY <1>4 DEF AgentActs, AgentConnect, AgentStep, AgentRequest, AgentAnswered, AgentMessage,
              AgentGone
<1> QED BY <1>1, <1>2, <1>3, <1>4, NextIsSomeStep

\* Hosts that were authenticated in the middle of a reset stay noted.
LEMMA RacedGrows == Next => raced \subseteq raced'
<1> USE DEF history
<1>1. ListenerStep => raced \subseteq raced'
  BY DEF ListenerStep, ListenerAccept, ListenerReceive, ListenerCount, ListenerCheck,
         ListenerVerify, ListenerReply, ListenerConnect, ListenerSockfd, ListenerSpawn
<1>2. ASSUME NEW c \in Conns, HandlerStep(c) PROVE raced' = raced
  BY <1>2 DEF HandlerStep, HandlerFetch, HandlerMessage, HandlerAnswer, HandlerClosed,
              HandlerError, HandlerErase, HandlerInsert, HandlerAssign
<1>3. ASSUME NEW t \in Senders, SenderStep(t) \/ \E h \in Hosts : SenderCount(t, h)
      PROVE  raced' = raced
  BY <1>3 DEF SenderStep, SenderCount, SenderCheck, SenderNumber, SenderSend
<1>4. ASSUME NEW h \in Hosts, AgentActs(h) PROVE raced' = raced
  BY <1>4 DEF AgentActs, AgentConnect, AgentStep, AgentRequest, AgentAnswered, AgentMessage,
              AgentGone
<1> QED BY <1>1, <1>2, <1>3, <1>4, NextIsSomeStep

\* The step that ends the process has its reason, and the reason lasts.
LEMMA NextReasonToStop ==
  Shape /\ AgreementInv /\ ReasonToStop /\ [ShutdownNext]_allVars => ReasonToStop'
<1> SUFFICES ASSUME Shape, AgreementInv, ReasonToStop, [ShutdownNext]_allVars, ~up'
             PROVE  ReasonToStop'
  BY DEF ReasonToStop
<1>1. CASE UNCHANGED allVars
  <2>1. UNCHANGED <<up, console, peer, raced, terminateExec, listener, restarts>>
    BY <1>1 DEF allVars, vars, controller, network, history, loop, process
  <2> QED BY <2>1 DEF ReasonToStop
<1>2. CASE ShutdownNext
  <2>1. up
    BY <1>2, NothingAfterTheEnd
  <2>2. CASE Next
    <3>1. (\E c \in Conns : peer'[c] \in {"rst", "broken"}) \/ raced # {}
      BY <2>1, <2>2, HostDbEnds
    <3>2. raced \subseteq raced'
      BY <2>2, RacedGrows
    <3> QED BY <3>1, <3>2 DEF ReasonToStop
  <2>3. CASE Sigterm
    <3>1. /\ ~restarts /\ restarts' = restarts
          /\ listener.pc = "recv" /\ listener' = listener
          /\ terminateExec'
      BY <2>1, <2>3 DEF Sigterm, At, controller, process
    <3> QED BY <3>1 DEF ReasonToStop
  <2>4. CASE CleanUp
    BY <2>4 DEF CleanUp, process, ReasonToStop
  <2>5. CASE Accept \/ Serve \/ OtherStep
    BY <2>2, <2>5 DEF Accept, Serve, OtherStep, Next, ListenerStep
  <2>6. CASE Look \/ AcceptFails \/ StopListening \/ TypeExit
    BY <2>1, <2>6 DEF Look, AcceptFails, StopListening, TypeExit, vars
  <2> QED BY <1>2, <2>3, <2>4, <2>5, <2>6 DEF ShutdownNext, MainStep
<1> QED BY <1>1, <1>2

\* exit() and SIGPIPE, wherever they are: whatever the order of what the listener,
\* the threads, the senders, the agents and the signal do, the controller ends
\* for one of the reasons of ReasonToStop and for no other.
THEOREM StopsForAReason == ShutdownSpec => []ReasonToStop
<1>1. ShutdownInit => Shape /\ Admission /\ AgreementInv /\ ReasonToStop
  <2>1. ShutdownInit => up
    BY DEF ShutdownInit, Init
  <2> QED BY <2>1, InitAdmission, InitAgreement DEF ShutdownInit, ReasonToStop
<1>2. Shape /\ Admission /\ AgreementInv /\ ReasonToStop /\ [ShutdownNext]_allVars
        => (Shape /\ Admission /\ AgreementInv /\ ReasonToStop)'
  BY NextShutdownAgreement, NextReasonToStop
<1> QED BY <1>1, <1>2, PTL DEF ShutdownSpec

-----------------------------------------------------------------------------
(* The types, with the bounds of the numbers and of the sockets *)

\* An agent that is not down has a connection that was made, and what it sends
\* fits.
AgentsType ==
  /\ inbox \in [Conns -> 0..MaxInbox]
  /\ agent \in [Hosts -> [pc : {"down", "connected", "waiting", "running"},
                          conn : Conns \cup {NoFd}]]
  /\ \A h \in Hosts :
       agent[h].pc # "down" => agent[h].conn \in Conns /\ peer[agent[h].conn] # "none"

\* The senders that may still number a command.
Pending == {t \in Senders : sender[t].pc \in {"counted", "checked"}}

\* A number held, sent or to be given next is at most one more than the commands
\* numbered, and with the commands still to be numbered these keep to the bound.
NumbersBounded ==
  /\ issued \in Nat
  /\ IsFiniteSet(Pending) /\ issued + Cardinality(Pending) <= MaxCmds
  /\ \A h \in Hosts : hostDb[h].seqNum \in 1..(issued + 1)
  /\ \A t \in Senders : /\ sender[t].seq \in 0..issued
                        /\ sender[t].pc = "numbered" => sender[t].seq # 0
  /\ sent \in [Conns -> Seq(1..MaxCmds)]

Bounded ==
  /\ AgentsType /\ NumbersBounded
  /\ up \in BOOLEAN /\ raced \subseteq Hosts /\ stale \subseteq Hosts

\* Who takes a step, with the bound of the commands.
LEMMA NextIsBoundedStep ==
  Next => \/ ListenerStep
          \/ \E c \in Conns : HandlerStep(c)
          \/ CommandInput
          \/ \E t \in Senders : SenderStep(t)
          \/ \E h \in Hosts : AgentActs(h)
BY DEF Next, AgentActs

\* Who does not number a command keeps the bounds.
LEMMA NumbersFrame ==
  ASSUME NumbersBounded, UNCHANGED <<issued, sent, sender>>,
         \A h \in Hosts : hostDb'[h].seqNum \in {hostDb[h].seqNum, 1}
  PROVE  NumbersBounded'
<1>1. Pending' = Pending
  BY DEF Pending
<1>2. issued \in Nat
  BY DEF NumbersBounded
<1>3. 1 \in 1..(issued + 1)
  BY <1>2
<1> QED BY <1>1, <1>3 DEF NumbersBounded

\* Who makes no agent act keeps their types.
LEMMA AgentsFrame ==
  ASSUME AgentsType, UNCHANGED agent, inbox' \in [Conns -> 0..MaxInbox],
         \A c \in Conns : peer[c] # "none" => peer'[c] # "none"
  PROVE  AgentsType'
BY DEF AgentsType

LEMMA ListenerBounded ==
  ASSUME Shape, Bounded, ListenerStep
  PROVE  Bounded'
<1>1. NumbersBounded'
  BY ListenerResetsNumbers, NumbersFrame DEF Bounded
<1>2. AgentsType'
  <2>1. UNCHANGED <<agent, inbox>> /\ \A c \in Conns : peer[c] # "none" => peer'[c] # "none"
    <3>1. CASE ListenerReply
      BY <3>1, SendKeepsPeers DEF ListenerReply
    <3> QED BY <3>1
            DEF ListenerStep, ListenerAccept, ListenerReceive, ListenerCount, ListenerCheck,
                ListenerVerify, ListenerConnect, ListenerSockfd, ListenerSpawn, network
  <2>2. inbox' \in [Conns -> 0..MaxInbox]
    BY <2>1 DEF Bounded, AgentsType
  <2> QED BY <2>1, <2>2, AgentsFrame DEF Bounded
<1>3. up' \in BOOLEAN
  BY DEF Bounded, Send, ListenerStep, ListenerAccept, ListenerReceive, ListenerCount,
         ListenerCheck, ListenerVerify, ListenerReply, ListenerConnect, ListenerSockfd,
         ListenerSpawn
<1>4. raced' \subseteq Hosts /\ stale' = stale
  <2>1. CASE ListenerCheck
    <3>1. Guest \in Hosts
      BY <2>1, GuestType DEF ListenerCheck, At
    <3> QED BY <2>1, <3>1 DEF ListenerCheck, Bounded
  <2> QED BY <2>1
          DEF ListenerStep, ListenerAccept, ListenerReceive, ListenerCount, ListenerVerify,
              ListenerReply, ListenerConnect, ListenerSockfd, ListenerSpawn, history, Bounded
<1> QED BY <1>1, <1>2, <1>3, <1>4 DEF Bounded

LEMMA HandlerBounded ==
  ASSUME Shape, Bounded, NEW c \in Conns, HandlerStep(c)
  PROVE  Bounded'
<1>1. NumbersBounded'
  BY HandlerResetsNumbers, NumbersFrame DEF Bounded
<1>2. AgentsType'
  <2>1. UNCHANGED agent /\ \A d \in Conns : peer[d] # "none" => peer'[d] # "none"
    <3>1. CASE HandlerAnswer(c)
      BY <3>1, SendKeepsPeers DEF HandlerAnswer
    <3> QED BY <3>1
            DEF HandlerStep, HandlerFetch, HandlerMessage, HandlerClosed, HandlerError,
                HandlerErase, HandlerInsert, HandlerAssign, network
  <2>2. inbox' \in [Conns -> 0..MaxInbox]
    <3>1. CASE HandlerMessage(c)
      <4>1. PICK fd : inbox[fd] > 0 /\ inbox' = [inbox EXCEPT ![fd] = @ - 1]
        BY <3>1 DEF HandlerMessage
      <4>2. inbox \in [Conns -> 0..MaxInbox] /\ MaxInbox \in Nat
        BY HostDbAssumption DEF Bounded, AgentsType
      <4>3. fd \in Conns => inbox[fd] - 1 \in 0..MaxInbox
        <5>1. fd \in Conns => inbox[fd] \in 0..MaxInbox
          BY <4>2
        <5> QED BY <4>1, <4>2, <5>1
      <4> QED BY <4>1, <4>2, <4>3
    <3> QED BY <3>1
            DEF HandlerStep, HandlerFetch, HandlerAnswer, HandlerClosed, HandlerError,
                HandlerErase, HandlerInsert, HandlerAssign, network, Bounded, AgentsType
  <2> QED BY <2>1, <2>2, AgentsFrame DEF Bounded
<1>3. up' \in BOOLEAN
  BY DEF Bounded, Send, HandlerStep, HandlerFetch, HandlerMessage, HandlerAnswer,
         HandlerClosed, HandlerError, HandlerErase, HandlerInsert, HandlerAssign
<1>4. raced' = raced /\ stale' \subseteq stale \cup {conns[c].host}
  BY HandlerTouches
  DEF HandlerStep, HandlerFetch, HandlerMessage, HandlerAnswer, HandlerClosed, HandlerError,
      HandlerErase, HandlerInsert, HandlerAssign, history
<1>5. conns[c].host \in Hosts
  BY DEF Shape, ConnRecords
<1> QED BY <1>1, <1>2, <1>3, <1>4, <1>5 DEF Bounded

\* processCmd is called: the bound leaves room for its command.
LEMMA InputBounded ==
  ASSUME Shape, Bounded, CommandInput
  PROVE  Bounded'
<1>1. PICK t \in Senders, h \in Hosts :
        /\ issued + Cardinality(Pending) < MaxCmds
        /\ SenderCount(t, h)
  BY DEF CommandInput, Pending
<1>2. /\ UNCHANGED <<hostDb, up, peer, inbox, agent, issued, sent, raced, stale>>
      /\ sender' = [sender EXCEPT ![t].pc = "counted", ![t].host = h]
      /\ sender[t].pc = "idle"
  BY <1>1 DEF SenderCount, SenderAt, network, history
<1>3. sender \in [Senders -> SenderStates]
  BY DEF Shape
<1>4. /\ sender'[t].pc = "counted" /\ sender'[t].seq = sender[t].seq
      /\ \A d \in Senders \ {t} : sender'[d] = sender[d]
  BY <1>2, <1>3 DEF SenderStates
<1>5. Pending' = Pending \cup {t} /\ t \notin Pending
  BY <1>2, <1>4 DEF Pending
<1>6. IsFiniteSet(Pending') /\ issued + Cardinality(Pending') <= MaxCmds
  <2>1. IsFiniteSet(Pending) /\ issued \in Nat
    BY DEF Bounded, NumbersBounded
  <2>2. /\ IsFiniteSet(Pending') /\ Cardinality(Pending') = Cardinality(Pending) + 1
        /\ Cardinality(Pending) \in Nat
    BY <1>5, <2>1, FS_AddElement, FS_CardinalityType
  <2> QED BY <1>1, <2>1, <2>2, HostDbAssumption
<1>7. NumbersBounded'
  <2>1. \A d \in Senders : /\ sender'[d].seq \in 0..issued
                           /\ sender'[d].pc = "numbered" => sender'[d].seq # 0
    BY <1>4 DEF Bounded, NumbersBounded
  <2> QED BY <1>2, <1>6, <2>1 DEF Bounded, NumbersBounded
<1>8. AgentsType'
  BY <1>2 DEF Bounded, AgentsType
<1> QED BY <1>2, <1>7, <1>8 DEF Bounded

\* A command is numbered with the number of its record, which is within the bound.
LEMMA SenderBounded ==
  ASSUME Shape, Bounded, NEW t \in Senders, SenderStep(t)
  PROVE  Bounded'
<1> DEFINE g == sender[t].host
           n == Touched(g).seqNum
           k == Cardinality(Pending)
<1>0. /\ hostDb \in [Hosts -> Records] /\ sender \in [Senders -> SenderStates]
      /\ g \in Hosts /\ Touched(g) \in Records
  BY TouchedType DEF Shape, SenderStates
<1>1. /\ issued \in Nat /\ k \in Nat /\ IsFiniteSet(Pending) /\ issued + k <= MaxCmds
      /\ MaxCmds \in Nat
  BY FS_CardinalityType, HostDbAssumption DEF Bounded, NumbersBounded
<1>2. n \in 1..(issued + 1)
  BY <1>0, <1>1 DEF Bounded, NumbersBounded, Touched, Blank
<1>3. \A d \in Senders : /\ sender[d].seq \in 0..issued
                         /\ sender[d].pc = "numbered" => sender[d].seq # 0
  BY DEF Bounded, NumbersBounded
<1>4. \A d \in Senders \ {t} : sender'[d] = sender[d]
  BY <1>0 DEF SenderStep, SenderCheck, SenderNumber, SenderSend
<1>5. \A h \in Hosts \ {g} : hostDb'[h] = hostDb[h]
  BY <1>0 DEF SenderStep, SenderCheck, SenderNumber, SenderSend, Update
<1>6. CASE SenderCheck(t)
  <2>1. /\ UNCHANGED <<up, peer, inbox, agent, issued, sent, raced, stale>>
        /\ sender'[t].seq = sender[t].seq
        /\ sender[t].pc = "counted" /\ sender'[t].pc \in {"checked", "idle"}
        /\ hostDb'[g].seqNum = n
    BY <1>0, <1>6 DEF SenderCheck, SenderAt, Update, SenderStates, network, history
  <2>2. Pending' \in SUBSET Pending
    BY <1>4, <2>1 DEF Pending
  <2>3. IsFiniteSet(Pending') /\ Cardinality(Pending') <= k /\ Cardinality(Pending') \in Nat
    BY <1>1, <2>2, FS_Subset, FS_CardinalityType
  <2>4. issued' + Cardinality(Pending') <= MaxCmds
    BY <1>1, <2>1, <2>3
  <2>5. NumbersBounded'
    BY <1>1, <1>2, <1>3, <1>4, <1>5, <2>1, <2>3, <2>4 DEF Bounded, NumbersBounded
  <2>6. AgentsType'
    BY <2>1 DEF Bounded, AgentsType
  <2> QED BY <2>1, <2>5, <2>6 DEF Bounded
<1>7. CASE SenderNumber(t)
  <2>1. /\ UNCHANGED <<up, peer, inbox, agent, sent, raced, stale>> /\ issued' = issued + 1
        /\ sender[t].pc = "checked" /\ sender'[t].pc = "numbered" /\ sender'[t].seq = n
    BY <1>0, <1>7 DEF SenderNumber, SenderAt, SenderStates, network
  <2>2. hostDb'[g].seqNum = n + 1
    <3>1. hostDb'[g] = [Touched(g) EXCEPT !.seqNum = @ + 1]
      BY <1>0, <1>7 DEF SenderNumber, Update
    <3> QED BY <1>0, <3>1 DEF Records
  <2>3. Pending' = Pending \ {t} /\ t \in Pending
    BY <1>4, <2>1 DEF Pending
  <2>4. IsFiniteSet(Pending') /\ Cardinality(Pending') = k - 1
    BY <1>1, <2>3, FS_RemoveElement
  <2>5. issued' + Cardinality(Pending') <= MaxCmds
    BY <1>1, <2>1, <2>4
  <2>6. \A h \in Hosts : hostDb'[h].seqNum \in 1..(issued' + 1)
    <3>1. \A h \in Hosts \ {g} : hostDb'[h].seqNum \in 1..(issued + 1)
      BY <1>5 DEF Bounded, NumbersBounded
    <3>2. n + 1 \in 1..(issued + 1 + 1)
      BY <1>1, <1>2
    <3> QED BY <1>1, <2>1, <2>2, <3>1, <3>2
  <2>7. \A d \in Senders : /\ sender'[d].seq \in 0..issued'
                           /\ sender'[d].pc = "numbered" => sender'[d].seq # 0
    <3>1. n \in 0..(issued + 1) /\ n # 0 /\ 0..issued \subseteq 0..(issued + 1)
      BY <1>1, <1>2
    <3> QED BY <1>3, <1>4, <2>1, <3>1
  <2>8. NumbersBounded'
    BY <1>1, <2>1, <2>4, <2>5, <2>6, <2>7 DEF Bounded, NumbersBounded
  <2>9. AgentsType'
    BY <2>1 DEF Bounded, AgentsType
  <2> QED BY <2>1, <2>8, <2>9 DEF Bounded
<1>8. CASE SenderSend(t)
  <2>1. /\ UNCHANGED <<inbox, agent, issued, raced, stale>>
        /\ sender[t].pc = "numbered" /\ sender'[t].pc = "idle" /\ sender'[t].seq = 0
        /\ hostDb'[g].seqNum = n
    BY <1>0, <1>8 DEF SenderSend, SenderAt, Update, SenderStates
  <2>2. Pending' = Pending
    BY <1>4, <2>1 DEF Pending
  <2>3. /\ up' \in BOOLEAN
        /\ \A c \in Conns : peer[c] # "none" => peer'[c] # "none"
    <3>1. CASE UNCHANGED <<up, peer>>
      BY <3>1 DEF Bounded
    <3>2. CASE Send(Touched(g).sockfd)
      BY <3>2, SendKeepsPeers DEF Send
    <3> QED BY <1>8, <3>1, <3>2 DEF SenderSend
  <2>4. sent' \in [Conns -> Seq(1..MaxCmds)]
    <3>1. PICK fd : UNCHANGED sent \/ sent' = [sent EXCEPT ![fd] = Append(@, sender[t].seq)]
      BY <1>8 DEF SenderSend
    <3>2. sender[t].seq \in 1..MaxCmds
      BY <1>1, <1>3, <2>1
    <3>3. sent \in [Conns -> Seq(1..MaxCmds)]
      BY DEF Bounded, NumbersBounded
    <3>4. fd \in Conns => Append(sent[fd], sender[t].seq) \in Seq(1..MaxCmds)
      BY <3>2, <3>3
    <3> QED BY <3>1, <3>3, <3>4
  <2>5. NumbersBounded'
    <3>1. 0 \in 0..issued
      BY <1>1
    <3> QED BY <1>1, <1>2, <1>3, <1>4, <1>5, <2>1, <2>2, <2>4, <3>1 DEF Bounded, NumbersBounded
  <2>6. AgentsType'
    BY <2>1, <2>3, AgentsFrame DEF Bounded, AgentsType
  <2> QED BY <2>1, <2>3, <2>5, <2>6 DEF Bounded
<1> QED BY <1>6, <1>7, <1>8 DEF SenderStep

LEMMA AgentBounded ==
  ASSUME Shape, Bounded, NEW h \in Hosts, AgentActs(h)
  PROVE  Bounded'
<1>1. UNCHANGED <<hostDb, sender, up, issued, sent, raced, stale>>
  BY DEF AgentActs, AgentConnect, AgentStep, AgentRequest, AgentAnswered, AgentMessage,
         AgentGone, controller, history
<1>2. NumbersBounded'
  BY <1>1, NumbersFrame DEF Bounded
<1>3. /\ agent \in [Hosts -> [pc : {"down", "connected", "waiting", "running"},
                              conn : Conns \cup {NoFd}]]
      /\ inbox \in [Conns -> 0..MaxInbox] /\ peer \in [Conns -> Peers] /\ MaxInbox \in Nat
      /\ \A g \in Hosts :
           agent[g].pc # "down" => agent[g].conn \in Conns /\ peer[agent[g].conn] # "none"
  BY HostDbAssumption DEF Bounded, AgentsType, Shape
<1>4. CASE \E good \in BOOLEAN : AgentConnect(h, good)
  <2>1. PICK c \in Conns : /\ peer' = [peer EXCEPT ![c] = "open"]
                           /\ agent' = [agent EXCEPT ![h] = [pc |-> "connected", conn |-> c]]
                           /\ inbox' = inbox
    BY <1>4 DEF AgentConnect
  <2> QED BY <1>1, <1>2, <1>3, <2>1 DEF Bounded, AgentsType
<1>5. CASE AgentRequest(h)
  BY <1>1, <1>2, <1>3, <1>5 DEF Bounded, AgentsType, AgentRequest
<1>6. CASE AgentAnswered(h) \/ \E how \in Failures : AgentGone(h, how)
  <2>1. /\ inbox' = inbox
        /\ \/ agent' = [agent EXCEPT ![h].pc = "running"] /\ agent[h].pc # "down"
           \/ agent' = [agent EXCEPT ![h] = [pc |-> "down", conn |-> NoFd]]
        /\ \A c \in Conns : peer[c] # "none" => peer'[c] # "none"
    BY <1>3, <1>6, HostDbAssumption DEF AgentAnswered, AgentGone
  <2> QED BY <1>1, <1>2, <1>3, <2>1 DEF Bounded, AgentsType
<1>7. CASE AgentMessage(h)
  <2>1. /\ UNCHANGED <<agent, peer>>
        /\ agent[h].pc = "running" /\ inbox[agent[h].conn] < MaxInbox
        /\ inbox' = [inbox EXCEPT ![agent[h].conn] = @ + 1]
    BY <1>7 DEF AgentMessage
  <2>2. inbox' \in [Conns -> 0..MaxInbox]
    BY <1>3, <2>1
  <2> QED BY <1>1, <1>2, <2>1, <2>2 DEF Bounded, AgentsType
<1> QED BY <1>4, <1>5, <1>6, <1>7 DEF AgentActs, AgentStep

\* A step of HostDb keeps the bounds.
LEMMA NextBounded == Shape /\ Bounded /\ [Next]_vars => Bounded'
<1> SUFFICES ASSUME Shape, Bounded, [Next]_vars PROVE Bounded'
  OBVIOUS
<1>1. CASE UNCHANGED vars
  <2>1. UNCHANGED <<hostDb, sender, up, peer, inbox, agent, issued, sent, raced, stale>>
    BY <1>1 DEF vars, controller, network, history
  <2>2. NumbersBounded' /\ AgentsType'
    BY <2>1, NumbersFrame DEF Bounded, AgentsType
  <2> QED BY <2>1, <2>2 DEF Bounded
<1> QED BY <1>1, ListenerBounded, HandlerBounded, InputBounded, SenderBounded, AgentBounded,
           NextIsBoundedStep

LEMMA InitBounded == Init => Bounded
<1> SUFFICES ASSUME Init PROVE Bounded
  OBVIOUS
<1>1. /\ issued = 0 /\ MaxCmds \in Nat /\ MaxInbox \in Nat
      /\ \A h \in Hosts : hostDb[h].seqNum = 1
      /\ \A t \in Senders : sender[t].pc = "idle" /\ sender[t].seq = 0
      /\ sent = [c \in Conns |-> <<>>] /\ inbox = [c \in Conns |-> 0]
      /\ agent = [h \in Hosts |-> [pc |-> "down", conn |-> NoFd]]
      /\ up = TRUE /\ raced = {} /\ stale = {}
  BY HostDbAssumption DEF Init, Fresh, Blank
<1>2. Pending = {}
  BY <1>1 DEF Pending
<1>3. IsFiniteSet(Pending) /\ Cardinality(Pending) = 0
  BY <1>2, FS_EmptySet
<1>4. NumbersBounded
  <2>1. sent \in [Conns -> Seq(1..MaxCmds)]
    BY <1>1
  <2> QED BY <1>1, <1>3, <2>1 DEF NumbersBounded
<1>5. AgentsType
  BY <1>1 DEF AgentsType
<1> QED BY <1>1, <1>4, <1>5 DEF Bounded
-----------------------------------------------------------------------------
\* The loop has a descriptor for every connection it accepted, and main joins
\* the console thread only between two connections.
LoopBounded ==
  /\ restarts \in BOOLEAN /\ limit \in Descriptors
  /\ main \in {"listening", "joining"} /\ console \in {"reading", "exiting"}
  /\ main = "listening" => Cardinality(Sockets) <= limit
  /\ main = "joining" => listener.pc = "accept"

\* The sockets are finitely many.
LEMMA SocketsFinite == /\ IsFiniteSet(Sockets) /\ Cardinality(Sockets) \in Nat
                       /\ IsFiniteSet(Conns)
<1>1. IsFiniteSet(Conns)
  BY FS_Interval, HostDbAssumption DEF Conns
<1>2. Sockets \in SUBSET Conns
  BY DEF Sockets
<1> QED BY <1>1, <1>2, FS_Subset, FS_CardinalityType

\* What the threads and the listener do next makes no connection and accepts none.
LEMMA ThreadsMakeNoConnection ==
  ASSUME Shape, \/ Serve
                \/ \E c \in Conns : HandlerStep(c)
                \/ \E t \in Senders : SenderStep(t) \/ \E h \in Hosts : SenderCount(t, h)
  PROVE  Sockets' \subseteq Sockets
<1>1. backlog' = backlog /\ \A d \in Conns : peer'[d] # "none" => peer[d] # "none"
  <2>1. CASE Serve
    <3>1. CASE ListenerReply
      BY <3>1, SendKeepsPeers DEF ListenerReply
    <3> QED BY <2>1, <3>1
            DEF Serve, ListenerReceive, ListenerCount, ListenerCheck, ListenerVerify,
                ListenerConnect, ListenerSockfd, ListenerSpawn, network
  <2>2. ASSUME NEW c \in Conns, HandlerStep(c)
        PROVE  backlog' = backlog /\ \A d \in Conns : peer'[d] # "none" => peer[d] # "none"
    <3>1. CASE HandlerAnswer(c)
      BY <3>1, SendKeepsPeers DEF HandlerAnswer
    <3> QED BY <2>2, <3>1
            DEF HandlerStep, HandlerFetch, HandlerMessage, HandlerClosed, HandlerError,
                HandlerErase, HandlerInsert, HandlerAssign, network
  <2>3. ASSUME NEW t \in Senders, SenderStep(t) \/ \E h \in Hosts : SenderCount(t, h)
        PROVE  backlog' = backlog /\ \A d \in Conns : peer'[d] # "none" => peer[d] # "none"
    <3>1. CASE SenderSend(t)
      BY <3>1, SendKeepsPeers DEF SenderSend
    <3> QED BY <2>3, <3>1 DEF SenderStep, SenderCount, SenderCheck, SenderNumber, network
  <2> QED BY <2>1, <2>2, <2>3
<1> QED BY <1>1 DEF Sockets

\* Agents make connections that wait to be accepted.
LEMMA AgentsWait ==
  ASSUME Shape, Bounded, NEW h \in Hosts, AgentActs(h)
  PROVE  Sockets' \subseteq Sockets
<1>1. CASE \E good \in BOOLEAN : AgentConnect(h, good)
  <2>1. PICK c \in Conns : peer' = [peer EXCEPT ![c] = "open"] /\ backlog' = Append(backlog, c)
    BY <1>1 DEF AgentConnect
  <2>2. /\ DOMAIN backlog' = 1..(Len(backlog) + 1) /\ DOMAIN backlog = 1..Len(backlog)
        /\ Len(backlog) \in Nat
        /\ \A i \in DOMAIN backlog : backlog'[i] = backlog[i]
        /\ backlog'[Len(backlog) + 1] = c
    BY <2>1 DEF Shape
  <2>3. \A i \in DOMAIN backlog : i \in DOMAIN backlog'
    BY <2>2
  <2>4. Len(backlog) + 1 \in DOMAIN backlog'
    BY <2>2
  <2>5. \A d \in Conns \ {c} : peer'[d] = peer[d]
    BY <2>1 DEF Shape
  <2> QED BY <2>2, <2>3, <2>4, <2>5 DEF Sockets
<1>2. CASE ~\E good \in BOOLEAN : AgentConnect(h, good)
  <2>1. agent[h].pc # "down" => agent[h].conn \in Conns /\ peer[agent[h].conn] # "none"
    BY DEF Bounded, AgentsType
  <2>2. backlog' = backlog /\ \A d \in Conns : peer'[d] # "none" => peer[d] # "none"
    BY <1>2, <2>1
    DEF AgentActs, AgentStep, AgentRequest, AgentAnswered, AgentMessage, AgentGone, Shape
  <2> QED BY <2>2 DEF Sockets
<1> QED BY <1>1, <1>2

\* accept() is called with a descriptor left.
LEMMA AcceptSockets ==
  ASSUME Shape, limit \in Nat, Accept
  PROVE  Cardinality(Sockets)' <= limit
<1>1. backlog # <<>> /\ backlog' = Tail(backlog) /\ peer' = peer /\ Cardinality(Sockets) < limit
  BY DEF Accept, ListenerAccept
<1>2. /\ \A i \in DOMAIN backlog : i = 1 \/ (i - 1 \in DOMAIN backlog' /\ backlog'[i - 1] = backlog[i])
      /\ backlog[1] = Head(backlog)
  BY <1>1 DEF Shape
<1>3. Sockets' \subseteq Sockets \cup {Head(backlog)}
  <2> SUFFICES ASSUME NEW c \in Conns, peer'[c] # "none", c # Head(backlog),
                      ~\E i \in DOMAIN backlog' : backlog'[i] = c,
                      NEW i \in DOMAIN backlog, backlog[i] = c
               PROVE  FALSE
    BY <1>1 DEF Sockets
  <2> QED BY <1>2
<1>4. /\ IsFiniteSet(Sockets \cup {Head(backlog)})
      /\ Cardinality(Sockets \cup {Head(backlog)}) <= Cardinality(Sockets) + 1
  <2> PICK S, x : S = Sockets /\ x = Head(backlog)
    OBVIOUS
  <2>1. IsFiniteSet(S) /\ Cardinality(S) \in Nat
    BY SocketsFinite
  <2>2. /\ IsFiniteSet(S \cup {x})
        /\ Cardinality(S \cup {x}) \in {Cardinality(S), Cardinality(S) + 1}
    BY <2>1, FS_AddElement
  <2>3. Cardinality(S \cup {x}) <= Cardinality(S) + 1
    BY <2>1, <2>2
  <2> QED BY <2>2, <2>3
<1>5. /\ IsFiniteSet(Sockets')
      /\ Cardinality(Sockets') <= Cardinality(Sockets \cup {Head(backlog)})
  BY <1>3, <1>4, FS_Subset
<1>6. /\ Cardinality(Sockets') \in Nat /\ Cardinality(Sockets) \in Nat
      /\ Cardinality(Sockets \cup {Head(backlog)}) \in Nat
  BY <1>4, <1>5, SocketsFinite, FS_CardinalityType
<1> QED BY <1>1, <1>4, <1>5, <1>6

\* Fewer sockets keep to the limit.
LEMMA FewerSockets ==
  ASSUME LoopBounded, Sockets' \subseteq Sockets, UNCHANGED <<limit, main>>, limit \in Nat
  PROVE  main' = "listening" => Cardinality(Sockets)' <= limit'
<1>1. IsFiniteSet(Sockets) /\ Cardinality(Sockets) \in Nat
  BY SocketsFinite
<1>2. /\ IsFiniteSet(Sockets') /\ Cardinality(Sockets') <= Cardinality(Sockets)
      /\ Cardinality(Sockets') \in Nat
  BY <1>1, FS_Subset, FS_CardinalityType
<1>3. main = "listening" => Cardinality(Sockets) <= limit
  BY DEF LoopBounded
<1> QED BY <1>1, <1>2, <1>3

LEMMA NextLoopBounded ==
  Shape /\ Bounded /\ LoopBounded /\ [ShutdownNext]_allVars => LoopBounded'
<1> SUFFICES ASSUME Shape, Bounded, LoopBounded, [ShutdownNext]_allVars PROVE LoopBounded'
  OBVIOUS
<1>0. limit \in Nat
  BY ShutdownAssumption DEF LoopBounded
<1>1. CASE UNCHANGED <<controller, network, restarts, limit>> /\ main' = main
           /\ console' \in {console, "exiting"}
  <2>1. Sockets' = Sockets
    BY <1>1 DEF Sockets, network
  <2>2. main' = "listening" => Cardinality(Sockets)' <= limit'
    BY <1>0, <1>1, <2>1, FewerSockets
  <2> QED BY <1>1, <2>2 DEF LoopBounded, controller
<1>2. CASE Look \/ AcceptFails \/ Sigterm \/ TypeExit \/ CleanUp \/ UNCHANGED allVars
  BY <1>1, <1>2 DEF Look, AcceptFails, Sigterm, TypeExit, CleanUp, allVars, vars, loop, process
<1>3. CASE Accept
  <2>1. UNCHANGED process /\ main' = main /\ main = "listening"
    BY <1>3 DEF Accept, AtAccept
  <2> QED BY <1>0, <1>3, <2>1, AcceptSockets DEF LoopBounded, process
<1>4. CASE StopListening
  <2>1. UNCHANGED process /\ main' = "joining" /\ listener' = listener /\ listener.pc = "accept"
    BY <1>4 DEF StopListening, At, controller
  <2> QED BY <2>1 DEF LoopBounded, process
<1>5. CASE Serve
  <2>1. UNCHANGED process /\ main' = main
    BY <1>5 DEF Serve, loop
  <2>2. listener.pc # "accept"
    BY <1>5 DEF Serve, ListenerReceive, ListenerCount, ListenerCheck, ListenerVerify,
              ListenerReply, ListenerConnect, ListenerSockfd, ListenerSpawn, At
  <2>3. main' = "listening" => Cardinality(Sockets)' <= limit'
    BY <1>0, <1>5, <2>1, ThreadsMakeNoConnection, FewerSockets DEF process
  <2> QED BY <2>1, <2>2, <2>3 DEF LoopBounded, process
<1>6. CASE OtherStep
  <2>1. UNCHANGED process /\ main' = main
    BY <1>6 DEF OtherStep, loop
  <2>2. \/ \E c \in Conns : HandlerStep(c)
        \/ \E t \in Senders : SenderStep(t) \/ \E h \in Hosts : SenderCount(t, h)
        \/ \E h \in Hosts : AgentActs(h)
    BY <1>6 DEF OtherStep, CommandInput, AgentActs
  <2>3. listener' = listener
    <3>1. ASSUME NEW t \in Senders, SenderStep(t) \/ \E h \in Hosts : SenderCount(t, h)
          PROVE  listener' = listener
      BY <3>1 DEF SenderStep, SenderCount, SenderCheck, SenderNumber, SenderSend
    <3> QED BY <2>2, <3>1, HandlerTouches, AgentTouches
  <2>4. main' = "listening" => Cardinality(Sockets)' <= limit'
    <3>1. Sockets' \subseteq Sockets
      BY <2>2, ThreadsMakeNoConnection, AgentsWait
    <3> QED BY <1>0, <2>1, <3>1, FewerSockets DEF process
  <2> QED BY <2>1, <2>3, <2>4 DEF LoopBounded, process
<1> QED BY <1>2, <1>3, <1>4, <1>5, <1>6 DEF ShutdownNext, MainStep

\* The end of the listening and of the process leave the numbers and the agents alone.
LEMMA NextShutdownBounded ==
  Shape /\ Bounded /\ [ShutdownNext]_allVars => Bounded'
<1> SUFFICES ASSUME Shape, Bounded, [ShutdownNext]_allVars PROVE Bounded'
  OBVIOUS
<1>1. CASE [Next]_vars
  BY <1>1, NextBounded
<1>2. CASE StopListening \/ (UNCHANGED <<controller, network, agent, history>> /\ up' = FALSE)
  <2>1. UNCHANGED <<hostDb, sender, peer, inbox, agent, issued, sent, raced, stale>>
        /\ up' \in {up, FALSE}
    BY <1>2 DEF StopListening, controller, network, history
  <2>2. NumbersBounded' /\ AgentsType'
    BY <2>1, NumbersFrame DEF Bounded, AgentsType
  <2> QED BY <2>1, <2>2 DEF Bounded
<1> QED BY <1>1, <1>2, StepOfHostDb DEF allVars

\* The parts of the type invariant.
LEMMA BoundedTypes ==
  ASSUME Shape, LoopInv, Bounded, LoopBounded
  PROVE  ShutdownTypeOK
<1>1. issued \in 0..MaxCmds /\ issued + 1 \in Nat /\ 1..(issued + 1) \subseteq 1..(MaxCmds + 1)
      /\ 0..issued \subseteq 0..MaxCmds
  BY FS_CardinalityType, HostDbAssumption DEF Bounded, NumbersBounded
<1>2. hostDb \in [Hosts -> [present : BOOLEAN, secret : BOOLEAN, isConnected : BOOLEAN,
                           sockfd : Conns \cup {NoFd}, seqNum : 1..(MaxCmds + 1)]]
  <2>1. \A h \in Hosts : hostDb[h].seqNum \in 1..(MaxCmds + 1)
    BY <1>1 DEF Bounded, NumbersBounded
  <2> QED BY <2>1 DEF Shape, Records
<1>3. sender \in [Senders -> [pc : {"idle", "counted", "checked", "numbered"},
                             host : Hosts, seq : 0..MaxCmds]]
  <2>1. \A t \in Senders : sender[t].seq \in 0..MaxCmds
    BY <1>1 DEF Bounded, NumbersBounded
  <2> QED BY <2>1 DEF Shape, SenderStates
<1>4. TypeOK
  BY <1>1, <1>2, <1>3
  DEF TypeOK, Shape, Listeners, ListenerPcs, Handlers, HandlerPcs, ConnRecords, Peers,
      Bounded, AgentsType, NumbersBounded
<1>5. late \in Nat
  BY DEF LoopInv
<1> QED BY <1>4, <1>5 DEF ShutdownTypeOK, LoopInv, LoopBounded

\* Every variable keeps its type and its bounds until the end: no number runs past
\* the commands numbered, the sockets accepted past the descriptors, and main joins
\* the console thread only when the listener has nothing in hand.
THEOREM ShutdownTypesCorrect == ShutdownSpec => []ShutdownTypeOK
<1> DEFINE I == Shape /\ Admission /\ AgreementInv /\ LoopInv /\ Bounded /\ LoopBounded
<1>1. ShutdownInit => I
  <2> SUFFICES ASSUME ShutdownInit PROVE I
    OBVIOUS
  <2>1. Init /\ main = "listening" /\ console = "reading" /\ restarts \in BOOLEAN
        /\ limit \in Descriptors /\ limit \in Nat
    BY ShutdownAssumption DEF ShutdownInit
  <2>2. Sockets = {}
    BY <2>1 DEF Init, Sockets
  <2>3. Cardinality(Sockets) = 0
    BY <2>2, FS_EmptySet
  <2>4. LoopBounded
    BY <2>1, <2>3 DEF LoopBounded
  <2> QED BY <2>1, <2>4, InitAdmission, InitAgreement, InitLoopInv, InitBounded
<1>2. I /\ [ShutdownNext]_allVars => I'
  BY NextShutdownAgreement, NextLoopInv, NextShutdownBounded, NextLoopBounded
<1>3. I => ShutdownTypeOK
  BY BoundedTypes
<1> QED BY <1>1, <1>2, <1>3, PTL DEF ShutdownSpec

=============================================================================
