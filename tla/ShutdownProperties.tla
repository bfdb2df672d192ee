------------------------- MODULE ShutdownProperties -------------------------
(* What hosts and users may rely on until the controller has stopped. *)
EXTENDS Shutdown, HostDbProperties

-----------------------------------------------------------------------------
\* Types of the variables, those of HostDb and those Shutdown adds.
ShutdownTypeOK ==
  /\ TypeOK
  /\ terminateExec \in BOOLEAN /\ looked \in BOOLEAN /\ restarts \in BOOLEAN
  /\ main \in {"listening", "joining"}
  /\ console \in {"reading", "exiting"}
  /\ limit \in Descriptors
  /\ main = "listening" => Cardinality(Sockets) <= limit
  /\ late \in Nat
  /\ main = "joining" => listener.pc = "accept"

\* At most one more connection is accepted after SIGTERM: by the accept that was
\* about to be called, or is restarted, when the flag was set.
AtMostOneMore == late <= 1

\* What ends the controller is exit, typed on the console; a connection that was
\* reset, or used again after its agent went; or SIGTERM, if it interrupts the
\* receipt of a request.
ReasonToStop ==
  ~up => \/ console = "exiting"
         \/ \E c \in Conns : peer[c] \in {"rst", "broken"}
         \/ raced # {}
         \/ terminateExec /\ listener.pc = "recv" /\ ~restarts

-----------------------------------------------------------------------------
\* The listener waits for a peer that says nothing, for ever.
Waiting == listener.pc = "recv" /\ peer[listener.conn] = "silent"

\* After SIGTERM the listening ends as soon as another agent connects.
SigtermStopsListening ==
  terminateExec /\ backlog # <<>> ~> main = "joining" \/ ~up \/ Waiting

\* DESIGN.md:18, the controller listens "for requests from hosts on the network":
\* an agent that sends its request is answered or turned away, also when SIGTERM
\* comes in between, unless the descriptors have run out or the listener waits
\* for a silent peer.
AgentIsAnswered ==
  \A h \in Hosts :
    agent[h].pc = "waiting"
      ~> \/ agent[h].pc \in {"running", "down"} \/ ~up \/ Waiting
         \/ Cardinality(Sockets) >= limit

\* After an agent's connection has closed, its host can connect again: in the
\* end the record is not connected, or it is to a new connection.
ClosedIsNoticed ==
  \A c \in Conns :
    (peer[c] \in {"fin", "rst"} /\ handler[c].pc # "none")
      ~> (~up \/ \A h \in Hosts : ~(hostDb[h].isConnected /\ hostDb[h].sockfd = c))

\* An agent that was told it is connected is connected, in the end and as long
\* as it runs: unless it was admitted in the middle of a reset, or its handler
\* gave up on a packet shorter than a header.
RunningIsConnected ==
  \A h \in Hosts :
    agent[h].pc = "running"
      ~> \/ agent[h].pc # "running" \/ ~up \/ h \in raced
         \/ hostDb[h].isConnected /\ hostDb[h].sockfd = agent[h].conn
         \/ ShortPackets /\ handler[agent[h].conn].pc = "gone"

-----------------------------------------------------------------------------
(* What a comment says and the code does not provide *)

\* "set up the sigaction to catch SIGTERM in order to terminate the program"
\* (Controller.cpp:108): main joins the console thread, which reads for ever.
SigtermTerminates == terminateExec ~> ~up

=============================================================================
