------------------------------ MODULE Shutdown ------------------------------
(***************************************************************************)
(* How the controller stops: the loop of runListener that looks at         *)
(* terminateExec, SIGTERM, which sets it, main, which waits for the        *)
(* console thread, and exit() with cleanUp, while hosts come and go as in  *)
(* HostDb, whose actions these are with what they leave out: the loop, and *)
(* the descriptors of the process, none of which is closed before the end. *)
(*                                                                         *)
(* sa_flags is not set before the call of sigaction for SIGTERM: whether   *)
(* system calls are restarted after the signal depends on what was in the  *)
(* stack, and is chosen once.  The kernel gives the signal to the main     *)
(* thread, which does not block it.                                        *)
(*                                                                         *)
(* A definition named X_Slip is X with a mistake a programmer could make;  *)
(* nothing uses it: it is what a property is expected to notice.           *)
(***************************************************************************)
EXTENDS HostDb

CONSTANTS
  Console,       \* the sender that is the console thread
  Descriptors    \* numbers of sockets the process may be able to have open

ASSUME ShutdownAssumption == Console \in Senders /\ Descriptors \subseteq Nat

VARIABLES
  terminateExec,  \* the flag
  main,           \* "listening", or "joining" the console thread
  looked,         \* the loop has looked at the flag, and accept is next
  console,        \* the console thread: "reading", or "exiting" after exit
  restarts,       \* whether SIGTERM restarts system calls
  limit,          \* sockets the process may have open
  late            \* history: connections accepted after the signal

loop == <<terminateExec, main, looked>>
process == <<console, restarts, limit>>
allVars == <<vars, loop, process, late>>

ShutdownInit ==
  /\ Init
  /\ terminateExec = FALSE
  /\ main = "listening"
  /\ looked = FALSE
  /\ console = "reading"
  /\ restarts \in BOOLEAN
  /\ limit \in Descriptors
  /\ late = 0

-----------------------------------------------------------------------------
(* runListener and main *)

AtAccept == At("accept") /\ main = "listening" /\ looked

\* The connections that were accepted: their sockets stay open.
Sockets == {c \in Conns : peer[c] # "none"} \ {backlog[i] : i \in DOMAIN backlog}

Look_Forever ==
  /\ At("accept") /\ main = "listening" /\ ~looked
  /\ looked' = TRUE
  /\ UNCHANGED <<vars, terminateExec, main, process, late>>

\* while (!terminateExec)
Look ==
  /\ At("accept") /\ main = "listening" /\ ~looked
  /\ ~terminateExec
  /\ looked' = TRUE
  /\ UNCHANGED <<vars, terminateExec, main, process, late>>

Accept ==
  /\ AtAccept
  /\ Cardinality(Sockets) < limit
  /\ ListenerAccept
  /\ looked' = FALSE
  /\ late' = IF terminateExec THEN late + 1 ELSE late
  /\ UNCHANGED <<terminateExec, main, process>>

AcceptFails_GoesOn ==
  /\ AtAccept
  /\ Cardinality(Sockets) >= limit
  /\ looked' = FALSE
  /\ listener' = [pc |-> "recv", conn |-> NoFd]
  /\ UNCHANGED <<hostDb, handler, sender, up, network, agent, history, terminateExec,
                 main, process, late>>

\* accept() fails at once without a descriptor to give, and continue.
AcceptFails ==
  /\ AtAccept
  /\ Cardinality(Sockets) >= limit
  /\ looked' = FALSE
  /\ UNCHANGED <<vars, terminateExec, main, process, late>>

StopListening_LeaveWaiting ==
  /\ At("accept") /\ main = "listening" /\ ~looked
  /\ terminateExec
  /\ main' = "joining"
  /\ UNCHANGED <<vars, terminateExec, looked, process, late>>

\* close(sockfd) turns away the connections that wait to be accepted, their
\* agents exit as if refused; then main joins the console thread.
StopListening ==
  /\ At("accept") /\ main = "listening" /\ ~looked
  /\ terminateExec
  /\ main' = "joining"
  /\ conns' = [c \in Conns |-> IF \E i \in DOMAIN backlog : backlog[i] = c
                               THEN [conns[c] EXCEPT !.reply = "no"] ELSE conns[c]]
  /\ backlog' = <<>>
  /\ UNCHANGED <<controller, up, peer, inbox, agent, history, terminateExec, looked,
                 process, late>>

\* The rest of the loop's body.
Serve ==
  /\ \/ ListenerReceive \/ ListenerCount \/ ListenerCheck \/ ListenerVerify
     \/ ListenerReply \/ ListenerConnect \/ ListenerSockfd \/ ListenerSpawn
  /\ UNCHANGED <<loop, process, late>>

-----------------------------------------------------------------------------
(* The signal and the exit *)

\* sigterm_handler.  The signal comes before accept or recv is called, or
\* interrupts it: the loop goes round, or the process exits.
Sigterm ==
  /\ up /\ ~terminateExec
  /\ terminateExec' = TRUE
  /\ \/ UNCHANGED <<up, looked>>
     \/ ~restarts /\ AtAccept /\ looked' = FALSE /\ UNCHANGED up
     \/ ~restarts /\ At("recv") /\ up' = FALSE /\ UNCHANGED looked
  /\ UNCHANGED <<controller, network, agent, history, main, process, late>>

\* exit is typed.
TypeExit ==
  /\ up
  /\ console = "reading"
  /\ sender[Console].pc = "idle"
  /\ console' = "exiting"
  /\ UNCHANGED <<vars, loop, restarts, limit, late>>

\* cleanUp, run by exit(0) with every other thread still at work, and the end.
CleanUp ==
  /\ up
  /\ console = "exiting"
  /\ up' = FALSE
  /\ UNCHANGED <<controller, network, agent, history, loop, process, late>>

-----------------------------------------------------------------------------
MainStep == Look \/ Accept \/ AcceptFails \/ StopListening \/ Serve

\* The others, as in HostDb: nobody can connect to a socket that was closed, and
\* the console thread sends nothing when it has called exit.
OtherStep ==
  /\ \/ \E c \in Conns : HandlerStep(c)
     \/ console = "reading" /\ CommandInput
     \/ \E t \in Senders : SenderStep(t)
     \/ main = "listening" /\ \E h \in Hosts, good \in BOOLEAN : AgentConnect(h, good)
     \/ \E h \in Hosts : AgentStep(h)
     \/ \E h \in Hosts : AgentMessage(h)
     \/ \E h \in Hosts, how \in Failures : AgentGone(h, how)
  /\ UNCHANGED <<loop, process, late>>

ShutdownNext == MainStep \/ OtherStep \/ Sigterm \/ TypeExit \/ CleanUp

\* As in HostDb, with one more thread: main, and the one that called exit.
ShutdownSpec ==
  /\ ShutdownInit /\ [][ShutdownNext]_allVars
  /\ WF_allVars(MainStep) /\ WF_allVars(CleanUp)
  /\ \A c \in Conns : WF_allVars(HandlerStep(c) /\ UNCHANGED <<loop, process, late>>)
  /\ \A t \in Senders : WF_allVars(SenderStep(t) /\ UNCHANGED <<loop, process, late>>)
  /\ \A h \in Hosts : WF_allVars(AgentStep(h) /\ UNCHANGED <<loop, process, late>>)

=============================================================================
