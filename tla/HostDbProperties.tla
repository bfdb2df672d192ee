-------------------------- MODULE HostDbProperties --------------------------
(* What makes the controller's book-keeping of its hosts correct. *)
EXTENDS HostDb

-----------------------------------------------------------------------------
\* Types of the variables of HostDb.
TypeOK ==
  /\ hostDb \in [Hosts -> [present : BOOLEAN, secret : BOOLEAN, isConnected : BOOLEAN,
                           sockfd : Conns \cup {NoFd}, seqNum : 1..(MaxCmds + 1)]]
  /\ listener \in [pc : {"accept", "recv", "count", "check", "verify", "admit", "refuse",
                         "connect", "sockfd", "spawn"}, conn : Conns \cup {NoFd}]
  /\ listener.pc # "accept" => listener.conn \in Conns
  /\ handler \in [Conns -> [pc : {"none", "fetch", "recv", "answer", "erase", "insert",
                                  "secret", "flag", "rest", "gone"},
                            fd : Conns \cup {NoFd}, secret : BOOLEAN]]
  /\ sender \in [Senders -> [pc : {"idle", "counted", "checked", "numbered"},
                             host : Hosts, seq : 0..MaxCmds]]
  /\ up \in BOOLEAN
  /\ backlog \in Seq(Conns)
  /\ conns \in [Conns -> [host : Hosts, good : BOOLEAN, request : BOOLEAN,
                          reply : {"none", "yes", "no"}]]
  /\ peer \in [Conns -> {"none", "open", "broken", "fin", "rst", "silent"}]
  /\ inbox \in [Conns -> 0..MaxInbox]
  /\ agent \in [Hosts -> [pc : {"down", "connected", "waiting", "running"},
                          conn : Conns \cup {NoFd}]]
  /\ issued \in 0..MaxCmds
  /\ sent \in [Conns -> Seq(1..MaxCmds)]
  /\ raced \subseteq Hosts /\ stale \subseteq Hosts

-----------------------------------------------------------------------------
\* A thread serves only a connection whose agent presented the secret of its
\* host and was told so, and no refused connection is ever served, whatever
\* the resets and the commands do to the record in the meantime.
OnlyAdmittedAreServed ==
  \A c \in Conns :
    handler[c].pc # "none" => conns[c].good /\ conns[c].reply = "yes"

\* The connections of h that are being served or handed to their thread.
Served(h) ==
  {c \in Conns : conns[c].host = h /\
     \/ handler[c].pc \in {"fetch", "recv", "answer", "erase"}
     \/ listener.pc \in {"sockfd", "spawn"} /\ listener.conn = c}

\* The record says what the threads do: a host is connected exactly while one
\* connection of its is served, and sockfd is that connection.  A host that was
\* authenticated in the middle of a reset is excepted.
RecordAgreesWithThreads ==
  \A h \in Hosts \ raced :
    /\ hostDb[h].present /\ hostDb[h].isConnected /\ ~InReset(h) => Served(h) # {}
    /\ Cardinality(Served(h)) <= 1
    /\ \A c \in Served(h) :
         /\ hostDb[h].isConnected
         /\ hostDb[h].sockfd = c \/ (listener.pc = "sockfd" /\ listener.conn = c)

\* Every message a thread waits for comes from its own connection.
ThreadsReadTheirOwnSocket ==
  \A c \in Conns :
    conns[c].host \notin raced /\ handler[c].pc = "recv" => handler[c].fd = c

\* The numbers sent on the present connection of a host, with those its senders
\* still hold, are 1, 2, ... without a gap or a repetition: what the agent needs
\* to execute them.  It takes a sender that was between the check of isConnected
\* and send() while the record was reset to break this.
NumbersOfThisConnection ==
  \A h \in Hosts \ (raced \cup stale) :
    hostDb[h].present /\ hostDb[h].sockfd # NoFd /\ hostDb[h].isConnected =>
      LET s == sent[hostDb[h].sockfd]
          held == {t \in Senders : sender[t].pc = "numbered" /\ sender[t].host = h}
          numbers == {s[i] : i \in DOMAIN s} \cup {sender[t].seq : t \in held}
      IN  /\ numbers = 1..(hostDb[h].seqNum - 1)
          /\ Len(s) + Cardinality(held) = hostDb[h].seqNum - 1

-----------------------------------------------------------------------------
(* What DESIGN.md says and the code does not provide *)

\* DESIGN.md:20, "Once the connection is set up, the Controller can begin sending
\* commands to the host": the first command on a connection must have number 1,
\* or the agent buffers it and all that follow and executes none.  A sender that
\* checked isConnected before the reset and numbers after it spoils this.
ConnectionStartsAtOne ==
  \A h \in Hosts \ raced : \A c \in Served(h) :
    /\ sent[c] = <<>>
    /\ \A t \in Senders : sender[t].pc = "numbered" => sender[t].host # h
    => hostDb[h].seqNum = 1

=============================================================================
