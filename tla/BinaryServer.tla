---------------------------- MODULE BinaryServer ----------------------------
(***************************************************************************)
(* The binary protocol server: one thread, one epoll loop, one buffer.     *)
(* Client sockets are edge-triggered: for each event one packet is read,   *)
(* its records are written, and a reply with their number is sent.  The    *)
(* sockets block with a timeout of 3 seconds: a read that has got some of  *)
(* what it asked for is then taken for complete, a read that has got       *)
(* nothing is repeated for ever.  The largest hour received is kept in a   *)
(* file.                                                                   *)
(*                                                                         *)
(* The stream of a client is a sequence of tokens: a header, with the      *)
(* number of records that follow, and records.  A segment of TCP delivers  *)
(* one or more tokens; a pause falls between two tokens.  Writing a record *)
(* always succeeds and is one step: modules TideStore and GpsidWriter show *)
(* what it does.                                                           *)
(***************************************************************************)
EXTENDS Naturals, Sequences, SequencesExt, FiniteSets, FiniteSetsExt

CONSTANTS
  Clients,
  Records,
  Packets,     (* Packets[c]: the packets a client sends, sequences of records *)
  Pipelining,  (* clients that do not wait for a reply before the next packet *)
  HourOf,      (* the hour in the time of a record, a number above 0 *)
  Garbage,     (* what the buffer holds where no record was received *)
  BufferSize,  (* the records that BUFFER_SIZE has room for: no packet has more *)
  MaxCrashes   (* bound: how often the process is killed *)

ASSUME ServerAssumption ==
  /\ IsFiniteSet(Clients)
  /\ Packets \in [Clients -> Seq(Seq(Records))]
  /\ BufferSize \in Nat \ {0}
  /\ \A c \in Clients : \A k \in DOMAIN Packets[c] : Len(Packets[c][k]) <= BufferSize
  /\ Pipelining \subseteq Clients
  /\ HourOf \in [Records -> Nat \ {0}]
  /\ Garbage \notin Records
  /\ MaxCrashes \in Nat

VARIABLES
  unsent,     (* packets a client has not begun to send *)
  wire,       (* tokens on their way to the server *)
  fin,        (* whether a client has closed its side *)
  sock,       (* the receive queue of the socket of a client *)
  conn,       (* of a client: "out", "new" until accepted, "open", "closed" *)
  reset,      (* clients whose host is about to answer a reply with a reset *)
  ready,      (* the clients with an event that epoll_wait has not returned *)
  pc,         (* next step of the loop *)
  batch,      (* stEvs: events returned and not handled yet *)
  iSocket,    (* the client whose event is handled *)
  m_psPacket, (* the records in the one buffer, from its beginning *)
  iTotal,     (* records of the packet that is read *)
  iNum,       (* how many of them have been read or, then, written *)
  sPerMaxTime,(* g_sMaxTime before the packet was written *)
  g_sMaxTime, (* the largest hour received *)
  CurTime,    (* the file with that hour *)
  log,        (* history: records written for each client *)
  replies,    (* the numbers a client has been told *)
  paused,     (* history: clients that met the timeout within a packet *)
  failed,     (* history: whether a reply could not be sent *)
  crashes

client  == <<unsent, wire, fin, reset>>
socket  == <<sock, conn, ready>>
packet  == <<iSocket, m_psPacket, iTotal, iNum, sPerMaxTime>>
clock   == <<g_sMaxTime, CurTime>>
history == <<log, replies, paused, failed, crashes>>
vars == <<client, socket, pc, batch, packet, clock, history>>

Tokens(p)  == <<[head |-> Len(p)]>> \o [i \in DOMAIN p |-> [rec |-> p[i]]]
IsHead(t)  == DOMAIN t = {"head"}
Slots      == 1 .. BufferSize
EmptyBuffer == [i \in Slots |-> Garbage]
Connected(c) == conn[c] \in {"new", "open"}
SentBy(c)  == Len(Packets[c]) - Len(unsent[c])

TypeOK ==
  /\ \A c \in Clients : \E k \in 0 .. Len(Packets[c]) :
       unsent[c] = SubSeq(Packets[c], k + 1, Len(Packets[c]))
  /\ fin \in [Clients -> BOOLEAN] /\ \A c \in reset : fin[c]
  /\ conn \in [Clients -> {"out", "new", "open", "closed"}]
  /\ pc \in {"down", "loop", "head", "body", "refuse", "write", "save", "close"}
  /\ ToSet(ready) \cup ToSet(batch) \subseteq {c \in Clients : conn[c] = "open"}
  /\ iSocket \in Clients
  /\ m_psPacket \in [Slots -> Records \cup {Garbage}]
  /\ iNum \in 0 .. iTotal /\ iTotal \in 0 .. BufferSize
  /\ sPerMaxTime \in Nat /\ g_sMaxTime \in Nat /\ CurTime \in Nat
  /\ paused \subseteq Clients /\ failed \in BOOLEAN /\ crashes \in 0 .. MaxCrashes

Init ==
  /\ unsent = Packets
  /\ wire = [c \in Clients |-> <<>>] /\ sock = wire
  /\ fin = [c \in Clients |-> FALSE] /\ reset = {}
  /\ conn = [c \in Clients |-> "out"]
  /\ ready = <<>> /\ batch = <<>>
  /\ pc = "loop"
  /\ iSocket \in Clients
  /\ m_psPacket = EmptyBuffer
  /\ iTotal = 0 /\ iNum = 0 /\ sPerMaxTime = 0
  /\ g_sMaxTime = 0 /\ CurTime = 0
  /\ log = [c \in Clients |-> <<>>] /\ replies = log
  /\ paused = {} /\ failed = FALSE /\ crashes = 0

(* the events after one for the client c, and without the one for it, of   *)
(* which there is never more than that                                     *)
Wake(c)    == IF Contains(ready, c) THEN ready ELSE Append(ready, c)
Without(c) == IF Contains(ready, c) THEN RemoveAt(ready, CHOOSE i \in DOMAIN ready : ready[i] = c)
                                    ELSE ready

-----------------------------------------------------------------------------
(* clients and network *)

Connect(c) ==
  /\ conn[c] = "out" /\ pc # "down"
  /\ conn' = [conn EXCEPT ![c] = "new"]
  /\ UNCHANGED <<client, sock, ready, pc, batch, packet, clock, history>>

Send(c) ==
  /\ Connected(c) /\ ~fin[c] /\ unsent[c] # <<>>
  /\ c \in Pipelining \/ Len(replies[c]) = SentBy(c)
  /\ wire' = [wire EXCEPT ![c] = @ \o Tokens(Head(unsent[c]))]
  /\ unsent' = [unsent EXCEPT ![c] = Tail(@)]
  /\ UNCHANGED <<fin, reset, socket, pc, batch, packet, clock, history>>

Deliver(c) ==
  /\ Connected(c)
  /\ \E n \in DOMAIN wire[c] :
       /\ sock' = [sock EXCEPT ![c] = @ \o SubSeq(wire[c], 1, n)]
       /\ wire' = [wire EXCEPT ![c] = SubSeq(@, n + 1, Len(@))]
  /\ ready' = IF conn[c] = "open" THEN Wake(c) ELSE ready
  /\ UNCHANGED <<unsent, fin, reset, conn, pc, batch, packet, clock, history>>

(* The client closes, or dies: what it has not got through is lost. *)
Finish(c) ==
  /\ Connected(c) /\ ~fin[c]
  /\ fin' = [fin EXCEPT ![c] = TRUE]
  /\ wire' = [wire EXCEPT ![c] = <<>>]
  /\ ready' = IF conn[c] = "open" THEN Wake(c) ELSE ready
  /\ UNCHANGED <<unsent, reset, sock, conn, pc, batch, packet, clock, history>>

(* A reply to a client that has closed is answered with a reset: an event, *)
(* after which a read fails.                                               *)
Reset(c) ==
  /\ c \in reset
  /\ reset' = reset \ {c}
  /\ ready' = IF conn[c] = "open" THEN Wake(c) ELSE ready
  /\ UNCHANGED <<unsent, wire, fin, sock, conn, pc, batch, packet, clock, history>>

-----------------------------------------------------------------------------
(* GpsTcp.  The listening socket is level-triggered: its event may stand   *)
(* anywhere in a batch.                                                    *)

Accept(c) ==
  /\ pc = "loop" /\ conn[c] = "new"
  /\ conn' = [conn EXCEPT ![c] = "open"]
  /\ ready' = IF sock[c] # <<>> \/ fin[c] THEN Wake(c) ELSE ready
  /\ UNCHANGED <<client, sock, pc, batch, packet, clock, history>>

EpollWait ==
  /\ pc = "loop" /\ batch = <<>> /\ ready # <<>>
  /\ batch' = ready
  /\ ready' = <<>>
  /\ UNCHANGED <<client, sock, conn, pc, packet, clock, history>>

BugBreak == IF pc = "close" THEN <<>> ELSE batch
Pending  == batch

HandleEvent ==
  /\ pc = "loop" /\ batch # <<>>
  /\ iSocket' = Head(batch)
  /\ batch' = Tail(batch)
  /\ pc' = "head"
  /\ iTotal' = 0 /\ iNum' = 0
  /\ UNCHANGED <<client, socket, m_psPacket, sPerMaxTime, clock, history>>

CloseSocket ==
  /\ pc = "close"
  /\ conn' = [conn EXCEPT ![iSocket] = "closed"]
  /\ sock' = [sock EXCEPT ![iSocket] = <<>>]
  /\ wire' = [wire EXCEPT ![iSocket] = <<>>]
  /\ ready' = Without(iSocket)
  /\ batch' = Pending
  /\ pc' = "loop"
  /\ UNCHANGED <<unsent, fin, reset, packet, clock, history>>

-----------------------------------------------------------------------------
(* BinaryServer and TcpRecv.  With nothing in the queue a read blocks: see *)
(* Blocked.                                                                *)

Token  == Head(sock[iSocket])
Arrived == sock[iSocket] # <<>>
Ended   == sock[iSocket] = <<>> /\ fin[iSocket]

(* A record read as a header has the wrong type.  The packet is refused,   *)
(* but only after as much was read as the length says that lies there.     *)
RecvHead ==
  /\ pc = "head" /\ Arrived
  /\ sock' = [sock EXCEPT ![iSocket] = Tail(@)]
  /\ \/ IsHead(Token) /\ iTotal' = Token.head /\ pc' = "body"
     \/ ~IsHead(Token) /\ iTotal' \in 0 .. BufferSize /\ pc' = "refuse"
  /\ UNCHANGED <<client, conn, ready, batch, iSocket, m_psPacket, iNum, sPerMaxTime, clock,
                 history>>

BugOneRead == iNum > 0
BodyRead   == iNum = iTotal

RecvBody ==
  /\ pc \in {"body", "refuse"} /\ ~BodyRead /\ Arrived
  /\ m_psPacket' = [m_psPacket EXCEPT ![iNum + 1] = IF pc = "body" THEN Token.rec ELSE Garbage]
  /\ iNum' = iNum + 1
  /\ sock' = [sock EXCEPT ![iSocket] = Tail(@)]
  /\ UNCHANGED <<client, conn, ready, pc, batch, iSocket, iTotal, sPerMaxTime, clock, history>>

(* the client closed before it sent all, or the packet has no records or   *)
(* the wrong type                                                          *)
RecvEnds ==
  /\ \/ pc = "head" /\ Ended
     \/ pc \in {"body", "refuse"} /\ ~BodyRead /\ Ended
     \/ pc = "body" /\ iTotal = 0
     \/ pc = "refuse" /\ (BodyRead \/ (iNum > 0 /\ ~Arrived))
  /\ pc' = "close"
  /\ UNCHANGED <<client, socket, batch, packet, clock, history>>

StartWrite ==
  /\ pc' = "write"
  /\ iNum' = 0
  /\ sPerMaxTime' = g_sMaxTime
  /\ UNCHANGED <<client, socket, batch, iSocket, m_psPacket, iTotal, clock, log, replies,
                 failed, crashes>>

RecvDone ==
  /\ pc = "body" /\ BodyRead /\ iTotal > 0
  /\ StartWrite
  /\ UNCHANGED paused

(* three seconds without the rest: the buffer still holds older records *)
RecvTimeout ==
  /\ pc = "body" /\ ~BodyRead /\ iNum > 0 /\ ~Arrived /\ ~Ended
  /\ StartWrite
  /\ paused' = paused \cup {iSocket}

-----------------------------------------------------------------------------
(* WriteDataCore *)

Hour(r) == IF r = Garbage THEN 0 ELSE HourOf[r]

WriteToMem ==
  /\ pc = "write" /\ iNum < iTotal
  /\ LET r == m_psPacket[iNum + 1]
     IN /\ log' = [log EXCEPT ![iSocket] = Append(@, r)]
        /\ g_sMaxTime' = Max({g_sMaxTime, Hour(r)})
  /\ iNum' = iNum + 1
  /\ UNCHANGED <<client, socket, pc, batch, iSocket, m_psPacket, iTotal, sPerMaxTime, CurTime,
                 replies, paused, failed, crashes>>

(* The reply is built at the beginning of the buffer.  Sending fails only  *)
(* if the client has closed, and only if it is known by then.              *)
Reply ==
  /\ pc = "write" /\ iNum = iTotal
  /\ m_psPacket' = [m_psPacket EXCEPT ![1] = Garbage]
  /\ \/ /\ replies' = [replies EXCEPT ![iSocket] = Append(@, iTotal)]
        /\ reset' = IF fin[iSocket] THEN reset \cup {iSocket} ELSE reset
        /\ pc' = "save"
        /\ UNCHANGED failed
     \/ /\ fin[iSocket]
        /\ failed' = TRUE
        /\ pc' = "close"
        /\ UNCHANGED <<replies, reset>>
  /\ UNCHANGED <<unsent, wire, fin, socket, batch, iSocket, iTotal, iNum, sPerMaxTime, clock,
                 log, paused, crashes>>

BugCompareLess == sPerMaxTime > g_sMaxTime
NewMaximum     == sPerMaxTime # g_sMaxTime

SaveCurTime ==
  /\ pc = "save"
  /\ CurTime' = IF NewMaximum THEN g_sMaxTime ELSE CurTime
  /\ pc' = "loop"
  /\ UNCHANGED <<client, socket, batch, packet, g_sMaxTime, history>>

-----------------------------------------------------------------------------
(* Connections, events and memory are lost.  A client that has connected   *)
(* does not do so again.                                                   *)
Kill ==
  /\ pc # "down" /\ crashes < MaxCrashes
  /\ crashes' = crashes + 1
  /\ pc' = "down"
  /\ conn' = [c \in Clients |-> IF Connected(c) THEN "closed" ELSE conn[c]]
  /\ wire' = [c \in Clients |-> <<>>] /\ sock' = wire'
  /\ ready' = <<>> /\ batch' = <<>> /\ reset' = {}
  /\ m_psPacket' = EmptyBuffer
  /\ iTotal' = 0 /\ iNum' = 0 /\ sPerMaxTime' = 0
  /\ g_sMaxTime' = 0
  /\ UNCHANGED <<unsent, fin, iSocket, CurTime, log, replies, paused, failed>>

GpsInit ==
  /\ pc = "down"
  /\ g_sMaxTime' = CurTime
  /\ pc' = "loop"
  /\ UNCHANGED <<client, socket, batch, packet, CurTime, history>>

ServerStep ==
  \/ EpollWait \/ HandleEvent \/ CloseSocket
  \/ RecvHead \/ RecvBody \/ RecvEnds \/ RecvDone \/ RecvTimeout
  \/ WriteToMem \/ Reply \/ SaveCurTime \/ GpsInit

Next ==
  \/ \E c \in Clients : Connect(c) \/ Send(c) \/ Deliver(c) \/ Finish(c) \/ Reset(c)
                      \/ Accept(c)
  \/ ServerStep
  \/ Kill

Spec == Init /\ [][Next]_vars

(* The server's thread runs, and the network delivers; a client need not   *)
(* send, nor close.                                                        *)
FairSpec ==
  /\ Spec
  /\ WF_vars(ServerStep)
  /\ \A c \in Clients : WF_vars(Accept(c)) /\ WF_vars(Deliver(c)) /\ WF_vars(Reset(c))

-----------------------------------------------------------------------------
(* the first n sequences of s as one, and the sum of the first n numbers   *)
Joined(s) == LET joined[n \in 0 .. Len(s)] == IF n = 0 THEN <<>> ELSE joined[n - 1] \o s[n]
             IN  joined
Total(s)  == LET total[n \in 0 .. Len(s)] == IF n = 0 THEN 0 ELSE total[n - 1] + s[n]
             IN  total

Sent(c) == Joined(Packets[c])[SentBy(c)]
Told(c) == Total(replies[c])[Len(replies[c])]

(* Whatever the segments, and whatever happens to other clients, who share *)
(* the buffer: unless a client itself paused within a packet, the records  *)
(* written for it are those it sent, in order and once, and those counted  *)
(* in its replies are written.                                             *)
SessionFaithful ==
  \A c \in Clients \ paused :
    /\ IsPrefix(log[c], Sent(c))
    /\ Told(c) <= Len(log[c])
    /\ pc = "loop" /\ conn[c] = "open" => Told(c) = Len(log[c])

(* A wait for events leaves nothing behind: a client that awaits replies   *)
(* has an event if anything of it is unread, its end included.  (That is   *)
(* not so of a client that sends several packets at once: they arrive with *)
(* one event, for which one packet is read.)                               *)
NothingStranded ==
  pc = "loop" /\ batch = <<>> =>
    \A c \in Clients \ (Pipelining \cup paused) :
      conn[c] = "open" /\ (sock[c] # <<>> \/ fin[c]) =>
        Contains(ready, c) \/ c \in reset

(* Between packets the file has the largest hour received since, unless a  *)
(* reply failed: then the hour is not written, and neither is it with the  *)
(* next packets, whose hours are not larger.                               *)
CurTimeKept ==
  /\ pc # "down" => CurTime <= g_sMaxTime
  /\ pc = "loop" => CurTime = g_sMaxTime \/ failed

(* a read that is repeated until the client sends or closes *)
Blocked == /\ pc = "head" \/ (pc \in {"body", "refuse"} /\ iNum = 0 /\ iTotal > 0)
           /\ ~Arrived /\ ~Ended

(* If the loop does not block for ever on a client that is silent, each    *)
(* client that awaits a reply gets it, or its connection is closed.  (The  *)
(* loop may: a packet in two segments may give two events, the second with *)
(* nothing left to read.)                                                  *)
PacketAnswered ==
  []<>~Blocked =>
    \A c \in Clients \ Pipelining :
      Len(replies[c]) < SentBy(c) ~> Len(replies[c]) = SentBy(c) \/ conn[c] = "closed"
=============================================================================
