------------------------------- MODULE Sockets -------------------------------
(***************************************************************************)
(* The Berkeley socket API (kernel/network_sock.c) over the card: the      *)
(* table of sockets, their buffers from kmalloc, ephemeral ports, and the  *)
(* calls that block by polling nic_recv a bounded number of times.         *)
(*                                                                         *)
(* A call sets the thread going; every poll is a step of its own, so the   *)
(* network moves in between.  Sequence numbers, payloads and the address   *)
(* of the own side are left out; the receive buffers are never filled.     *)
(***************************************************************************)
EXTENDS NetDevice

CONSTANTS Fds,        \* 0 .. SOCKET_MAX - 1
          HeapBufs,   \* socket buffers the heap has room for; kfree frees none
          PortCount,  \* ports are counted modulo this one (2^16)
          FirstPort,  \* the first ephemeral port (49152)
          Ports,      \* ports the program binds to, 0 among them
          Peers,      \* [ip, port]: where the program connects and sends to
          Polls       \* rounds of the polling loops

ASSUME SocketAssumption ==
    /\ Fds \subseteq Nat /\ IsFiniteSet(Fds)
    /\ {HeapBufs, PortCount, Polls} \subseteq Nat \ {0}
    /\ FirstPort \in 0 .. PortCount - 1
    /\ Ports \subseteq 0 .. PortCount - 1
    /\ Peers \subseteq [ip : Hosts, port : 0 .. PortCount - 1]
    /\ \A f \in Incoming : f.kind = "tcp" => f.src \in Hosts /\ f.sport \in 0 .. PortCount - 1

VARIABLES socket_table, \* fd -> socket
          heapUsed,     \* buffers kmalloc has given to sockets
          next_port     \* alloc_ephemeral_port's counter

tableVars == <<socket_table, heapUsed>>
sockVars  == <<tableVars, next_port>>

NULL == 0
Stream == "SOCK_STREAM"
Datagram == "SOCK_DGRAM"

Unused == [state |-> "UNUSED", type |-> "none", lport |-> 0, rip |-> OwnIp, rport |-> 0,
           rx |-> NULL, tx |-> NULL]

State(fd) == socket_table[fd].state
Set(fd, s) == socket_table' = [socket_table EXCEPT ![fd] = s]

\* A call returns.
Return == thread' = Idle

\* A call polls the card Polls times.
Polling(op, fd, port) ==
    [op |-> op, fd |-> fd, stage |-> "poll", after |-> "finish", tries |-> 0, left |-> Polls,
     out |-> [dst |-> OwnIp, what |-> "none"], port |-> port]

(***************************************************************************)
(* socket, bind, listen                                                    *)
(***************************************************************************)
FreeFds == {fd \in Fds : State(fd) = "UNUSED"}

\* Mutant of OnNoMemory: the slot is not given back.
OnNoMemoryKept(type, got) == [Unused EXCEPT !.state = "CLOSED", !.type = type, !.rx = got]

\* free_socket when one of the two buffers could not be had.
OnNoMemory(type, got) == Unused

\* socket(): the first free slot and two buffers; kmalloc may fail at either.
Open(type, fd) ==
    /\ fd = LeastOf(FreeFds)
    /\ LET room == HeapBufs - heapUsed
           got  == IF room >= 1 THEN heapUsed + 1 ELSE NULL
       IN  /\ heapUsed' = heapUsed + (IF room >= 2 THEN 2 ELSE room)
           /\ socket_table' = [socket_table EXCEPT ![fd] =
                IF room >= 2
                THEN [Unused EXCEPT !.state = "CLOSED", !.type = type,
                                    !.rx = got, !.tx = heapUsed + 2]
                ELSE OnNoMemory(type, got)]

Socket(type) ==
    /\ thread = Idle
    /\ \E fd \in FreeFds : Open(type, fd)
    /\ UNCHANGED <<netVars, next_port>>

Bind(fd, port) ==
    /\ thread = Idle /\ State(fd) # "UNUSED"
    /\ Set(fd, [socket_table[fd] EXCEPT !.state = "BOUND", !.lport = port])
    /\ UNCHANGED <<netVars, heapUsed, next_port>>

Listen(fd) ==
    /\ thread = Idle /\ State(fd) = "BOUND" /\ socket_table[fd].type = Stream
    /\ Set(fd, [socket_table[fd] EXCEPT !.state = "LISTENING"])
    /\ UNCHANGED <<netVars, heapUsed, next_port>>

(***************************************************************************)
(* accept: the first SYN on the card makes a child, whatever its port.     *)
(***************************************************************************)
Accept(fd) ==
    /\ thread = Idle /\ State(fd) = "LISTENING"
    /\ thread' = Polling("accept", fd, 0)
    /\ UNCHANGED <<nicVars, txBuf, arp_cache, heard, sockVars>>

Tcp(f, flags) == f.kind = "tcp" /\ f.flags = flags

\* A round of a polling loop that found nothing.
PollAgain == thread' = IF thread.left = 1 THEN Idle ELSE [thread EXCEPT !.left = @ - 1]

PollAccept ==
    /\ thread.stage = "poll" /\ thread.op = "accept"
    /\ NicRecv
    /\ IF ~Tcp(Received, "syn") THEN PollAgain /\ UNCHANGED tableVars
       ELSE IF FreeFds = {} THEN Return /\ UNCHANGED tableVars
       ELSE LET child == LeastOf(FreeFds)
                s     == socket_table[thread.fd]
            IN  IF HeapBufs - heapUsed < 2
                THEN Open(s.type, child) /\ Return
                ELSE /\ heapUsed' = heapUsed + 2
                     /\ Set(child, [state |-> "ESTABLISHED", type |-> s.type, lport |-> s.lport,
                                    rip |-> Received.src, rport |-> Received.sport,
                                    rx |-> heapUsed + 1, tx |-> heapUsed + 2])
                     /\ thread' = Sending("accept", child, Received.src, "synack", "finish")
    /\ UNCHANGED <<txBuf, arp_cache, heard, next_port>>

(***************************************************************************)
(* connect: SYN, wait for any SYN-ACK of that address, ACK.                *)
(***************************************************************************)
Ephemeral == (next_port + 1) % PortCount

Connect(fd, ip, port) ==
    /\ thread = Idle /\ State(fd) # "UNUSED"
    /\ LET s     == socket_table[fd]
           sport == IF s.lport # 0 THEN s.lport ELSE next_port
           to    == [s EXCEPT !.rip = ip, !.rport = port]
       IN  /\ next_port' = IF s.lport # 0 THEN next_port ELSE Ephemeral
           /\ IF s.type = Stream
              THEN /\ Set(fd, [to EXCEPT !.state = "SYN_SENT"])
                   /\ thread' = [Sending("connect", fd, ip, "syn", "poll")
                                   EXCEPT !.left = Polls, !.port = sport]
              ELSE /\ Set(fd, [to EXCEPT !.state = "ESTABLISHED", !.lport = sport])
                   /\ UNCHANGED thread
    /\ UNCHANGED <<nicVars, txBuf, arp_cache, heard, heapUsed>>

\* Mutant of GiveUp: the socket keeps waiting when connect has given up.
GiveUpWaiting(s) == s

\* connect's last round without an answer.
GiveUp(s) == [s EXCEPT !.state = "CLOSED"]

PollConnect ==
    /\ thread.stage = "poll" /\ thread.op = "connect"
    /\ NicRecv
    /\ LET s == socket_table[thread.fd]
       IN  IF Tcp(Received, "synack") /\ Received.src = s.rip
           THEN /\ thread' = [Sending("connect", thread.fd, s.rip, "ack", "finish")
                                EXCEPT !.port = thread.port]
                /\ UNCHANGED socket_table
           ELSE /\ PollAgain
                /\ IF thread.left = 1 THEN Set(thread.fd, GiveUp(s)) ELSE UNCHANGED socket_table
    /\ UNCHANGED <<txBuf, arp_cache, heard, heapUsed, next_port>>

\* What a call does when its packet has been sent or dropped.
Finish ==
    /\ thread.stage = "finish" /\ thread.op # "icmp"
    /\ Return
    /\ socket_table' =
         CASE thread.op = "connect" -> [socket_table EXCEPT ![thread.fd] =
                                          [@ EXCEPT !.lport = thread.port, !.state = "ESTABLISHED"]]
           [] thread.op = "close"   -> [socket_table EXCEPT ![thread.fd] = Unused]
           [] OTHER                 -> socket_table
    /\ UNCHANGED <<nicVars, txBuf, arp_cache, heard, heapUsed, next_port>>

(***************************************************************************)
(* send, recv, sendto, recvfrom                                            *)
(***************************************************************************)
Send(fd) ==
    /\ thread = Idle /\ State(fd) = "ESTABLISHED"
    /\ thread' = Sending("send", fd, socket_table[fd].rip, "data", "finish")
    /\ UNCHANGED <<nicVars, txBuf, arp_cache, heard, sockVars>>

\* sendto looks at no state; a port it allocates is not kept.
Sendto(fd, ip) ==
    /\ thread = Idle
    /\ thread' = Sending("sendto", fd, ip, "datagram", "finish")
    /\ next_port' = IF socket_table[fd].lport # 0 THEN next_port ELSE Ephemeral
    /\ UNCHANGED <<nicVars, txBuf, arp_cache, heard, tableVars>>

Recv(fd) ==
    /\ thread = Idle /\ State(fd) \in {"ESTABLISHED", "CLOSE_WAIT"}
    /\ thread' = Polling("recv", fd, 0)
    /\ UNCHANGED <<nicVars, txBuf, arp_cache, heard, sockVars>>

Recvfrom(fd) ==
    /\ thread = Idle
    /\ thread' = Polling("recvfrom", fd, 0)
    /\ UNCHANGED <<nicVars, txBuf, arp_cache, heard, sockVars>>

\* The frame is one the call returns; every other frame polled is dropped.
Wanted(f, s) ==
    IF thread.op = "recvfrom" THEN f.kind = "udp"
    ELSE \/ s.type = Stream /\ Tcp(f, "data") /\ f.dport = s.lport /\ f.sport = s.rport
         \/ s.type = Datagram /\ f.kind = "udp" /\ f.dport = s.lport

\* Mutant of RecvRound: a frame of another socket does not use up a round.
RecvRoundFree ==
    IF Wanted(Received, socket_table[thread.fd]) THEN Return
    ELSE IF Received = NoFrame THEN PollAgain ELSE UNCHANGED thread

RecvRound == IF Wanted(Received, socket_table[thread.fd]) THEN Return ELSE PollAgain

PollRecv ==
    /\ thread.stage = "poll" /\ thread.op \in {"recv", "recvfrom"}
    /\ NicRecv
    /\ RecvRound
    /\ UNCHANGED <<txBuf, arp_cache, heard, sockVars>>

(***************************************************************************)
(* shutdown, closesocket                                                   *)
(***************************************************************************)
\* shutdown(fd, how): reading ends in CLOSE_WAIT, the end of writing sends a FIN.
Shutdown(fd, rd, wr) ==
    /\ thread = Idle /\ State(fd) = "ESTABLISHED"
    /\ IF rd THEN Set(fd, [socket_table[fd] EXCEPT !.state = "CLOSE_WAIT"])
             ELSE UNCHANGED socket_table
    /\ thread' = IF wr THEN Sending("shutdown", fd, socket_table[fd].rip, "fin", "finish") ELSE Idle
    /\ UNCHANGED <<nicVars, txBuf, arp_cache, heard, heapUsed, next_port>>

Closesocket(fd) ==
    /\ thread = Idle
    /\ IF State(fd) = "ESTABLISHED" /\ socket_table[fd].type = Stream
       THEN /\ Set(fd, [socket_table[fd] EXCEPT !.state = "CLOSE_WAIT"])
            /\ thread' = Sending("close", fd, socket_table[fd].rip, "fin", "finish")
       ELSE Set(fd, Unused) /\ UNCHANGED thread
    /\ UNCHANGED <<nicVars, txBuf, arp_cache, heard, heapUsed, next_port>>

SocketInit ==
    /\ socket_table = [fd \in Fds |-> Unused]
    /\ heapUsed = 0
    /\ next_port = FirstPort

SocketCalls ==
    \/ \E type \in {Stream, Datagram} : Socket(type)
    \/ \E fd \in Fds :
          \/ \E port \in Ports : Bind(fd, port)
          \/ Listen(fd) \/ Accept(fd)
          \/ \E p \in Peers : Connect(fd, p.ip, p.port) \/ Sendto(fd, p.ip)
          \/ Send(fd) \/ Recv(fd) \/ Recvfrom(fd) \/ Closesocket(fd)
          \/ \E rd, wr \in BOOLEAN : Shutdown(fd, rd, wr)

SocketThread == PollAccept \/ PollConnect \/ PollRecv \/ Finish
-----------------------------------------------------------------------------
\* However calls fail and are given up, a socket in use has two buffers of its own
\* and a free slot has none.
BuffersOwned ==
    /\ \A fd \in Fds : LET s == socket_table[fd] IN
          IF s.state = "UNUSED" THEN s.rx = NULL /\ s.tx = NULL
          ELSE s.rx # NULL /\ s.tx # NULL /\ s.rx # s.tx
    /\ \A f, g \in Fds : f # g =>
          {socket_table[f].rx, socket_table[f].tx} \cap {socket_table[g].rx, socket_table[g].tx}
             \subseteq {NULL}

\* A socket that waits for a SYN-ACK has a connect in progress that waits for it.
SynSentHasCaller ==
    \A fd \in Fds : State(fd) = "SYN_SENT" => thread.op = "connect" /\ thread.fd = fd

\* Every call ends, whatever arrives while it polls.
CallsReturn == thread # Idle ~> thread = Idle
=============================================================================
