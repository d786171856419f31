----------------------------- MODULE SysSockets -----------------------------
(***************************************************************************)
(* The other socket interface of the kernel, the sys_ calls of             *)
(* kernel/network.c, with its own table, and what is built on it: the DNS  *)
(* resolver and the HTTP client.                                           *)
(*                                                                         *)
(* The buffers of these sockets come from the heap the other interface     *)
(* takes its buffers from, and take as much room; nothing is ever put into *)
(* them.  The text of queries and answers is left out, and so are the      *)
(* addresses: a socket may send to any host.  sys_connect makes a          *)
(* connection by declaring it: nothing is sent.  The calls take any        *)
(* descriptor of the table, given out or not.  The thread that is in one   *)
(* call at a time, and the card, are the other interface's too.            *)
(***************************************************************************)
EXTENDS Sockets

CONSTANTS SysFds,   \* 0 .. SOCKET_MAX - 1
          SysPolls  \* rounds of sys_recv

ASSUME SysAssumption == SysFds \subseteq Nat /\ IsFiniteSet(SysFds) /\ SysPolls \in Nat \ {0}

VARIABLE sockets \* fd -> socket of network.c

sysVars == <<sockets>>

SysUnused == [state |-> "UNUSED", type |-> "none", rx |-> NULL, tx |-> NULL]
SysFree   == {fd \in SysFds : sockets[fd].state = "UNUSED"}
SysSet(fd, s) == sockets' = [sockets EXCEPT ![fd] = s]

(***************************************************************************)
(* sys_socket asks for two buffers and looks at neither answer: where      *)
(* memory has run out the socket is kept without them.                     *)
(***************************************************************************)
\* Mutant of BufferAt: memory that is not there is given out again.
BufferAgain(n) == LeastOf({heapUsed + n, HeapBufs})

\* The n-th buffer kmalloc gives out from here on.
BufferAt(n) == IF heapUsed + n <= HeapBufs THEN heapUsed + n ELSE NULL

Opened(s, type) == [s EXCEPT !.state = "CLOSED", !.type = type,
                             !.rx = BufferAt(1), !.tx = BufferAt(2)]

TakesTwo == heapUsed' = LeastOf({heapUsed + 2, HeapBufs})

SysSocket(type) ==
    /\ thread = Idle /\ SysFree # {}
    /\ LET fd == LeastOf(SysFree)
       IN SysSet(fd, Opened(sockets[fd], type))
    /\ TakesTwo
    /\ UNCHANGED netVars

SysBind(fd) ==
    /\ thread = Idle /\ sockets[fd].state # "UNUSED"
    /\ SysSet(fd, [sockets[fd] EXCEPT !.state = "BOUND"])
    /\ UNCHANGED netVars

SysListen(fd) ==
    /\ thread = Idle /\ sockets[fd].type = Stream
    /\ SysSet(fd, [sockets[fd] EXCEPT !.state = "LISTENING"])
    /\ UNCHANGED netVars

SysConnect(fd) ==
    /\ thread = Idle
    /\ SysSet(fd, [sockets[fd] EXCEPT !.state = "ESTABLISHED"])
    /\ UNCHANGED netVars

\* sys_send, and sys_sendto, which names the peer first: only ESTABLISHED sends, and
\* not from a slot that sys_connect declared connected and nobody opened.
SysSend(fd, ip) ==
    /\ thread = Idle
    /\ sockets[fd].state = "ESTABLISHED" /\ sockets[fd].type # "none"
    /\ thread' = Sending("sys_send", fd, ip, "data", "finish")
    /\ UNCHANGED <<nicVars, txBuf, arp_cache, heard, sysVars>>

SysSendDone ==
    /\ thread.stage = "finish" /\ thread.op = "sys_send"
    /\ thread' = Idle
    /\ UNCHANGED <<nicVars, txBuf, arp_cache, heard, sysVars>>

SysRecv(fd) ==
    /\ thread = Idle /\ sockets[fd].state = "ESTABLISHED"
    /\ thread' = [op |-> "sys_recv", fd |-> fd, stage |-> "poll", after |-> "finish", tries |-> 0,
                  left |-> SysPolls, out |-> [dst |-> OwnIp, what |-> "none"], port |-> 0]
    /\ UNCHANGED <<nicVars, txBuf, arp_cache, heard, sysVars>>

\* The first frame of any kind ends the call; one that is not for it is dropped.
PollSysRecv ==
    /\ thread.stage = "poll" /\ thread.op = "sys_recv"
    /\ NicRecv
    /\ thread' = IF Received # NoFrame \/ thread.left = 0 THEN Idle
                 ELSE [thread EXCEPT !.left = @ - 1]
    /\ UNCHANGED <<txBuf, arp_cache, heard, sysVars>>

\* Mutant of SysClosed: the slot is marked free and not cleared.
SysClosedMarked(table, fd) == [table EXCEPT ![fd].state = "UNUSED"]

\* sys_close clears the slot; kfree gives nothing back.
SysClosed(table, fd) == [table EXCEPT ![fd] = SysUnused]

SysClose(fd) ==
    /\ thread = Idle
    /\ sockets' = SysClosed(sockets, fd)
    /\ UNCHANGED netVars

(***************************************************************************)
(* dns_resolve, with a server set: its socket is never connected, so it is *)
(* CLOSED when sys_sendto and sys_recvfrom look at it: both return -1 at   *)
(* once, the socket is closed again and the name is not resolved; its      *)
(* buffers are gone.  http_get resolves first and does no more.            *)
(***************************************************************************)
DnsResolve ==
    /\ thread = Idle /\ SysFree # {}
    /\ LET fd == LeastOf(SysFree)
       IN sockets' = SysClosed([sockets EXCEPT ![fd] = Opened(@, Datagram)], fd)
    /\ TakesTwo
    /\ UNCHANGED netVars

\* net_init clears the table too, whatever was open.
SysNetInit ==
    /\ NetInit
    /\ sockets' = [fd \in SysFds |-> SysUnused]

SysInit == sockets = [fd \in SysFds |-> SysUnused]

\* The calls that allocate nothing.
SysUses ==
    \E fd \in SysFds :
        \/ SysBind(fd) \/ SysListen(fd) \/ SysConnect(fd) \/ SysRecv(fd) \/ SysClose(fd)
        \/ \E ip \in Hosts : SysSend(fd, ip)

SysCalls ==
    \/ \E type \in {Stream, Datagram} : SysSocket(type)
    \/ DnsResolve
    \/ SysUses /\ UNCHANGED heapUsed

SysThread == PollSysRecv \/ SysSendDone
-----------------------------------------------------------------------------
\* However memory runs out, lookups fail and slots are closed or declared connected
\* that were never opened, a free slot of network.c keeps no buffer, and no buffer is
\* of two sockets or both of one's, of this interface or the other.
SysBuffersOwned ==
    /\ \A fd \in SysFds : LET s == sockets[fd] IN
          /\ s.state = "UNUSED" => s.rx = NULL /\ s.tx = NULL
          /\ s.rx = s.tx => s.rx = NULL
    /\ \A f, g \in SysFds : f # g =>
          {sockets[f].rx, sockets[f].tx} \cap {sockets[g].rx, sockets[g].tx} \subseteq {NULL}
    /\ \A f \in SysFds, g \in Fds :
          {sockets[f].rx, sockets[f].tx} \cap {socket_table[g].rx, socket_table[g].tx} \subseteq {NULL}

\* A socket of network_sock.c in use has its two buffers and, while it waits for an
\* answer, its caller; sockets of network.c may be without theirs; no buffer has two
\* owners, and a free slot is none.
SocketsOwned == BuffersOwned /\ SynSentHasCaller /\ SysBuffersOwned
=============================================================================
