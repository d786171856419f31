------------------------------ MODULE NetDevice ------------------------------
(***************************************************************************)
(* The network card and the layers under the sockets (kernel/network.c):   *)
(* the receive ring of the virtio card, net_init, the ARP cache and        *)
(* ip_send, which resolves the next hop and waits for an answer.           *)
(*                                                                         *)
(* One thread calls into the stack; between its steps the card delivers    *)
(* any frame of Incoming, so frames are lost, repeated and reordered at    *)
(* will, and ARP packets are handed to arp_handle_packet.  The transmit    *)
(* buffer is a single one and keeps the last frame given to the card;      *)
(* what the card makes of it is left open, as are checksums, sequence      *)
(* numbers and payloads.                                                   *)
(***************************************************************************)
EXTENDS Naturals, Sequences, FiniteSets

CONSTANTS RxBufs,      \* the buffers of the receive ring
          CacheSize,   \* ARP_CACHE_SIZE
          Hosts,       \* addresses of other hosts
          OwnIp,       \* nic.ip_addr
          Gateway,     \* nic.gateway
          OnLink,      \* the addresses nic.netmask takes for local ones
          Macs,        \* addresses of other cards
          OwnMac,      \* nic.mac
          Incoming,    \* the frames the network may deliver
          ArpRetries   \* rounds arp_resolve waits for an answer

ASSUME NetAssumption ==
    /\ IsFiniteSet(RxBufs)
    /\ {CacheSize, ArpRetries} \subseteq Nat \ {0}
    /\ Gateway \in Hosts /\ OnLink \subseteq Hosts /\ OwnIp \notin Hosts
    /\ \A f \in Incoming : f.kind = "arp" => f.ip \in Hosts

VARIABLES nicUp,     \* nic.initialized
          rxAvail,   \* buffers the card may fill
          rxUsed,    \* filled buffers the driver has not read yet, in order
          txBuf,     \* net_tx_buffer
          arp_cache, \* index -> entry
          heard,     \* host -> the card it announced last, "none" before (history)
          thread     \* the call in progress

nicVars == <<nicUp, rxAvail, rxUsed>>
netVars == <<nicVars, txBuf, arp_cache, heard, thread>>

Runt    == [kind |-> "runt"]     \* not longer than the virtio header
NoFrame == [kind |-> "none"]
Idle    == [op |-> "none", stage |-> "idle"]
Invalid == [valid |-> FALSE]
Arps    == {f \in Incoming : f.kind = "arp"}

(***************************************************************************)
(* The receive ring                                                        *)
(***************************************************************************)
\* The card fills a posted buffer with a frame from the network.
Arrive(f) ==
    \E b \in rxAvail :
        /\ nicUp
        /\ rxAvail' = rxAvail \ {b}
        /\ rxUsed' = Append(rxUsed, [buf |-> b, frame |-> f])
        /\ UNCHANGED <<nicUp, txBuf, arp_cache, heard, thread>>

\* The buffers posted again when the filled buffer u has been read: a runt's is not.
Reposted(u) == IF u.frame = Runt THEN {} ELSE {u.buf}

\* Mutant of Unread: last_used_idx is not advanced.
UnreadAgain == rxUsed

\* What virtio_net_recv leaves of the filled buffers.
Unread == Tail(rxUsed)

\* The frame nic_recv returns, NoFrame for nothing or an error.
Received == IF nicUp /\ rxUsed # <<>> /\ Head(rxUsed).frame # Runt
            THEN Head(rxUsed).frame ELSE NoFrame

\* The effect of nic_recv on the ring.
NicRecv ==
    /\ UNCHANGED nicUp
    /\ IF nicUp /\ rxUsed # <<>>
       THEN /\ rxUsed' = Unread
            /\ rxAvail' = rxAvail \cup Reposted(Head(rxUsed))
       ELSE UNCHANGED <<rxAvail, rxUsed>>

\* virtio_net_init: every buffer is posted.
VirtioNetPosted == RxBufs

\* nic_send: the one transmit buffer is overwritten, whether sent out or not.
NicSend(f) == txBuf' = IF nicUp THEN f ELSE txBuf

\* net_init: the rings are set up anew and the cache is cleared.
NetInit ==
    /\ ~nicUp /\ thread = Idle
    /\ nicUp' = TRUE
    /\ rxAvail' = VirtioNetPosted /\ rxUsed' = <<>>
    /\ arp_cache' = [i \in 1..CacheSize |-> Invalid]
    /\ UNCHANGED <<txBuf, heard, thread>>

\* net_shutdown
NetShutdown ==
    /\ nicUp
    /\ nicUp' = FALSE
    /\ UNCHANGED <<rxAvail, rxUsed, txBuf, arp_cache, heard, thread>>

(***************************************************************************)
(* ARP                                                                     *)
(***************************************************************************)
\* Mutant of SlotsFor: an announcement always takes a free slot.
SlotsForFree(ip) == {i \in 1..CacheSize : ~arp_cache[i].valid}

\* The slots arp_handle_packet may use for the sender's address.
SlotsFor(ip) == {i \in 1..CacheSize : ~arp_cache[i].valid \/ arp_cache[i].ip = ip}

LeastOf(S) == CHOOSE i \in S : \A j \in S : i <= j

ArpRequest(ip)  == [kind |-> "arprequest", dst |-> ip, to |-> "broadcast"]
ArpReply(ip, mac) == [kind |-> "arpreply", dst |-> ip, to |-> mac]

\* arp_handle_packet: remembers the sender where there is room, answers a request.
ArpHandlePacket(p) ==
    /\ arp_cache' = IF SlotsFor(p.ip) = {} THEN arp_cache
                    ELSE [arp_cache EXCEPT ![LeastOf(SlotsFor(p.ip))] =
                            [valid |-> TRUE, ip |-> p.ip, mac |-> p.mac]]
    /\ heard' = [heard EXCEPT ![p.ip] = p.mac]
    /\ IF p.request THEN NicSend(ArpReply(p.ip, p.mac))
                    ELSE UNCHANGED txBuf
    /\ UNCHANGED <<nicVars, thread>>

\* Mutant of EntriesOf: the address of the entry is not compared.
EntriesOfAny(ip) == {i \in 1..CacheSize : arp_cache[i].valid}

EntriesOf(ip) == {i \in 1..CacheSize : arp_cache[i].valid /\ arp_cache[i].ip = ip}

Resolved(ip) == ip = OwnIp \/ EntriesOf(ip) # {}

MacOf(ip) == IF ip = OwnIp THEN OwnMac ELSE arp_cache[LeastOf(EntriesOf(ip))].mac

(***************************************************************************)
(* IP: stage "send" of a call is the entry of ip_send, stage "resolve" the *)
(* wait of arp_resolve; the call goes on at thread.after either way.       *)
(***************************************************************************)
NextHop(dst) == IF dst \in OnLink THEN dst ELSE Gateway

Transmit(out) ==
    NicSend([kind |-> "ip", dst |-> out.dst, to |-> MacOf(NextHop(out.dst))])

IpSend ==
    /\ thread.stage = "send"
    /\ LET hop == NextHop(thread.out.dst)
       IN  IF Resolved(hop)
           THEN /\ Transmit(thread.out)
                /\ thread' = [thread EXCEPT !.stage = thread.after]
           ELSE /\ NicSend(ArpRequest(hop))
                /\ thread' = [thread EXCEPT !.stage = "resolve", !.tries = ArpRetries]
    /\ UNCHANGED <<nicVars, arp_cache, heard>>

\* One round of the wait: the packet is dropped when the last one finds no answer.
ArpResolve ==
    /\ thread.stage = "resolve"
    /\ IF Resolved(NextHop(thread.out.dst))
       THEN /\ Transmit(thread.out)
            /\ thread' = [thread EXCEPT !.stage = thread.after, !.tries = 0]
       ELSE /\ thread' = [thread EXCEPT !.tries = @ - 1,
                                        !.stage = IF thread.tries = 1 THEN thread.after ELSE "resolve"]
            /\ UNCHANGED txBuf
    /\ UNCHANGED <<nicVars, arp_cache, heard>>

\* A call that hands one packet to ip_send and goes on at stage after.
Sending(op, fd, dst, what, after) ==
    [op |-> op, fd |-> fd, stage |-> "send", after |-> after, tries |-> 0, left |-> 0,
     out |-> [dst |-> dst, what |-> what], port |-> 0]

\* icmp_send_echo (ping sends one after the other) and the answer of icmp_handle_packet
IcmpSendEcho(dst) ==
    /\ thread = Idle
    /\ thread' = Sending("icmp", 0, dst, "echo", "finish")
    /\ UNCHANGED <<nicVars, txBuf, arp_cache, heard>>

IcmpHandlePacket(src) ==
    /\ thread = Idle
    /\ thread' = Sending("icmp", 0, src, "echoreply", "finish")
    /\ UNCHANGED <<nicVars, txBuf, arp_cache, heard>>

IcmpDone ==
    /\ thread.stage = "finish" /\ thread.op = "icmp"
    /\ thread' = Idle
    /\ UNCHANGED <<nicVars, txBuf, arp_cache, heard>>

(***************************************************************************)
(* net_init has run; the cache is empty and every buffer is posted.        *)
(***************************************************************************)
NetInitial ==
    /\ nicUp = TRUE
    /\ rxAvail = VirtioNetPosted /\ rxUsed = <<>>
    /\ txBuf = NoFrame
    /\ arp_cache = [i \in 1..CacheSize |-> Invalid]
    /\ heard = [h \in Hosts |-> "none"]
    /\ thread = Idle

\* The steps of the card, the network and of arp_handle_packet.
NetEnvironment ==
    \/ \E f \in Incoming : Arrive(f)
    \/ NetShutdown
    \/ NetInit
    \/ \E p \in Arps : ArpHandlePacket(p)

\* The steps inside ip_send and the calls of ICMP.
NetThread == IpSend \/ ArpResolve \/ IcmpDone

NetCalls == \E h \in Hosts : IcmpSendEcho(h) \/ IcmpHandlePacket(h)

-----------------------------------------------------------------------------
\* No receive buffer is at once with the card and with the driver, or filled twice.
RxBuffersOnce ==
    /\ \A i, j \in DOMAIN rxUsed : i # j => rxUsed[i].buf # rxUsed[j].buf
    /\ \A i \in DOMAIN rxUsed : rxUsed[i].buf \notin rxAvail

\* However hosts announce and change their addresses, find the cache full or start anew
\* with an empty one, what ip_send finds for the next hop is the card it announced last.
\* What README.md:186 says of the cache is another matter: no entry is ever timed out,
\* and where the cache is full a new address is dropped, not the oldest entry; and no
\* code of the tree hands the packets it receives to arp_handle_packet.
ArpAgrees == \A ip \in Hosts : Resolved(ip) => MacOf(ip) = heard[ip]
=============================================================================
