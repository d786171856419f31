------------------------------ MODULE MCNetwork ------------------------------
(***************************************************************************)
(* The card below its users: ICMP with every ARP packet, and the two       *)
(* socket interfaces.  They share the card and the heap; the run takes the *)
(* calls of one of them at a time: api is chosen at the start.             *)
(***************************************************************************)
EXTENDS SysSockets

Known == [kind |-> "arp", ip |-> "gw", mac |-> "m1", request |-> FALSE]

VARIABLE api \* what uses the card

vars == <<netVars, sockVars, sysVars, api>>

Init == NetInitial /\ SocketInit /\ SysInit /\ api \in {"arp", "bsd", "sys"}

\* ICMP over a card that goes up and down, and every ARP packet.  Nothing in the
\* tree hands a received frame to arp_handle_packet; the run does.
Arp == /\ api = "arp"
       /\ \/ \E f \in {[kind |-> "runt"], Known} : Arrive(f)
          \/ \E p \in Arps : ArpHandlePacket(p)
          \/ NetShutdown \/ NetInit \/ NetCalls
       /\ UNCHANGED <<sockVars, sysVars>>

\* The Berkeley sockets: every TCP and UDP frame.
Bsd == /\ api = "bsd"
       /\ \/ SocketCalls
          \/ /\ \E f \in Incoming : f.kind \in {"tcp", "udp"} /\ Arrive(f)
             /\ UNCHANGED sockVars
          \/ ArpHandlePacket(Known) /\ UNCHANGED sockVars
       /\ UNCHANGED sysVars

\* The sys_ calls, and sockets of the other interface that come and go between them:
\* a frame is one frame to them.
Sys == /\ api = "sys"
       /\ \/ SysCalls /\ UNCHANGED <<socket_table, next_port>>
          \/ SysNetInit /\ UNCHANGED sockVars
          \/ (Socket(Datagram) \/ \E fd \in Fds : Closesocket(fd)) /\ UNCHANGED sysVars
          \/ (\/ \E f \in Incoming : f.kind = "udp" /\ Arrive(f)
              \/ ArpHandlePacket(Known) \/ NetShutdown) /\ UNCHANGED <<sysVars, sockVars>>

\* The steps of the call in progress.
Run == \/ NetThread /\ UNCHANGED <<sockVars, sysVars>>
       \/ SocketThread /\ UNCHANGED sysVars
       \/ SysThread /\ UNCHANGED sockVars

Next == (Arp \/ Bsd \/ Sys \/ Run) /\ UNCHANGED api

\* A thread in a call keeps running.
Spec == Init /\ [][Next]_vars /\ WF_vars(Run /\ UNCHANGED api)

(***************************************************************************)
(* One host on the link, one behind the gateway.                           *)
(***************************************************************************)
Links == {"gw", "far"}
Here == {"gw"}
Peer == {[ip |-> "far", port |-> 1]}
Frames == {[kind |-> "runt"],
           Known,
           [kind |-> "arp", ip |-> "gw", mac |-> "m1", request |-> TRUE],
           [kind |-> "arp", ip |-> "gw", mac |-> "m2", request |-> FALSE],
           [kind |-> "arp", ip |-> "far", mac |-> "m2", request |-> FALSE],
           [kind |-> "tcp", flags |-> "syn", src |-> "far", sport |-> 1, dport |-> 2],
           [kind |-> "tcp", flags |-> "synack", src |-> "far", sport |-> 1, dport |-> 2],
           [kind |-> "tcp", flags |-> "data", src |-> "far", sport |-> 1, dport |-> 2],
           [kind |-> "udp", src |-> "gw", sport |-> 1, dport |-> 2]}
=============================================================================
