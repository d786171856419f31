---------------------------- MODULE NetworkProofs ----------------------------
(***************************************************************************)
(* The card, the table of addresses and the buffers of the sockets, for    *)
(* any number of each and any frames the network delivers, loses, repeats  *)
(* and reorders (kernel/network.c and kernel/network_sock.c).              *)
(***************************************************************************)
EXTENDS SysSockets, SequenceTheorems, WellFoundedInduction, TLAPS

allVars == <<netVars, sockVars, sysVars>>

StackInit == NetInitial /\ SocketInit /\ SysInit

\* The network, ICMP, and one call of either socket interface after the other.
StackNext ==
    \/ (NetEnvironment \/ NetThread \/ NetCalls) /\ UNCHANGED <<sockVars, sysVars>>
    \/ (SocketCalls \/ SocketThread) /\ UNCHANGED sysVars
    \/ SysCalls /\ UNCHANGED <<socket_table, next_port>>
    \/ (SysNetInit \/ SysThread) /\ UNCHANGED sockVars

StackSpec == StackInit /\ [][StackNext]_allVars

(***************************************************************************)
(* The receive ring                                                        *)
(***************************************************************************)
Filled == [buf : RxBufs, frame : Incoming]

\* RxBuffersOnce holds beside what the ring is made of.
RingInv == rxUsed \in Seq(Filled) /\ rxAvail \subseteq RxBufs /\ RxBuffersOnce

\* What a step does to the ring.
RingStep ==
    \/ \E f \in Incoming : Arrive(f)
    \/ NetInit
    \/ NicRecv
    \/ UNCHANGED <<rxAvail, rxUsed>>

\* A frame that arrives preserves the invariant of the receive ring.
LEMMA ArriveKeeps ==
  ASSUME RingInv, NEW f \in Incoming, Arrive(f)
  PROVE  RingInv'
<1>1. PICK b \in rxAvail : /\ rxAvail' = rxAvail \ {b}
                           /\ rxUsed' = Append(rxUsed, [buf |-> b, frame |-> f])
  BY DEF Arrive
<1> DEFINE u == [buf |-> b, frame |-> f]
<1>2. u \in Filled /\ u.buf = b
  BY DEF RingInv, Filled
<1> HIDE DEF u
<1>3. /\ rxUsed' \in Seq(Filled) /\ Len(rxUsed') = Len(rxUsed) + 1
      /\ \A i \in 1 .. Len(rxUsed) : rxUsed'[i] = rxUsed[i]
      /\ rxUsed'[Len(rxUsed) + 1] = u
  BY <1>1, <1>2, AppendProperties DEF RingInv, u
<1>4. \A i \in 1 .. Len(rxUsed) : rxUsed[i].buf \notin rxAvail
  BY DEF RingInv, RxBuffersOnce
<1>5. \A i \in 1 .. Len(rxUsed) + 1 : rxUsed'[i].buf = IF i = Len(rxUsed) + 1 THEN b ELSE rxUsed[i].buf
  BY <1>2, <1>3
<1>6. Len(rxUsed) \in Nat /\ DOMAIN rxUsed = 1 .. Len(rxUsed) /\ DOMAIN rxUsed' = 1 .. Len(rxUsed) + 1
  BY <1>3 DEF RingInv
<1>7. \A i, j \in DOMAIN rxUsed' : i # j => rxUsed'[i].buf # rxUsed'[j].buf
  BY <1>4, <1>5, <1>6 DEF RingInv, RxBuffersOnce
<1>8. \A i \in DOMAIN rxUsed' : rxUsed'[i].buf \notin rxAvail'
  BY <1>1, <1>4, <1>5, <1>6
<1> QED BY <1>1, <1>3, <1>7, <1>8 DEF RingInv, RxBuffersOnce

\* virtio_net_recv gives the buffer back to the card, or a runt's to nobody.
LEMMA RecvKeeps ==
  ASSUME RingInv, NicRecv
  PROVE  RingInv'
<1>1. CASE UNCHANGED <<rxAvail, rxUsed>>
  BY <1>1 DEF RingInv, RxBuffersOnce
<1>2. CASE /\ rxUsed # <<>> /\ rxUsed' = Tail(rxUsed)
           /\ rxAvail' = rxAvail \cup Reposted(Head(rxUsed))
  <2>1. /\ rxUsed' \in Seq(Filled) /\ Len(rxUsed') = Len(rxUsed) - 1
        /\ \A i \in 1 .. Len(rxUsed) - 1 : rxUsed'[i] = rxUsed[i + 1]
        /\ Len(rxUsed) \in Nat \ {0} /\ Head(rxUsed) = rxUsed[1] /\ rxUsed[1] \in Filled
    BY <1>2, HeadTailProperties DEF RingInv
  <2>2. DOMAIN rxUsed = 1 .. Len(rxUsed) /\ DOMAIN rxUsed' = 1 .. Len(rxUsed) - 1
    BY <2>1 DEF RingInv
  <2>3. rxAvail' \subseteq rxAvail \cup {rxUsed[1].buf}
    BY <1>2, <2>1 DEF Reposted
  <2>4. rxAvail' \subseteq RxBufs
    BY <2>1, <2>3 DEF RingInv, Filled
  <2>5. \A i \in DOMAIN rxUsed' : /\ rxUsed'[i] = rxUsed[i + 1]
                                  /\ i + 1 \in DOMAIN rxUsed /\ 1 \in DOMAIN rxUsed /\ i + 1 # 1
    BY <2>1, <2>2
  <2>6. \A i, j \in DOMAIN rxUsed' : i # j => rxUsed'[i].buf # rxUsed'[j].buf
    <3> TAKE i, j \in DOMAIN rxUsed'
    <3>1. i # j => i + 1 # j + 1
      BY <2>1, <2>2
    <3> QED BY <2>5, <3>1 DEF RingInv, RxBuffersOnce
  <2>7. \A i \in DOMAIN rxUsed' : rxUsed'[i].buf \notin rxAvail'
    BY <2>3, <2>5 DEF RingInv, RxBuffersOnce
  <2> QED BY <2>1, <2>4, <2>6, <2>7 DEF RingInv, RxBuffersOnce
<1> QED BY <1>1, <1>2 DEF NicRecv, Unread

\* Every step on the receive ring preserves its invariant.
LEMMA RingKeeps ==
  ASSUME RingInv, RingStep
  PROVE  RingInv'
<1>1. ASSUME NetInit PROVE RingInv'
  <2>1. rxUsed' = <<>> /\ rxAvail' = RxBufs
    BY <1>1 DEF NetInit, VirtioNetPosted
  <2>2. <<>> \in Seq(Filled) /\ DOMAIN <<>> = {}
    OBVIOUS
  <2> QED BY <2>1, <2>2 DEF RingInv, RxBuffersOnce
<1>2. ASSUME UNCHANGED <<rxAvail, rxUsed>> PROVE RingInv'
  BY <1>2 DEF RingInv, RxBuffersOnce
<1> QED BY <1>1, <1>2, ArriveKeeps, RecvKeeps DEF RingStep

\* Only the card and virtio_net_recv touch the ring; every other step leaves it.
LEMMA RingSteps ==
  ASSUME [StackNext]_allVars
  PROVE  RingStep
<1> USE DEF RingStep
<1>1. ASSUME UNCHANGED allVars PROVE RingStep
  BY <1>1 DEF allVars, netVars, nicVars
<1>2. ASSUME NetEnvironment PROVE RingStep
  BY <1>2 DEF NetEnvironment, NetShutdown, ArpHandlePacket, nicVars
<1>3. ASSUME NetThread PROVE RingStep
  BY <1>3 DEF NetThread, IpSend, ArpResolve, IcmpDone, nicVars
<1>4. ASSUME NetCalls PROVE RingStep
  BY <1>4 DEF NetCalls, IcmpSendEcho, IcmpHandlePacket, nicVars
<1>5. ASSUME SocketCalls PROVE RingStep
  BY <1>5 DEF SocketCalls, Socket, Bind, Listen, Accept, Connect, Send, Sendto, Recv,
              Recvfrom, Shutdown, Closesocket, netVars, nicVars
<1>6. ASSUME SocketThread PROVE RingStep
  BY <1>6 DEF SocketThread, PollAccept, PollConnect, PollRecv, Finish, nicVars
<1>7. ASSUME SysCalls PROVE RingStep
  BY <1>7 DEF SysCalls, SysSocket, SysBind, SysListen, SysConnect, SysUses, SysSend, SysRecv, SysClose,
              DnsResolve, netVars, nicVars
<1>8. ASSUME SysNetInit \/ SysThread PROVE RingStep
  BY <1>8 DEF SysNetInit, SysThread, PollSysRecv, SysSendDone, nicVars
<1> QED BY <1>1, <1>2, <1>3, <1>4, <1>5, <1>6, <1>7, <1>8 DEF StackNext

\* However frames arrive and runts leak their buffers, no receive buffer is at once
\* with the card (rxAvail) and with the driver, or filled twice (virtio_net_recv).
THEOREM RxBuffersOnceCorrect == StackSpec => []RxBuffersOnce
<1>1. StackInit => RingInv
  <2>1. <<>> \in Seq(Filled) /\ DOMAIN <<>> = {}
    OBVIOUS
  <2> QED BY <2>1 DEF StackInit, NetInitial, VirtioNetPosted, RingInv, RxBuffersOnce
<1>2. RingInv /\ [StackNext]_allVars => RingInv'
  BY RingSteps, RingKeeps
<1>3. RingInv => RxBuffersOnce
  BY DEF RingInv
<1> QED BY <1>1, <1>2, <1>3, PTL DEF StackSpec

(***************************************************************************)
(* The table of addresses                                                  *)
(***************************************************************************)
\* A valid entry holds what its host announced last.
EntriesNewest ==
    \A i \in 1..CacheSize : arp_cache[i].valid => arp_cache[i].mac = heard[arp_cache[i].ip]

\* The table fills from its first slot on: a slot behind a free one is free.
FilledFromFirst ==
    \A i, j \in 1..CacheSize : i < j /\ arp_cache[j].valid => arp_cache[i].valid

\* An address has one entry, so that an announcement finds every entry it makes old.
OneEntryPerAddress ==
    \A i, j \in 1..CacheSize :
        arp_cache[i].valid /\ arp_cache[j].valid /\ arp_cache[i].ip = arp_cache[j].ip => i = j

ArpInv ==
    /\ DOMAIN arp_cache = 1..CacheSize /\ DOMAIN heard = Hosts
    /\ EntriesNewest /\ FilledFromFirst /\ OneEntryPerAddress

\* What a step does to the table.
ArpStep ==
    \/ \E p \in Arps : ArpHandlePacket(p)
    \/ NetInit
    \/ UNCHANGED <<arp_cache, heard>>

\* Where the code looks for the first slot of a table that will do, it finds one.
LEMMA FirstSlot ==
  ASSUME NEW S \in SUBSET Nat, S # {}
  PROVE  LeastOf(S) \in S /\ \A j \in S : LeastOf(S) <= j
<1>1. PICK k \in S : \A j \in S : ~(<<j, k>> \in OpToRel(<, Nat))
  BY NatLessThanWellFounded, WFMin
<1>2. \A j \in S : k <= j
  <2> TAKE j \in S
  <2>1. j \in Nat /\ k \in Nat /\ <<j, k>> \in Nat \X Nat
    OBVIOUS
  <2>2. ~(j < k)
    BY <1>1, <2>1 DEF OpToRel
  <2> QED BY <2>1, <2>2
<1> QED BY <1>2 DEF LeastOf

\* The first entry of a non-empty set of entries is one of them and the least.
LEMMA FirstEntry ==
  ASSUME NEW S \in SUBSET (1..CacheSize), S # {}
  PROVE  LeastOf(S) \in S /\ \A j \in S : LeastOf(S) <= j
  BY FirstSlot, NetAssumption

\* An ARP packet that is handled preserves the invariant of the cache.
LEMMA HandleKeeps ==
  ASSUME ArpInv, NEW p \in Arps, ArpHandlePacket(p)
  PROVE  ArpInv'
<1>1. p.ip \in Hosts /\ heard' = [heard EXCEPT ![p.ip] = p.mac]
  BY NetAssumption DEF ArpHandlePacket, Arps
<1>2. DOMAIN heard' = Hosts /\ heard'[p.ip] = p.mac /\ \A h \in Hosts : h # p.ip => heard'[h] = heard[h]
  BY <1>1 DEF ArpInv
<1>3. \A h : h # p.ip => heard'[h] = heard[h]
  BY <1>1
<1>4. CASE SlotsFor(p.ip) = {}
  <2>1. arp_cache' = arp_cache
    BY <1>4 DEF ArpHandlePacket
  <2>2. \A i \in 1..CacheSize : arp_cache[i].valid => arp_cache[i].ip # p.ip
    BY <1>4 DEF SlotsFor
  <2>3. EntriesNewest'
    BY <1>3, <2>1, <2>2 DEF ArpInv, EntriesNewest
  <2> QED BY <1>2, <2>1, <2>3 DEF ArpInv, OneEntryPerAddress, FilledFromFirst
<1>5. CASE SlotsFor(p.ip) # {}
  <2> DEFINE i == LeastOf(SlotsFor(p.ip))
  <2>1. i \in SlotsFor(p.ip)
    BY <1>5, FirstEntry DEF SlotsFor
  <2>2. arp_cache' = [arp_cache EXCEPT ![i] = [valid |-> TRUE, ip |-> p.ip, mac |-> p.mac]]
    BY <1>5 DEF ArpHandlePacket
  <2> HIDE DEF i
  <2>3. /\ i \in 1..CacheSize /\ DOMAIN arp_cache' = 1..CacheSize
        /\ arp_cache'[i] = [valid |-> TRUE, ip |-> p.ip, mac |-> p.mac]
        /\ \A j \in 1..CacheSize : j # i => arp_cache'[j] = arp_cache[j]
    BY <2>1, <2>2 DEF ArpInv, SlotsFor
  <2>4. \A j \in 1..CacheSize : j < i => arp_cache[j].valid /\ arp_cache[j].ip # p.ip
    <3> TAKE j \in 1..CacheSize
    <3>1. j \in SlotsFor(p.ip) => i <= j
      BY <1>5, FirstEntry DEF SlotsFor, i
    <3>2. j \in SlotsFor(p.ip) <=> ~arp_cache[j].valid \/ arp_cache[j].ip = p.ip
      BY DEF SlotsFor
    <3> QED BY <2>3, <3>1, <3>2
  <2>5. \A j \in 1..CacheSize : i < j /\ arp_cache[j].valid => arp_cache[j].ip # p.ip
    <3> TAKE j \in 1..CacheSize
    <3>1. CASE arp_cache[i].valid
      BY <1>5, <2>1, <2>3, <3>1 DEF SlotsFor, ArpInv, OneEntryPerAddress
    <3>2. CASE ~arp_cache[i].valid
      BY <2>3, <3>2 DEF ArpInv, FilledFromFirst
    <3> QED BY <3>1, <3>2
  <2>6. \A j \in 1..CacheSize : j # i => j < i \/ i < j
    BY <2>3
  <2>7. OneEntryPerAddress'
    BY <2>3, <2>4, <2>5, <2>6 DEF ArpInv, OneEntryPerAddress
  <2>8. FilledFromFirst'
    BY <2>3, <2>4, <2>6 DEF ArpInv, FilledFromFirst
  <2>9. EntriesNewest'
    <3>1. \A j \in 1..CacheSize : j # i /\ arp_cache[j].valid => arp_cache[j].ip # p.ip
      BY <2>4, <2>5, <2>6
    <3> QED BY <1>2, <1>3, <2>3, <3>1 DEF ArpInv, EntriesNewest
  <2> QED BY <1>2, <2>3, <2>7, <2>8, <2>9 DEF ArpInv
<1> QED BY <1>4, <1>5

\* Every step on the ARP cache preserves its invariant.
LEMMA ArpKeeps ==
  ASSUME ArpInv, ArpStep
  PROVE  ArpInv'
<1>1. ASSUME NetInit PROVE ArpInv'
  <2>1. arp_cache' = [i \in 1..CacheSize |-> Invalid] /\ UNCHANGED heard
    BY <1>1 DEF NetInit
  <2> QED BY <2>1 DEF ArpInv, EntriesNewest, FilledFromFirst, OneEntryPerAddress, Invalid
<1>2. ASSUME UNCHANGED <<arp_cache, heard>> PROVE ArpInv'
  BY <1>2 DEF ArpInv, EntriesNewest, FilledFromFirst, OneEntryPerAddress
<1> QED BY <1>1, <1>2, HandleKeeps DEF ArpStep

\* Every other step of the network and of the sockets leaves the table.
LEMMA ArpSteps ==
  ASSUME [StackNext]_allVars
  PROVE  ArpStep
<1> USE DEF ArpStep
<1>1. ASSUME UNCHANGED allVars PROVE ArpStep
  BY <1>1 DEF allVars, netVars
<1>2. ASSUME NetEnvironment PROVE ArpStep
  BY <1>2 DEF NetEnvironment, Arrive, NetShutdown
<1>3. ASSUME NetThread PROVE ArpStep
  BY <1>3 DEF NetThread, IpSend, ArpResolve, IcmpDone
<1>4. ASSUME NetCalls PROVE ArpStep
  BY <1>4 DEF NetCalls, IcmpSendEcho, IcmpHandlePacket
<1>5. ASSUME SocketCalls PROVE ArpStep
  BY <1>5 DEF SocketCalls, Socket, Bind, Listen, Accept, Connect, Send, Sendto, Recv,
              Recvfrom, Shutdown, Closesocket, netVars
<1>6. ASSUME SocketThread PROVE ArpStep
  BY <1>6 DEF SocketThread, PollAccept, PollConnect, PollRecv, Finish
<1>7. ASSUME SysCalls PROVE ArpStep
  BY <1>7 DEF SysCalls, SysSocket, SysBind, SysListen, SysConnect, SysUses, SysSend, SysRecv, SysClose,
              DnsResolve, netVars
<1>8. ASSUME SysNetInit \/ SysThread PROVE ArpStep
  BY <1>8 DEF SysNetInit, SysThread, PollSysRecv, SysSendDone
<1> QED BY <1>1, <1>2, <1>3, <1>4, <1>5, <1>6, <1>7, <1>8 DEF StackNext

\* However many hosts announce and change their addresses, and for any size of the
\* cache, what ip_send finds there for a host is the card it announced last
\* (arp_handle_packet, arp_resolve; nothing of the tree calls the former yet).
THEOREM ArpAgreesCorrect == StackSpec => []ArpAgrees
<1>1. StackInit => ArpInv
  BY DEF StackInit, NetInitial, ArpInv, EntriesNewest, FilledFromFirst, OneEntryPerAddress, Invalid
<1>2. ArpInv /\ [StackNext]_allVars => ArpInv'
  BY ArpSteps, ArpKeeps
<1>3. ArpInv => ArpAgrees
  <2> SUFFICES ASSUME ArpInv, NEW ip \in Hosts, Resolved(ip) PROVE MacOf(ip) = heard[ip]
    BY DEF ArpAgrees
  <2>1. ip # OwnIp /\ EntriesOf(ip) # {}
    BY NetAssumption DEF Resolved
  <2>2. LeastOf(EntriesOf(ip)) \in EntriesOf(ip)
    BY <2>1, FirstEntry DEF EntriesOf
  <2> QED BY <2>1, <2>2 DEF MacOf, EntriesOf, ArpInv, EntriesNewest
<1> QED BY <1>1, <1>2, <1>3, PTL DEF StackSpec

(***************************************************************************)
(* The sockets                                                             *)
(***************************************************************************)
PortNumbers == 0 .. PortCount - 1
Addressable == Hosts \cup {OwnIp}

States == {"UNUSED", "CLOSED", "BOUND", "LISTENING", "SYN_SENT", "ESTABLISHED", "CLOSE_WAIT"}

Sock == [state : States, type : {"none", Stream, Datagram}, lport : PortNumbers, rip : Addressable,
         rport : PortNumbers, rx : 0 .. HeapBufs, tx : 0 .. HeapBufs]

\* kmalloc never gives a buffer twice: the sockets' buffers are older than its next one.
TableInv ==
    /\ socket_table \in [Fds -> Sock] /\ heapUsed \in 0 .. HeapBufs /\ next_port \in PortNumbers
    /\ \A fd \in Fds : socket_table[fd].rx <= heapUsed /\ socket_table[fd].tx <= heapUsed
    /\ BuffersOwned

Ops == {"icmp", "accept", "connect", "send", "sendto", "recv", "recvfrom", "shutdown", "close",
        "sys_send", "sys_recv"}

Stages == {"send", "resolve", "poll", "finish"}

Contents == {"none", "echo", "echoreply", "syn", "synack", "ack", "data", "datagram", "fin"}

Busy == [op : Ops, fd : Nat, stage : Stages, after : Stages, tries : Int, left : Int,
         out : [dst : Addressable, what : Contents], port : PortNumbers]

\* The call in progress, and a connect with its socket.
CallInv ==
    /\ thread \in {Idle} \cup Busy
    /\ thread.op \in {"accept", "connect"} => thread.fd \in Fds
    /\ thread.op = "connect" => State(thread.fd) = "SYN_SENT"
    /\ SynSentHasCaller

\* Socket s may take the place of old when kmalloc has given out h buffers.
Fits(s, old, h) ==
    /\ s \in Sock /\ h \in heapUsed .. HeapBufs /\ s.rx <= h /\ s.tx <= h
    /\ IF s.state = "UNUSED" THEN s.rx = NULL /\ s.tx = NULL
       ELSE s.rx # NULL /\ s.tx # NULL /\ s.rx # s.tx
    /\ \A b \in {s.rx, s.tx} : b = NULL \/ b > heapUsed \/ b \in {old.rx, old.tx}

\* What a step does to the table.
TableStep ==
    \/ UNCHANGED tableVars
    \/ \E fd \in Fds, s \in Sock : /\ socket_table' = [socket_table EXCEPT ![fd] = s]
                                   /\ Fits(s, socket_table[fd], heapUsed')

\* Every step on the socket table preserves its invariant.
LEMMA TableKeeps ==
  ASSUME TableInv, TableStep, next_port' \in PortNumbers
  PROVE  TableInv'
<1>1. CASE UNCHANGED tableVars
  BY <1>1 DEF TableInv, tableVars, BuffersOwned
<1>2. ASSUME NEW fd \in Fds, NEW s \in Sock, Fits(s, socket_table[fd], heapUsed'),
             socket_table' = [socket_table EXCEPT ![fd] = s]
      PROVE  TableInv'
  <2>1. /\ socket_table' \in [Fds -> Sock] /\ socket_table'[fd] = s
        /\ \A g \in Fds : g # fd => socket_table'[g] = socket_table[g]
    BY <1>2 DEF TableInv
  <2>2. /\ heapUsed \in Nat /\ heapUsed' \in 0 .. HeapBufs /\ heapUsed <= heapUsed' /\ HeapBufs \in Nat
        /\ s.rx \in Nat /\ s.tx \in Nat /\ s.rx <= heapUsed' /\ s.tx <= heapUsed'
    BY <1>2, SocketAssumption DEF Fits, TableInv, Sock
  <2>3. \A g \in Fds : socket_table[g].rx \in Nat /\ socket_table[g].tx \in Nat
    BY SocketAssumption DEF TableInv, Sock
  <2>4. \A g \in Fds : socket_table'[g].rx <= heapUsed' /\ socket_table'[g].tx <= heapUsed'
    BY <2>1, <2>2, <2>3 DEF TableInv
  <2>5. \A g \in Fds : IF socket_table'[g].state = "UNUSED"
                       THEN socket_table'[g].rx = NULL /\ socket_table'[g].tx = NULL
                       ELSE /\ socket_table'[g].rx # NULL /\ socket_table'[g].tx # NULL
                            /\ socket_table'[g].rx # socket_table'[g].tx
    BY <1>2, <2>1 DEF Fits, TableInv, BuffersOwned
  <2> DEFINE Bufs(r) == {r.rx, r.tx}
  <2>6. \A g \in Fds : g # fd => Bufs(s) \cap Bufs(socket_table[g]) \subseteq {NULL}
    <3> SUFFICES ASSUME NEW g \in Fds, g # fd, NEW b \in Bufs(s) \cap Bufs(socket_table[g])
                 PROVE  b = NULL
      OBVIOUS
    <3>1. b <= heapUsed /\ b \in Nat
      BY <2>3 DEF TableInv
    <3>2. b = NULL \/ b > heapUsed \/ b \in Bufs(socket_table[fd])
      BY <1>2 DEF Fits
    <3>3. Bufs(socket_table[fd]) \cap Bufs(socket_table[g]) \subseteq {NULL}
      BY DEF TableInv, BuffersOwned
    <3> QED BY <2>2, <3>1, <3>2, <3>3
  <2>7. \A f, g \in Fds : f # g => Bufs(socket_table'[f]) \cap Bufs(socket_table'[g]) \subseteq {NULL}
    BY <2>1, <2>6 DEF TableInv, BuffersOwned
  <2> QED BY <2>1, <2>2, <2>4, <2>5, <2>7 DEF TableInv, BuffersOwned
<1> QED BY <1>1, <1>2 DEF TableStep

\* A socket keeps its buffers while it is in use.
LEMMA KeepsBuffers ==
  ASSUME TableInv, NEW fd \in Fds, State(fd) # "UNUSED", UNCHANGED heapUsed,
         NEW s \in Sock, s.state # "UNUSED",
         s.rx = socket_table[fd].rx, s.tx = socket_table[fd].tx, Set(fd, s)
  PROVE  TableStep
<1>1. heapUsed \in Nat /\ heapUsed <= HeapBufs /\ HeapBufs \in Nat
  BY SocketAssumption DEF TableInv
<1>2. Fits(s, socket_table[fd], heapUsed')
  BY <1>1 DEF TableInv, BuffersOwned, State, Fits
<1> QED BY <1>2 DEF Set, TableStep

\* An unused slot is a socket without buffers.
LEMMA UnusedIsSocket == Unused \in Sock /\ Unused.rx = NULL /\ Unused.tx = NULL
<1>1. 0 \in PortNumbers /\ 0 \in 0 .. HeapBufs /\ OwnIp \in Addressable
  BY SocketAssumption DEF PortNumbers, Addressable
<1> QED BY <1>1 DEF Unused, Sock, States, NULL

\* free_socket, and closesocket
LEMMA FreesSocket ==
  ASSUME TableInv, NEW fd \in Fds, heapUsed' \in heapUsed .. HeapBufs, Set(fd, Unused)
  PROVE  TableStep
<1>1. heapUsed \in Nat /\ heapUsed' \in Nat
  BY DEF TableInv
<1>2. Fits(Unused, socket_table[fd], heapUsed')
  BY <1>1, UnusedIsSocket DEF Fits, NULL, Unused
<1> QED BY <1>2, UnusedIsSocket DEF Set, TableStep

\* alloc_socket with both its buffers
LEMMA NewSocket ==
  ASSUME TableInv, NEW fd \in Fds, heapUsed' = heapUsed + 2, heapUsed + 2 <= HeapBufs,
         NEW s \in Sock, s.state # "UNUSED", s.rx = heapUsed + 1, s.tx = heapUsed + 2, Set(fd, s)
  PROVE  TableStep
<1>1. heapUsed \in Nat /\ HeapBufs \in Nat
  BY SocketAssumption DEF TableInv
<1>2. Fits(s, socket_table[fd], heapUsed')
  BY <1>1 DEF Fits, NULL
<1> QED BY <1>2 DEF Set, TableStep

\* The frame nic_recv returns is one of the network's, or none.
LEMMA TcpFromHost ==
  ASSUME RingInv, NEW flags, Tcp(Received, flags)
  PROVE  Received.src \in Hosts /\ Received.sport \in PortNumbers
<1>1. Received # NoFrame
  BY DEF Tcp, NoFrame
<1>2. rxUsed # <<>> /\ Received = Head(rxUsed).frame
  BY <1>1 DEF Received
<1>3. Head(rxUsed) \in Filled
  BY <1>2, HeadTailProperties DEF RingInv
<1>4. Received \in Incoming /\ Received.kind = "tcp"
  BY <1>2, <1>3 DEF Filled, Tcp
<1> QED BY <1>4, SocketAssumption DEF PortNumbers

\* alloc_socket takes a slot of the table that is free.
LEMMA OpenSteps ==
  ASSUME TableInv, NEW fd \in Fds, NEW type \in {Stream, Datagram}, Open(type, fd)
  PROVE  TableStep
<1> DEFINE new == [Unused EXCEPT !.state = "CLOSED", !.type = type, !.rx = heapUsed + 1, !.tx = heapUsed + 2]
<1>1. heapUsed \in Nat /\ heapUsed <= HeapBufs /\ HeapBufs \in Nat
  BY SocketAssumption DEF TableInv
<1>2. CASE HeapBufs - heapUsed >= 2
  <2>1. heapUsed' = heapUsed + 2 /\ heapUsed + 2 <= HeapBufs
    BY <1>1, <1>2 DEF Open
  <2>2. Set(fd, new)
    <3>1. HeapBufs - heapUsed >= 1
      BY <1>1, <1>2
    <3> QED BY <1>2, <3>1 DEF Open, Set
  <2>3. /\ heapUsed + 1 \in 0 .. HeapBufs /\ heapUsed + 2 \in 0 .. HeapBufs
        /\ type \in {"none", Stream, Datagram} /\ "CLOSED" \in States
    BY <1>1, <2>1 DEF States
  <2>4. new \in Sock
    BY <2>3, UnusedIsSocket DEF Sock
  <2>5. new.state = "CLOSED" /\ new.rx = heapUsed + 1 /\ new.tx = heapUsed + 2
    BY UnusedIsSocket DEF Sock
  <2> QED BY <2>1, <2>2, <2>4, <2>5, NewSocket
<1>3. CASE ~(HeapBufs - heapUsed >= 2)
  <2>1. heapUsed' \in heapUsed .. HeapBufs
    BY <1>1, <1>3 DEF Open
  <2>2. Set(fd, Unused)
    BY <1>3 DEF Open, Set, OnNoMemory
  <2> QED BY <2>1, <2>2, FreesSocket
<1> QED BY <1>2, <1>3

\* Every call leaves the table a table, and the next ephemeral port a port.
LEMMA CallTableSteps ==
  ASSUME TableInv, SocketCalls
  PROVE  TableStep /\ next_port' \in PortNumbers
<1> USE DEF PortNumbers
<1>1. Ephemeral \in PortNumbers
  BY SocketAssumption DEF Ephemeral, TableInv
<1>2. next_port \in PortNumbers /\ \A fd \in Fds : socket_table[fd] \in Sock
  BY DEF TableInv
<1>3. ASSUME NEW type \in {Stream, Datagram}, Socket(type)
      PROVE  TableStep /\ next_port' \in PortNumbers
  <2>1. PICK fd \in FreeFds : Open(type, fd)
    BY <1>3 DEF Socket
  <2> QED BY <1>2, <1>3, <2>1, OpenSteps DEF Socket, FreeFds
<1>4. ASSUME NEW fd \in Fds, \E port \in Ports : Bind(fd, port)
      PROVE  TableStep /\ next_port' \in PortNumbers
  <2>1. PICK port \in Ports : Bind(fd, port)
    BY <1>4
  <2> DEFINE s == [socket_table[fd] EXCEPT !.state = "BOUND", !.lport = port]
  <2>2. port \in PortNumbers
    BY SocketAssumption
  <2>3. s \in Sock /\ s.state # "UNUSED" /\ s.rx = socket_table[fd].rx /\ s.tx = socket_table[fd].tx
    BY <1>2, <2>2 DEF Sock, States
  <2> QED BY <1>2, <2>1, <2>3, KeepsBuffers DEF Bind
<1>5. ASSUME NEW fd \in Fds, Listen(fd)
      PROVE  TableStep /\ next_port' \in PortNumbers
  <2> DEFINE s == [socket_table[fd] EXCEPT !.state = "LISTENING"]
  <2>1. s \in Sock /\ s.state # "UNUSED" /\ s.rx = socket_table[fd].rx /\ s.tx = socket_table[fd].tx
    BY <1>2 DEF Sock, States
  <2> QED BY <1>2, <1>5, <2>1, KeepsBuffers DEF Listen
<1>6. ASSUME NEW fd \in Fds, NEW p \in Peers, Connect(fd, p.ip, p.port)
      PROVE  TableStep /\ next_port' \in PortNumbers
  <2> DEFINE sport == IF socket_table[fd].lport # 0 THEN socket_table[fd].lport ELSE next_port
             to == [socket_table[fd] EXCEPT !.rip = p.ip, !.rport = p.port]
             stream == [to EXCEPT !.state = "SYN_SENT"]
             datagram == [to EXCEPT !.state = "ESTABLISHED", !.lport = sport]
  <2>1. p.ip \in Addressable /\ p.port \in PortNumbers /\ sport \in PortNumbers
    BY <1>2, SocketAssumption DEF Addressable, Sock
  <2>2. to \in Sock /\ to.rx = socket_table[fd].rx /\ to.tx = socket_table[fd].tx
    BY <1>2, <2>1 DEF Sock
  <2>3. /\ stream \in Sock /\ stream.state # "UNUSED"
        /\ stream.rx = socket_table[fd].rx /\ stream.tx = socket_table[fd].tx
    BY <2>2 DEF Sock, States
  <2>4. /\ datagram \in Sock /\ datagram.state # "UNUSED"
        /\ datagram.rx = socket_table[fd].rx /\ datagram.tx = socket_table[fd].tx
    BY <2>1, <2>2 DEF Sock, States
  <2>5. Set(fd, stream) \/ Set(fd, datagram)
    BY <1>6 DEF Connect
  <2>6. State(fd) # "UNUSED" /\ UNCHANGED heapUsed /\ next_port' \in {next_port, Ephemeral}
    BY <1>6 DEF Connect
  <2> QED BY <1>1, <1>2, <2>3, <2>4, <2>5, <2>6, KeepsBuffers
<1>7. ASSUME NEW fd \in Fds, NEW p \in Peers, Sendto(fd, p.ip)
      PROVE  TableStep /\ next_port' \in PortNumbers
  BY <1>1, <1>2, <1>7 DEF Sendto, TableStep
<1>8. ASSUME NEW fd \in Fds, Accept(fd) \/ Send(fd) \/ Recv(fd) \/ Recvfrom(fd)
      PROVE  TableStep /\ next_port' \in PortNumbers
  BY <1>2, <1>8 DEF Accept, Send, Recv, Recvfrom, sockVars, TableStep
<1> DEFINE waiting(fd) == [socket_table[fd] EXCEPT !.state = "CLOSE_WAIT"]
<1>9. \A fd \in Fds : /\ waiting(fd) \in Sock /\ waiting(fd).state # "UNUSED"
                      /\ waiting(fd).rx = socket_table[fd].rx /\ waiting(fd).tx = socket_table[fd].tx
  BY <1>2 DEF Sock, States
<1>10. ASSUME NEW fd \in Fds, NEW rd \in BOOLEAN, NEW wr \in BOOLEAN, Shutdown(fd, rd, wr)
       PROVE  TableStep /\ next_port' \in PortNumbers
  <2>1. UNCHANGED tableVars \/ Set(fd, waiting(fd))
    BY <1>10 DEF Shutdown, tableVars
  <2> QED BY <1>2, <1>9, <1>10, <2>1, KeepsBuffers DEF Shutdown, TableStep
<1>11. ASSUME NEW fd \in Fds, Closesocket(fd)
       PROVE  TableStep /\ next_port' \in PortNumbers
  <2>1. heapUsed' \in heapUsed .. HeapBufs
    BY <1>11, SocketAssumption DEF Closesocket, TableInv
  <2>2. Set(fd, Unused) \/ (State(fd) = "ESTABLISHED" /\ Set(fd, waiting(fd)))
    <3>1. CASE State(fd) = "ESTABLISHED" /\ socket_table[fd].type = Stream
      BY <1>11, <3>1 DEF Closesocket
    <3>2. CASE ~(State(fd) = "ESTABLISHED" /\ socket_table[fd].type = Stream)
      BY <1>11, <3>2 DEF Closesocket
    <3> QED BY <3>1, <3>2
  <2> QED BY <1>2, <1>9, <1>11, <2>1, <2>2, KeepsBuffers, FreesSocket DEF Closesocket
<1> QED BY <1>3, <1>4, <1>5, <1>6, <1>7, <1>8, <1>10, <1>11 DEF SocketCalls

\* Every step of the thread changes the table as the invariant expects.
LEMMA ThreadTableSteps ==
  ASSUME RingInv, TableInv, CallInv, SocketThread
  PROVE  TableStep /\ next_port' \in PortNumbers
<1> USE DEF PortNumbers
<1>1. next_port \in PortNumbers /\ \A fd \in Fds : socket_table[fd] \in Sock
  BY DEF TableInv
<1>2. ASSUME PollAccept
      PROVE  TableStep /\ next_port' \in PortNumbers
  <2>1. CASE UNCHANGED tableVars
    BY <1>1, <1>2, <2>1 DEF PollAccept, TableStep
  <2>2. CASE ~UNCHANGED tableVars
    <3> DEFINE s     == socket_table[thread.fd]
               child == LeastOf(FreeFds)
               new   == [state |-> "ESTABLISHED", type |-> s.type, lport |-> s.lport,
                         rip |-> Received.src, rport |-> Received.sport,
                         rx |-> heapUsed + 1, tx |-> heapUsed + 2]
    <3>1. Tcp(Received, "syn") /\ FreeFds # {}
      BY <1>2, <2>2 DEF PollAccept
    <3>2. thread.fd \in Fds /\ s \in Sock
      BY <1>1, <1>2 DEF PollAccept, CallInv
    <3>3. child \in Fds
      BY <3>1, FirstSlot, SocketAssumption DEF FreeFds
    <3>4. heapUsed \in Nat /\ HeapBufs \in Nat
      BY SocketAssumption DEF TableInv
    <3>5. CASE HeapBufs - heapUsed < 2
      <4>1. ~(HeapBufs - heapUsed >= 2)
        BY <3>4, <3>5
      <4>2. Open(s.type, child)
        BY <1>2, <3>1, <3>5, <2>2 DEF PollAccept
      <4>3. Set(child, Unused) /\ heapUsed' \in heapUsed .. HeapBufs
        BY <3>4, <3>5, <4>1, <4>2 DEF Open, Set, OnNoMemory, TableInv
      <4> QED BY <1>1, <1>2, <3>3, <4>3, FreesSocket DEF PollAccept
    <3>6. CASE ~(HeapBufs - heapUsed < 2)
      <4>1. heapUsed' = heapUsed + 2 /\ heapUsed + 2 <= HeapBufs /\ Set(child, new)
        BY <1>2, <2>2, <3>1, <3>4, <3>6 DEF PollAccept
      <4>2. Received.src \in Addressable /\ Received.sport \in PortNumbers
        BY <3>1, TcpFromHost DEF Addressable
      <4>3. heapUsed + 1 \in 0 .. HeapBufs /\ heapUsed + 2 \in 0 .. HeapBufs
        BY <3>4, <4>1
      <4>4. new \in Sock
        BY <3>2, <4>2, <4>3 DEF Sock, States
      <4> HIDE DEF s, child
      <4>5. new.state # "UNUSED" /\ new.rx = heapUsed + 1 /\ new.tx = heapUsed + 2
        OBVIOUS
      <4> HIDE DEF new
      <4> QED BY <1>1, <1>2, <3>3, <4>1, <4>4, <4>5, NewSocket DEF PollAccept
    <3> QED BY <3>5, <3>6
  <2> QED BY <2>1, <2>2
<1>3. ASSUME PollConnect
      PROVE  TableStep /\ next_port' \in PortNumbers
  <2> DEFINE s == GiveUp(socket_table[thread.fd])
  <2>1. thread.fd \in Fds /\ State(thread.fd) # "UNUSED" /\ UNCHANGED <<heapUsed, next_port>>
    BY <1>3 DEF PollConnect, CallInv
  <2>2. UNCHANGED socket_table \/ Set(thread.fd, s)
    BY <1>3 DEF PollConnect
  <2>3. /\ s \in Sock /\ s.state # "UNUSED"
        /\ s.rx = socket_table[thread.fd].rx /\ s.tx = socket_table[thread.fd].tx
    BY <1>1, <2>1 DEF GiveUp, Sock, States
  <2> QED BY <1>1, <2>1, <2>2, <2>3, KeepsBuffers DEF TableStep, tableVars
<1>4. ASSUME PollRecv
      PROVE  TableStep /\ next_port' \in PortNumbers
  BY <1>1, <1>4 DEF PollRecv, sockVars, TableStep
<1>5. ASSUME Finish
      PROVE  TableStep /\ next_port' \in PortNumbers
  <2>1. UNCHANGED <<heapUsed, next_port>> /\ thread \in Busy
    BY <1>5 DEF Finish, CallInv, Idle
  <2>2. CASE thread.op = "connect"
    <3> DEFINE s == [socket_table[thread.fd] EXCEPT !.lport = thread.port, !.state = "ESTABLISHED"]
    <3>1. thread.fd \in Fds /\ State(thread.fd) # "UNUSED" /\ thread.port \in PortNumbers
      BY <2>1, <2>2 DEF CallInv, Busy
    <3>2. Set(thread.fd, s)
      BY <1>5, <2>2 DEF Finish, Set
    <3>3. /\ s \in Sock /\ s.state # "UNUSED"
          /\ s.rx = socket_table[thread.fd].rx /\ s.tx = socket_table[thread.fd].tx
      <4>1. socket_table[thread.fd] \in Sock /\ "ESTABLISHED" \in States
        BY <1>1, <3>1 DEF States
      <4> QED BY <3>1, <4>1 DEF Sock
    <3> QED BY <1>1, <2>1, <3>1, <3>2, <3>3, KeepsBuffers
  <2>3. CASE thread.op = "close"
    <3>1. Set(thread.fd, Unused)
      BY <1>5, <2>3 DEF Finish, Set
    <3>2. CASE thread.fd \in Fds
      <4>1. heapUsed' \in heapUsed .. HeapBufs
        BY <2>1, SocketAssumption DEF TableInv
      <4> QED BY <1>1, <2>1, <3>1, <3>2, <4>1, FreesSocket
    <3>3. CASE thread.fd \notin Fds
      BY <1>1, <2>1, <3>1, <3>3 DEF Set, TableInv, TableStep, tableVars
    <3> QED BY <3>2, <3>3
  <2>4. CASE thread.op \notin {"connect", "close"}
    BY <1>1, <1>5, <2>1, <2>4 DEF Finish, TableStep, tableVars
  <2> QED BY <2>2, <2>3, <2>4
<1> QED BY <1>2, <1>3, <1>4, <1>5 DEF SocketThread

(***************************************************************************)
(* The call in progress                                                    *)
(***************************************************************************)
\* No connect is in progress after the step, and no socket waits for one.
LEMMA NoneWaits ==
  ASSUME thread' \in {Idle} \cup Busy, thread'.op # "connect",
         thread'.op = "accept" => thread'.fd \in Fds,
         \A fd \in Fds : socket_table'[fd].state # "SYN_SENT"
  PROVE  CallInv'
  BY DEF CallInv, SynSentHasCaller, State

\* The call goes on; the table is as it was.
LEMMA SameCall ==
  ASSUME CallInv, thread' \in Busy, thread'.op = thread.op, thread'.fd = thread.fd,
         UNCHANGED socket_table
  PROVE  CallInv'
  BY DEF CallInv, SynSentHasCaller, State

\* Nobody is in SYN_SENT while no connect is under way.
LEMMA NobodyWaited ==
  ASSUME CallInv, thread.op # "connect"
  PROVE  \A fd \in Fds : socket_table[fd].state # "SYN_SENT"
  BY DEF CallInv, SynSentHasCaller, State

\* The idle thread is in no call.
LEMMA IdleNotBusy == Idle \notin Busy /\ Idle.op = "none" /\ Idle.stage = "idle"
<1>1. Idle.op = "none" /\ Idle.stage = "idle"
  BY DEF Idle
<1>2. ASSUME Idle \in Busy PROVE FALSE
  <2>1. DOMAIN Idle = {"op", "stage"} /\ "fd" \in DOMAIN Idle
    BY <1>2 DEF Idle, Busy
  <2> QED BY <2>1
<1> QED BY <1>1, <1>2

\* A call that sends a packet, and one that polls the card.
LEMMA SendingIsBusy ==
  ASSUME NEW op \in Ops, NEW fd \in Nat, NEW dst \in Addressable, NEW what \in Contents,
         NEW after \in Stages
  PROVE  LET call == Sending(op, fd, dst, what, after)
         IN  call \in Busy /\ call.op = op /\ call.fd = fd
<1>1. 0 \in PortNumbers
  BY SocketAssumption DEF PortNumbers
<1> QED BY <1>1 DEF Sending, Busy, Stages

\* A thread that polls is in the call it polls for.
LEMMA PollingIsBusy ==
  ASSUME NEW op \in Ops, NEW fd \in Nat, NEW port \in PortNumbers
  PROVE  LET call == Polling(op, fd, port)
         IN  call \in Busy /\ call.op = op /\ call.fd = fd
<1>1. [dst |-> OwnIp, what |-> "none"] \in [dst : Addressable, what : Contents]
  BY DEF Addressable, Contents
<1>2. Polls \in Int /\ "poll" \in Stages /\ "finish" \in Stages
  BY SocketAssumption DEF Stages
<1> QED BY <1>1, <1>2 DEF Polling, Busy

\* A round of a loop: the call goes on or returns.
LEMMA PollAgainSteps ==
  ASSUME thread \in Busy, PollAgain
  PROVE  \/ thread' = Idle /\ thread.left = 1
         \/ thread' \in Busy /\ thread'.op = thread.op /\ thread'.fd = thread.fd /\ thread.left # 1
  BY DEF PollAgain, Busy

\* The network and the steps of ip_send
LEMMA NetCallKeeps ==
  ASSUME TableInv, CallInv, NetEnvironment \/ NetThread \/ NetCalls, UNCHANGED sockVars
  PROVE  CallInv'
<1>1. UNCHANGED socket_table
  BY DEF sockVars, tableVars
<1>2. ASSUME UNCHANGED thread PROVE CallInv'
  BY <1>1, <1>2 DEF CallInv, SynSentHasCaller, State
<1>3. ASSUME NetEnvironment PROVE CallInv'
  BY <1>2, <1>3 DEF NetEnvironment, Arrive, NetShutdown, NetInit, ArpHandlePacket
<1>4. ASSUME IpSend \/ ArpResolve PROVE CallInv'
  <2>1. thread \in Busy
    BY <1>4, IdleNotBusy DEF IpSend, ArpResolve, CallInv
  <2>2. thread' \in Busy /\ thread'.op = thread.op /\ thread'.fd = thread.fd
    <3>1. CASE IpSend
      <4>1. \/ thread' = [thread EXCEPT !.stage = thread.after]
            \/ thread' = [thread EXCEPT !.stage = "resolve", !.tries = ArpRetries]
        BY <3>1 DEF IpSend
      <4>2. thread.after \in Stages /\ "resolve" \in Stages /\ ArpRetries \in Int
        BY <2>1, NetAssumption DEF Busy, Stages
      <4> QED BY <2>1, <4>1, <4>2 DEF Busy
    <3>2. CASE ArpResolve
      <4>1. thread.after \in Stages /\ "resolve" \in Stages /\ thread.tries \in Int
        BY <2>1 DEF Busy, Stages
      <4> DEFINE t == thread.tries - 1
      <4>2. t \in Int
        BY <4>1
      <4>3. \/ thread' = [thread EXCEPT !.stage = thread.after, !.tries = 0]
            \/ thread' = [thread EXCEPT !.tries = t, !.stage = thread.after]
            \/ thread' = [thread EXCEPT !.tries = t, !.stage = "resolve"]
        BY <3>2 DEF ArpResolve
      <4> HIDE DEF t
      <4>4. ASSUME NEW u \in Int, NEW next \in Stages,
                   \/ thread' = [thread EXCEPT !.tries = u, !.stage = next]
                   \/ thread' = [thread EXCEPT !.stage = next, !.tries = u]
            PROVE  thread' \in Busy /\ thread'.op = thread.op /\ thread'.fd = thread.fd
        BY <2>1, <4>4 DEF Busy
      <4>5. CASE thread' = [thread EXCEPT !.stage = thread.after, !.tries = 0]
        <5>1. 0 \in Int
          OBVIOUS
        <5> QED BY <4>1, <4>4, <4>5, <5>1
      <4>6. CASE thread' = [thread EXCEPT !.tries = t, !.stage = thread.after]
        BY <4>1, <4>2, <4>4, <4>6
      <4>7. CASE thread' = [thread EXCEPT !.tries = t, !.stage = "resolve"]
        BY <4>1, <4>2, <4>4, <4>7
      <4> QED BY <4>3, <4>5, <4>6, <4>7
    <3> QED BY <1>4, <3>1, <3>2
  <2> QED BY <1>1, <2>1, <2>2, SameCall
<1>5. ASSUME IcmpDone PROVE CallInv'
  BY <1>1, <1>5, NobodyWaited, NoneWaits, IdleNotBusy DEF IcmpDone
<1>6. ASSUME NetCalls PROVE CallInv'
  <2>1. PICK h \in Hosts : IcmpSendEcho(h) \/ IcmpHandlePacket(h)
    BY <1>6 DEF NetCalls
  <2>2. \E what \in {"echo", "echoreply"} :
           thread = Idle /\ thread' = Sending("icmp", 0, h, what, "finish")
    BY <2>1 DEF IcmpSendEcho, IcmpHandlePacket
  <2>3. /\ h \in Addressable /\ "icmp" \in Ops /\ {"echo", "echoreply"} \subseteq Contents
        /\ "finish" \in Stages
    BY DEF Addressable, Ops, Contents, Stages
  <2>4. thread = Idle /\ thread' \in Busy /\ thread'.op = "icmp"
    BY <2>2, <2>3, SendingIsBusy
  <2> QED BY <1>1, <2>4, NobodyWaited, NoneWaits, IdleNotBusy
<1> QED BY <1>3, <1>4, <1>5, <1>6 DEF NetThread

\* The calls: none is made while another is in progress.
LEMMA CallKeeps ==
  ASSUME TableInv, CallInv, SocketCalls
  PROVE  CallInv'
<1>1. /\ \A fd \in Fds : socket_table[fd] \in Sock
      /\ Fds \subseteq Nat /\ \A p \in Peers : p.ip \in Addressable
  BY SocketAssumption DEF TableInv, Addressable
<1>2. thread = Idle
  BY DEF SocketCalls, Socket, Bind, Listen, Accept, Connect, Send, Sendto, Recv, Recvfrom,
         Shutdown, Closesocket
<1>3. \A fd \in Fds : socket_table[fd].state # "SYN_SENT"
  BY <1>2, NobodyWaited, IdleNotBusy
<1> USE DEF Ops, Stages, Contents
<1>4. ASSUME NEW type \in {Stream, Datagram}, Socket(type) PROVE CallInv'
  <2>1. PICK fd \in FreeFds : Open(type, fd)
    BY <1>4 DEF Socket
  <2>2. fd \in Fds /\ UNCHANGED thread
    BY <1>4 DEF Socket, FreeFds, netVars
  <2>3. PICK s : Set(fd, s) /\ s \in {Unused, [Unused EXCEPT !.state = "CLOSED", !.type = type,
                                        !.rx = heapUsed + 1, !.tx = heapUsed + 2]}
    <3>1. heapUsed \in Nat /\ HeapBufs \in Nat
      BY SocketAssumption DEF TableInv
    <3>2. HeapBufs - heapUsed >= 2 => HeapBufs - heapUsed >= 1
      BY <3>1
    <3> QED BY <2>1, <3>2 DEF Open, Set, OnNoMemory
  <2>4. s.state # "SYN_SENT"
    <3>1. Unused.state = "UNUSED" /\ "state" \in DOMAIN Unused /\ Unused \in Sock
      BY UnusedIsSocket DEF Unused
    <3>2. CASE s = Unused
      BY <3>1, <3>2
    <3>3. CASE s = [Unused EXCEPT !.state = "CLOSED", !.type = type,
                                  !.rx = heapUsed + 1, !.tx = heapUsed + 2]
      BY <3>1, <3>3 DEF Sock
    <3> QED BY <2>3, <3>2, <3>3
  <2> QED BY <1>2, <1>3, <2>2, <2>3, <2>4, NoneWaits, IdleNotBusy DEF Set, TableInv
<1>5. ASSUME NEW fd \in Fds, NEW s, s.state # "SYN_SENT", Set(fd, s) \/ UNCHANGED socket_table
      PROVE  \A g \in Fds : socket_table'[g].state # "SYN_SENT"
  BY <1>3, <1>5 DEF Set, TableInv
<1>6. ASSUME NEW fd \in Fds, \E port \in Ports : Bind(fd, port) PROVE CallInv'
  <2>1. PICK port \in Ports : Bind(fd, port)
    BY <1>6
  <2> DEFINE s == [socket_table[fd] EXCEPT !.state = "BOUND", !.lport = port]
  <2>2. s.state # "SYN_SENT"
    BY <1>1 DEF Sock
  <2>3. Set(fd, s) /\ UNCHANGED thread
    BY <2>1 DEF Bind, netVars
  <2> HIDE DEF s
  <2> QED BY <1>2, <1>5, <2>2, <2>3, NoneWaits, IdleNotBusy
<1>7. ASSUME NEW fd \in Fds, Listen(fd) PROVE CallInv'
  <2> DEFINE s == [socket_table[fd] EXCEPT !.state = "LISTENING"]
  <2>1. s.state # "SYN_SENT"
    BY <1>1 DEF Sock
  <2>2. Set(fd, s) /\ UNCHANGED thread
    BY <1>7 DEF Listen, netVars
  <2> HIDE DEF s
  <2> QED BY <1>2, <1>5, <2>1, <2>2, NoneWaits, IdleNotBusy
<1>8. ASSUME NEW fd \in Fds, NEW p \in Peers, Connect(fd, p.ip, p.port) PROVE CallInv'
  <2> DEFINE old == socket_table[fd]
             sport == IF old.lport # 0 THEN old.lport ELSE next_port
             to == [old EXCEPT !.rip = p.ip, !.rport = p.port]
             call == Sending("connect", fd, p.ip, "syn", "poll")
             stream == [to EXCEPT !.state = "SYN_SENT"]
             datagram == [to EXCEPT !.state = "ESTABLISHED", !.lport = sport]
  <2>1. old \in Sock /\ sport \in PortNumbers /\ p.port \in PortNumbers /\ Polls \in Int
    BY <1>1, SocketAssumption DEF Sock, TableInv, PortNumbers
  <2>2. fd \in Nat /\ p.ip \in Addressable
    BY <1>1
  <2>3. to \in Sock
    BY <2>1, <2>2 DEF Sock
  <2>4. call \in Busy /\ call.op = "connect" /\ call.fd = fd
    <3>1. "connect" \in Ops /\ "syn" \in Contents /\ "poll" \in Stages
      OBVIOUS
    <3> HIDE DEF Ops, Contents, Stages
    <3> QED BY <2>2, <3>1, SendingIsBusy
  <2>5. datagram.state # "SYN_SENT" /\ stream.state = "SYN_SENT"
    BY <2>1, <2>3 DEF Sock
  <2>6. CASE old.type = Stream
    <3>1. thread' = [call EXCEPT !.left = Polls, !.port = sport] /\ Set(fd, stream)
      BY <1>8, <2>6 DEF Connect
    <3> HIDE DEF call, sport, stream
    <3>2. thread' \in Busy /\ thread'.op = "connect" /\ thread'.fd = fd
      BY <2>1, <2>4, <3>1 DEF Busy
    <3>3. /\ socket_table'[fd].state = "SYN_SENT"
          /\ \A g \in Fds : g # fd => socket_table'[g].state # "SYN_SENT"
      BY <1>3, <2>5, <3>1 DEF Set, TableInv
    <3> QED BY <3>2, <3>3 DEF CallInv, SynSentHasCaller, State
  <2>7. CASE old.type # Stream
    <3>1. UNCHANGED thread /\ Set(fd, datagram)
      BY <1>8, <2>7 DEF Connect
    <3> HIDE DEF datagram
    <3> QED BY <1>2, <1>5, <2>5, <3>1, NoneWaits, IdleNotBusy
  <2> QED BY <2>6, <2>7
<1>9. ASSUME UNCHANGED socket_table, thread' \in Busy, thread'.op # "connect",
             thread'.op = "accept" => thread'.fd \in Fds
      PROVE  CallInv'
  BY <1>3, <1>9, NoneWaits
<1>10. ASSUME NEW fd \in Fds, NEW p \in Peers, Sendto(fd, p.ip) PROVE CallInv'
  <2>1. thread' = Sending("sendto", fd, p.ip, "datagram", "finish") /\ UNCHANGED socket_table
    BY <1>10 DEF Sendto, tableVars
  <2>2. /\ fd \in Nat /\ "sendto" \in Ops /\ "datagram" \in Contents /\ "finish" \in Stages
        /\ p.ip \in Addressable
    BY <1>1
  <2> HIDE DEF Ops, Contents, Stages
  <2>3. thread' \in Busy /\ thread'.op = "sendto"
    BY <2>1, <2>2, SendingIsBusy
  <2> QED BY <1>9, <2>1, <2>3
<1>11. ASSUME NEW fd \in Fds, Send(fd) PROVE CallInv'
  <2>1. /\ thread' = Sending("send", fd, socket_table[fd].rip, "data", "finish")
        /\ UNCHANGED socket_table
    BY <1>11 DEF Send, sockVars, tableVars
  <2>2. socket_table[fd].rip \in Addressable
    BY <1>1 DEF Sock
  <2>3. fd \in Nat /\ "send" \in Ops /\ "data" \in Contents /\ "finish" \in Stages
    BY <1>1
  <2> HIDE DEF Ops, Contents, Stages
  <2>4. thread' \in Busy /\ thread'.op = "send"
    BY <2>1, <2>2, <2>3, SendingIsBusy
  <2> QED BY <1>9, <2>1, <2>4
<1>12. ASSUME NEW fd \in Fds, Accept(fd) \/ Recv(fd) \/ Recvfrom(fd) PROVE CallInv'
  <2>1. /\ \E op \in {"accept", "recv", "recvfrom"} : thread' = Polling(op, fd, 0)
        /\ UNCHANGED socket_table
    BY <1>12 DEF Accept, Recv, Recvfrom, sockVars, tableVars
  <2>2. 0 \in PortNumbers
    BY SocketAssumption DEF PortNumbers
  <2> QED BY <1>1, <1>9, <2>1, <2>2, PollingIsBusy
<1> DEFINE waiting(fd) == [socket_table[fd] EXCEPT !.state = "CLOSE_WAIT"]
<1>13. \A fd \in Fds : waiting(fd).state # "SYN_SENT" /\ socket_table[fd].rip \in Addressable
  BY <1>1 DEF Sock
<1>14. ASSUME NEW fd \in Fds, NEW rd \in BOOLEAN, NEW wr \in BOOLEAN, Shutdown(fd, rd, wr)
       PROVE  CallInv'
  <2>1. UNCHANGED socket_table \/ Set(fd, waiting(fd))
    BY <1>14 DEF Shutdown
  <2>2. thread' = Idle \/ thread' = Sending("shutdown", fd, socket_table[fd].rip, "fin", "finish")
    BY <1>14 DEF Shutdown
  <2>3. thread' \in {Idle} \cup Busy /\ thread'.op \notin {"connect", "accept"}
    <3> DEFINE call == Sending("shutdown", fd, socket_table[fd].rip, "fin", "finish")
    <3>1. call \in Busy /\ call.op = "shutdown"
      BY <1>1, <1>13, SendingIsBusy
    <3>2. thread' = Idle \/ thread' = call
      BY <2>2
    <3> HIDE DEF call
    <3>3. CASE thread' = Idle
      BY <3>3, IdleNotBusy
    <3>4. CASE thread' = call
      BY <3>1, <3>4
    <3> QED BY <3>2, <3>3, <3>4
  <2> QED BY <1>3, <1>5, <1>13, <2>1, <2>3, NoneWaits
<1>15. ASSUME NEW fd \in Fds, Closesocket(fd) PROVE CallInv'
  <2>1. CASE State(fd) = "ESTABLISHED" /\ socket_table[fd].type = Stream
    <3>1. /\ Set(fd, waiting(fd))
          /\ thread' = Sending("close", fd, socket_table[fd].rip, "fin", "finish")
      BY <1>15, <2>1 DEF Closesocket
    <3>2. thread' \in Busy /\ thread'.op = "close"
      BY <1>1, <1>13, <3>1, SendingIsBusy
    <3> QED BY <1>5, <1>13, <3>1, <3>2, NoneWaits
  <2>2. CASE ~(State(fd) = "ESTABLISHED" /\ socket_table[fd].type = Stream)
    <3>1. Set(fd, Unused) /\ UNCHANGED thread /\ Unused.state # "SYN_SENT"
      BY <1>15, <2>2 DEF Closesocket, Unused
    <3> QED BY <1>2, <1>5, <3>1, NoneWaits, IdleNotBusy
  <2> QED BY <2>1, <2>2
<1> QED BY <1>4, <1>6, <1>7, <1>8, <1>10, <1>11, <1>12, <1>14, <1>15 DEF SocketCalls

\* The steps of a call that polls, and its return.
LEMMA ThreadKeeps ==
  ASSUME RingInv, TableInv, CallInv, SocketThread
  PROVE  CallInv'
<1>1. \A fd \in Fds : socket_table[fd] \in Sock
  BY DEF TableInv
<1>2. /\ thread \in Busy /\ Fds \subseteq Nat
      /\ thread.op = "connect" => thread.fd \in Fds
  BY IdleNotBusy, SocketAssumption DEF SocketThread, PollAccept, PollConnect, PollRecv, Finish, CallInv
<1>3. ASSUME UNCHANGED socket_table, thread.op # "connect", thread' = Idle \/ PollAgain
      PROVE  CallInv'
  <2>1. CASE thread' = Idle
    BY <1>3, <2>1, NobodyWaited, NoneWaits, IdleNotBusy
  <2>2. CASE PollAgain
    BY <1>2, <1>3, <2>1, <2>2, PollAgainSteps, SameCall
  <2> QED BY <1>3, <2>1, <2>2
<1>4. ASSUME NEW g \in Fds, NEW s, s.state # "SYN_SENT", Set(g, s),
             thread.op = "connect" => g = thread.fd
      PROVE  \A fd \in Fds : socket_table'[fd].state # "SYN_SENT"
  BY <1>4 DEF Set, TableInv, CallInv, SynSentHasCaller, State
<1>5. ASSUME PollAccept PROVE CallInv'
  <2> DEFINE s     == socket_table[thread.fd]
             child == LeastOf(FreeFds)
             new   == [state |-> "ESTABLISHED", type |-> s.type, lport |-> s.lport,
                       rip |-> Received.src, rport |-> Received.sport,
                       rx |-> heapUsed + 1, tx |-> heapUsed + 2]
             call  == Sending("accept", child, Received.src, "synack", "finish")
  <2>1. thread.op = "accept"
    BY <1>5 DEF PollAccept
  <2>2. CASE ~Tcp(Received, "syn") \/ FreeFds = {}
    BY <1>3, <1>5, <2>1, <2>2 DEF PollAccept, tableVars, Return
  <2>3. CASE Tcp(Received, "syn") /\ FreeFds # {}
    <3>1. child \in Fds
      BY <2>3, FirstSlot, SocketAssumption DEF FreeFds
    <3>2. CASE HeapBufs - heapUsed < 2
      <4>1. heapUsed \in Nat /\ HeapBufs \in Nat
        BY SocketAssumption DEF TableInv
      <4>2. ~(HeapBufs - heapUsed >= 2)
        BY <3>2, <4>1
      <4>3. Open(s.type, child) /\ thread' = Idle
        BY <1>5, <2>3, <3>2 DEF PollAccept, Return
      <4>4. Set(child, Unused) /\ Unused.state # "SYN_SENT"
        BY <4>2, <4>3 DEF Open, Set, OnNoMemory, Unused
      <4> QED BY <1>4, <2>1, <3>1, <4>3, <4>4, NoneWaits, IdleNotBusy
    <3>3. CASE ~(HeapBufs - heapUsed < 2)
      <4>1. Set(child, new) /\ thread' = call
        BY <1>5, <2>3, <3>3 DEF PollAccept
      <4>2. call \in Busy /\ call.op = "accept" /\ call.fd = child
        <5>1. Received.src \in Addressable /\ child \in Nat
          BY <1>2, <2>3, <3>1, TcpFromHost DEF Addressable
        <5>2. "accept" \in Ops /\ "synack" \in Contents /\ "finish" \in Stages
          BY DEF Ops, Contents, Stages
        <5> HIDE DEF child
        <5> QED BY <5>1, <5>2, SendingIsBusy
      <4>3. new.state # "SYN_SENT"
        OBVIOUS
      <4> HIDE DEF new, call, child
      <4> QED BY <1>4, <2>1, <3>1, <4>1, <4>2, <4>3, NoneWaits
    <3> QED BY <3>2, <3>3
  <2> QED BY <2>2, <2>3
<1>6. ASSUME PollConnect PROVE CallInv'
  <2> DEFINE s    == socket_table[thread.fd]
             call == Sending("connect", thread.fd, s.rip, "ack", "finish")
  <2>1. thread.op = "connect" /\ thread.fd \in Fds /\ s \in Sock
    BY <1>1, <1>2, <1>6 DEF PollConnect
  <2>2. CASE Tcp(Received, "synack") /\ Received.src = s.rip
    <3>1. thread' = [call EXCEPT !.port = thread.port] /\ UNCHANGED socket_table
      BY <1>6, <2>2 DEF PollConnect
    <3>2. thread.fd \in Nat /\ s.rip \in Addressable /\ thread.port \in PortNumbers
      BY <1>2, <2>1 DEF Sock, Busy
    <3>3. call \in Busy /\ call.op = "connect" /\ call.fd = thread.fd
      <4>1. "connect" \in Ops /\ "ack" \in Contents /\ "finish" \in Stages
        BY DEF Ops, Contents, Stages
      <4> QED BY <3>2, <4>1, SendingIsBusy
    <3> HIDE DEF call
    <3>4. thread' \in Busy /\ thread'.op = "connect" /\ thread'.fd = thread.fd
      BY <3>1, <3>2, <3>3 DEF Busy
    <3> QED BY <2>1, <3>1, <3>4, SameCall
  <2>3. CASE ~(Tcp(Received, "synack") /\ Received.src = s.rip)
    <3>1. /\ PollAgain
          /\ IF thread.left = 1 THEN Set(thread.fd, GiveUp(s)) ELSE UNCHANGED socket_table
      BY <1>6, <2>3 DEF PollConnect
    <3>2. CASE thread.left = 1
      <4>1. GiveUp(s).state # "SYN_SENT"
        BY <2>1 DEF GiveUp, Sock
      <4>2. thread' = Idle
        BY <3>1, <3>2 DEF PollAgain
      <4> HIDE DEF s
      <4> QED BY <1>4, <2>1, <3>1, <3>2, <4>1, <4>2, NoneWaits, IdleNotBusy
    <3>3. CASE thread.left # 1
      BY <1>2, <3>1, <3>3, PollAgainSteps, SameCall
    <3> QED BY <3>2, <3>3
  <2> QED BY <2>2, <2>3
<1>7. ASSUME PollRecv PROVE CallInv'
  <2>1. /\ thread.op # "connect" /\ UNCHANGED socket_table
        /\ thread' = Idle \/ PollAgain
    BY <1>7 DEF PollRecv, RecvRound, Return, sockVars, tableVars
  <2> QED BY <1>3, <2>1
<1>8. ASSUME Finish PROVE CallInv'
  <2>1. thread' = Idle
    BY <1>8 DEF Finish, Return
  <2>2. CASE thread.op = "connect"
    <3> DEFINE s == [socket_table[thread.fd] EXCEPT !.lport = thread.port, !.state = "ESTABLISHED"]
    <3>1. Set(thread.fd, s)
      BY <1>8, <2>2 DEF Finish, Set
    <3>2. s.state # "SYN_SENT"
      BY <1>1, <1>2, <2>2 DEF Sock
    <3> HIDE DEF s
    <3> QED BY <1>2, <1>4, <2>1, <2>2, <3>1, <3>2, NoneWaits, IdleNotBusy
  <2>3. CASE thread.op = "close"
    <3>1. socket_table' = [socket_table EXCEPT ![thread.fd] = Unused] /\ Unused.state # "SYN_SENT"
      BY <1>8, <2>3 DEF Finish, Unused
    <3>2. \A fd \in Fds : socket_table'[fd].state # "SYN_SENT"
      BY <2>3, <3>1, NobodyWaited DEF TableInv
    <3> QED BY <2>1, <3>2, NoneWaits, IdleNotBusy
  <2>4. CASE thread.op \notin {"connect", "close"}
    BY <1>3, <1>8, <2>1, <2>4 DEF Finish
  <2> QED BY <2>2, <2>3, <2>4
<1> QED BY <1>5, <1>6, <1>7, <1>8 DEF SocketThread

(***************************************************************************)
(* The other interface, and the three together                             *)
(***************************************************************************)
SysSock == [state : States, type : {"none", Stream, Datagram}, rx : 0 .. HeapBufs, tx : 0 .. HeapBufs]

SysInv ==
    /\ sockets \in [SysFds -> SysSock]
    /\ \A fd \in SysFds : sockets[fd].rx <= heapUsed /\ sockets[fd].tx <= heapUsed
    /\ SysBuffersOwned

\* Socket s may take the place of old when kmalloc has given out h buffers.
SysFits(s, old, h) ==
    /\ h \in heapUsed .. HeapBufs /\ s.rx <= h /\ s.tx <= h
    /\ s.state = "UNUSED" => s.rx = NULL /\ s.tx = NULL
    /\ s.rx = s.tx => s.rx = NULL
    /\ \A b \in {s.rx, s.tx} : b = NULL \/ b > heapUsed \/ b \in {old.rx, old.tx}

\* What a step does to the table of network.c.
SysStep ==
    \/ UNCHANGED <<sockets, heapUsed>>
    \/ \E fd \in SysFds, s \in SysSock : SysSet(fd, s) /\ SysFits(s, sockets[fd], heapUsed')
    \/ sockets' = [fd \in SysFds |-> SysUnused] /\ UNCHANGED heapUsed

\* An unused slot of the system sockets is a socket without buffers.
LEMMA SysUnusedIsSocket == SysUnused \in SysSock /\ SysUnused.rx = NULL /\ SysUnused.tx = NULL
<1>1. 0 \in 0 .. HeapBufs
  BY SocketAssumption
<1> QED BY <1>1 DEF SysUnused, SysSock, States, NULL

\* The tables of both interfaces hold numbers of buffers that were given out.
LEMMA BuffersGiven ==
  ASSUME TableInv, SysInv
  PROVE  /\ HeapBufs \in Nat /\ heapUsed \in 0 .. HeapBufs
         /\ \A g \in Fds : socket_table[g].rx \in 0 .. heapUsed /\ socket_table[g].tx \in 0 .. heapUsed
         /\ \A f \in SysFds : sockets[f].rx \in 0 .. heapUsed /\ sockets[f].tx \in 0 .. heapUsed
<1>1. HeapBufs \in Nat /\ heapUsed \in 0 .. HeapBufs
  BY SocketAssumption DEF TableInv
<1>2. \A g \in Fds : socket_table[g].rx \in 0 .. HeapBufs /\ socket_table[g].tx \in 0 .. HeapBufs
  BY DEF TableInv, Sock
<1>3. \A f \in SysFds : sockets[f].rx \in 0 .. HeapBufs /\ sockets[f].tx \in 0 .. HeapBufs
  BY DEF SysInv, SysSock
<1> QED BY <1>1, <1>2, <1>3 DEF TableInv, SysInv

\* A new socket of network_sock.c has no buffer of a system socket.
LEMMA TableSysKeeps ==
  ASSUME TableInv, SysInv, TableStep, UNCHANGED sockets
  PROVE  SysInv'
<1>1. CASE UNCHANGED tableVars
  BY <1>1 DEF tableVars, SysInv, SysBuffersOwned
<1>2. ASSUME NEW fd \in Fds, NEW s \in Sock, Fits(s, socket_table[fd], heapUsed'),
             socket_table' = [socket_table EXCEPT ![fd] = s]
      PROVE  SysInv'
  <2>1. socket_table'[fd] = s /\ \A g \in Fds : g # fd => socket_table'[g] = socket_table[g]
    BY <1>2 DEF TableInv
  <2>2. heapUsed' \in Nat /\ heapUsed <= heapUsed' /\ heapUsed \in Nat
    BY <1>2, BuffersGiven DEF Fits
  <2>3. \A f \in SysFds : sockets'[f].rx <= heapUsed' /\ sockets'[f].tx <= heapUsed'
    BY <2>2, BuffersGiven
  <2>4. ASSUME NEW f \in SysFds, NEW b \in {sockets[f].rx, sockets[f].tx} \cap {s.rx, s.tx}
        PROVE  b = NULL
    <3>1. b \in 0 .. heapUsed
      BY BuffersGiven
    <3>2. b = NULL \/ b > heapUsed \/ b \in {socket_table[fd].rx, socket_table[fd].tx}
      BY <1>2 DEF Fits
    <3>3. {sockets[f].rx, sockets[f].tx} \cap {socket_table[fd].rx, socket_table[fd].tx} \subseteq {NULL}
      BY DEF SysInv, SysBuffersOwned
    <3> QED BY <2>2, <3>1, <3>2, <3>3
  <2>5. \A f \in SysFds, g \in Fds : {sockets'[f].rx, sockets'[f].tx}
                                       \cap {socket_table'[g].rx, socket_table'[g].tx} \subseteq {NULL}
    BY <2>1, <2>4 DEF SysInv, SysBuffersOwned
  <2> QED BY <2>3, <2>5 DEF SysInv, SysBuffersOwned
<1> QED BY <1>1, <1>2 DEF TableStep

\* Every step on the system sockets preserves the invariants of both tables.
LEMMA SysKeeps ==
  ASSUME TableInv, SysInv, SysStep, UNCHANGED <<socket_table, next_port>>
  PROVE  TableInv' /\ SysInv'
<1>1. CASE UNCHANGED <<sockets, heapUsed>>
  BY <1>1 DEF TableInv, BuffersOwned, SysInv, SysBuffersOwned
<1>2. ASSUME NEW fd \in SysFds, NEW s \in SysSock, SysSet(fd, s), SysFits(s, sockets[fd], heapUsed')
      PROVE  TableInv' /\ SysInv'
  <2>1. /\ sockets' \in [SysFds -> SysSock] /\ sockets'[fd] = s
        /\ \A g \in SysFds : g # fd => sockets'[g] = sockets[g]
    BY <1>2 DEF SysInv, SysSet
  <2>2. heapUsed' \in 0 .. HeapBufs /\ heapUsed' \in Nat /\ heapUsed <= heapUsed' /\ heapUsed \in Nat
    BY <1>2, BuffersGiven DEF SysFits
  <2>3. \A g \in Fds : socket_table[g].rx <= heapUsed' /\ socket_table[g].tx <= heapUsed'
    BY <2>2, BuffersGiven
  <2>4. TableInv'
    BY <2>2, <2>3 DEF TableInv, BuffersOwned
  <2>5. \A g \in SysFds : sockets'[g].rx <= heapUsed' /\ sockets'[g].tx <= heapUsed'
    <3>1. \A g \in SysFds : sockets[g].rx <= heapUsed' /\ sockets[g].tx <= heapUsed'
      BY <2>2, BuffersGiven
    <3> QED BY <1>2, <2>1, <3>1 DEF SysFits
  <2>6. \A b \in {s.rx, s.tx} : b = NULL \/ b > heapUsed \/ b \in {sockets[fd].rx, sockets[fd].tx}
    BY <1>2 DEF SysFits
  <2>7. ASSUME NEW g \in SysFds, g # fd, NEW b \in {s.rx, s.tx} \cap {sockets[g].rx, sockets[g].tx}
        PROVE  b = NULL
    <3>1. b \in 0 .. heapUsed
      BY BuffersGiven
    <3>2. {sockets[fd].rx, sockets[fd].tx} \cap {sockets[g].rx, sockets[g].tx} \subseteq {NULL}
      BY <2>7 DEF SysInv, SysBuffersOwned
    <3> QED BY <2>2, <2>6, <3>1, <3>2
  <2>8. ASSUME NEW g \in Fds, NEW b \in {s.rx, s.tx} \cap {socket_table[g].rx, socket_table[g].tx}
        PROVE  b = NULL
    <3>1. b \in 0 .. heapUsed
      BY BuffersGiven
    <3>2. {sockets[fd].rx, sockets[fd].tx} \cap {socket_table[g].rx, socket_table[g].tx} \subseteq {NULL}
      BY DEF SysInv, SysBuffersOwned
    <3> QED BY <2>2, <2>6, <3>1, <3>2
  <2>9. /\ s.state = "UNUSED" => s.rx = NULL /\ s.tx = NULL
        /\ s.rx = s.tx => s.rx = NULL
    BY <1>2 DEF SysFits
  <2>10. \A f, g \in SysFds : f # g => {sockets'[f].rx, sockets'[f].tx}
                                       \cap {sockets'[g].rx, sockets'[g].tx} \subseteq {NULL}
    BY <2>1, <2>7 DEF SysInv, SysBuffersOwned
  <2>11. \A f \in SysFds, g \in Fds : {sockets'[f].rx, sockets'[f].tx}
                                       \cap {socket_table[g].rx, socket_table[g].tx} \subseteq {NULL}
    BY <2>1, <2>8 DEF SysInv, SysBuffersOwned
  <2>12. \A f \in SysFds : /\ sockets'[f].state = "UNUSED" => sockets'[f].rx = NULL /\ sockets'[f].tx = NULL
                           /\ sockets'[f].rx = sockets'[f].tx => sockets'[f].rx = NULL
    BY <2>1, <2>9 DEF SysInv, SysBuffersOwned
  <2> QED BY <2>1, <2>4, <2>5, <2>10, <2>11, <2>12 DEF SysInv, SysBuffersOwned
<1>3. CASE sockets' = [fd \in SysFds |-> SysUnused] /\ UNCHANGED heapUsed
  <2>1. TableInv'
    BY <1>3 DEF TableInv, BuffersOwned
  <2>2. heapUsed' \in Nat
    BY <1>3, BuffersGiven
  <2> QED BY <1>3, <2>1, <2>2, SysUnusedIsSocket DEF SysInv, SysBuffersOwned, NULL
<1> QED BY <1>1, <1>2, <1>3 DEF SysStep

\* What kmalloc makes of a request for two buffers, of which either may fail.
LEMMA TakesBuffers ==
  ASSUME heapUsed \in 0 .. HeapBufs, HeapBufs \in Nat, TakesTwo
  PROVE  /\ heapUsed' \in heapUsed .. HeapBufs
         /\ \A n \in {1, 2} : \/ BufferAt(n) = NULL
                              \/ BufferAt(n) = heapUsed + n /\ heapUsed + n <= heapUsed'
<1>1. heapUsed' \in {heapUsed + 2, HeapBufs} /\ heapUsed' <= heapUsed + 2 /\ heapUsed' <= HeapBufs
  BY FirstSlot DEF TakesTwo
<1>2. heapUsed' \in heapUsed .. HeapBufs
  BY <1>1
<1>3. \A n \in {1, 2} : heapUsed + n <= HeapBufs => heapUsed + n <= heapUsed'
  BY <1>1
<1>4. \A n \in {1, 2} : \/ BufferAt(n) = NULL
                        \/ BufferAt(n) = heapUsed + n /\ heapUsed + n <= HeapBufs
  <2> TAKE n \in {1, 2}
  <2>1. CASE heapUsed + n <= HeapBufs
    <3>1. BufferAt(n) = heapUsed + n
      BY <2>1, Zenon DEF BufferAt
    <3> QED BY <2>1, <3>1, Zenon
  <2>2. CASE ~(heapUsed + n <= HeapBufs)
    BY <2>2, Zenon DEF BufferAt
  <2> QED BY <2>1, <2>2
<1> QED BY <1>2, <1>3, <1>4

\* The calls of network.c change the table as the invariant expects.
LEMMA SysCallSteps ==
  ASSUME TableInv, SysInv, SysCalls
  PROVE  SysStep
<1>1. HeapBufs \in Nat /\ heapUsed \in 0 .. HeapBufs /\ \A fd \in SysFds : sockets[fd] \in SysSock
  BY BuffersGiven DEF SysInv
<1>2. SysFree # {} => LeastOf(SysFree) \in SysFds
  <2>1. SysFree \in SUBSET Nat
    BY SysAssumption DEF SysFree
  <2> QED BY <2>1, FirstSlot DEF SysFree
<1>3. ASSUME NEW fd \in SysFds, sockets' = [sockets EXCEPT ![fd] = SysUnused],
             heapUsed' \in heapUsed .. HeapBufs
      PROVE  SysStep
  <2>1. SysFits(SysUnused, sockets[fd], heapUsed')
    BY <1>1, <1>3, SysUnusedIsSocket DEF SysFits, NULL
  <2> QED BY <1>3, <2>1, SysUnusedIsSocket DEF SysSet, SysStep
<1>4. ASSUME NEW type \in {Stream, Datagram}, SysSocket(type) PROVE SysStep
  <2>1. PICK fd \in SysFds : SysSet(fd, Opened(sockets[fd], type)) /\ TakesTwo
    BY <1>2, <1>4 DEF SysSocket
  <2>2. PICK s : s = Opened(sockets[fd], type)
    OBVIOUS
  <2>3. /\ heapUsed' \in heapUsed .. HeapBufs
        /\ \A n \in {1, 2} : BufferAt(n) = NULL \/ (BufferAt(n) = heapUsed + n /\ heapUsed + n <= heapUsed')
    BY <1>1, <2>1, TakesBuffers
  <2>4. \A n \in {1, 2} : BufferAt(n) \in 0 .. HeapBufs
    BY <1>1, <2>3 DEF NULL
  <2>5. s \in SysSock /\ s.state = "CLOSED" /\ s.rx = BufferAt(1) /\ s.tx = BufferAt(2)
    BY <1>1, <2>2, <2>4 DEF Opened, SysSock, States
  <2>6. SysFits(s, sockets[fd], heapUsed')
    BY <1>1, <2>3, <2>5 DEF SysFits, NULL
  <2> QED BY <2>1, <2>2, <2>5, <2>6 DEF SysStep
<1>5. ASSUME DnsResolve PROVE SysStep
  <2> DEFINE fd == LeastOf(SysFree)
  <2>1. /\ fd \in SysFds /\ TakesTwo
        /\ \E r : sockets' = [[sockets EXCEPT ![fd] = r] EXCEPT ![fd] = SysUnused]
    BY <1>2, <1>5 DEF DnsResolve, SysClosed
  <2>2. sockets' = [sockets EXCEPT ![fd] = SysUnused]
    BY <2>1
  <2>3. heapUsed' \in heapUsed .. HeapBufs
    BY <1>1, <2>1, TakesBuffers
  <2> QED BY <1>3, <2>1, <2>2, <2>3
\* A call that changes the state of a socket only.
<1>6. ASSUME NEW fd \in SysFds, NEW state \in States, state # "UNUSED", UNCHANGED heapUsed,
             SysSet(fd, [sockets[fd] EXCEPT !.state = state])
      PROVE  SysStep
  <2>1. PICK s : s = [sockets[fd] EXCEPT !.state = state]
    OBVIOUS
  <2>2. s \in SysSock /\ s.state = state /\ s.rx = sockets[fd].rx /\ s.tx = sockets[fd].tx
    BY <1>1, <2>1 DEF SysSock
  <2>3. heapUsed' \in heapUsed .. HeapBufs /\ s.rx <= heapUsed' /\ s.tx <= heapUsed'
    BY <1>1, <1>6, <2>2, BuffersGiven
  <2>4. SysFits(s, sockets[fd], heapUsed')
    BY <1>6, <2>2, <2>3 DEF SysFits, SysInv, SysBuffersOwned
  <2> QED BY <1>6, <2>1, <2>2, <2>4 DEF SysStep
<1>7. ASSUME SysUses, UNCHANGED heapUsed PROVE SysStep
  <2>1. {"BOUND", "LISTENING", "ESTABLISHED"} \subseteq States \ {"UNUSED"}
    BY DEF States
  <2>2. PICK fd \in SysFds : \/ SysBind(fd) \/ SysListen(fd) \/ SysConnect(fd) \/ SysRecv(fd) \/ SysClose(fd)
                             \/ \E ip \in Hosts : SysSend(fd, ip)
    BY <1>7 DEF SysUses
  <2>3. CASE SysBind(fd) \/ SysListen(fd) \/ SysConnect(fd)
    BY <1>6, <1>7, <2>1, <2>3 DEF SysBind, SysListen, SysConnect
  <2>4. CASE SysClose(fd)
    <3>1. sockets' = [sockets EXCEPT ![fd] = SysUnused]
      BY <2>4 DEF SysClose, SysClosed
    <3>2. heapUsed' \in heapUsed .. HeapBufs
      BY <1>1, <1>7
    <3> QED BY <1>3, <3>1, <3>2
  <2>5. CASE SysRecv(fd) \/ \E ip \in Hosts : SysSend(fd, ip)
    <3>1. UNCHANGED sockets
      BY <2>5 DEF SysRecv, SysSend, sysVars
    <3> QED BY <1>7, <3>1 DEF SysStep
  <2> QED BY <2>2, <2>3, <2>4, <2>5
<1> QED BY <1>4, <1>5, <1>7 DEF SysCalls

\* The system calls preserve the invariant of the call under way.
LEMMA SysCallKeeps ==
  ASSUME CallInv, SysCalls \/ SysNetInit \/ SysThread, UNCHANGED socket_table
  PROVE  CallInv'
<1>1. UNCHANGED socket_table
  OBVIOUS
<1>2. SysFds \subseteq Nat /\ Hosts \subseteq Addressable
  BY SysAssumption DEF Addressable
<1>3. ASSUME UNCHANGED thread PROVE CallInv'
  BY <1>1, <1>3 DEF CallInv, SynSentHasCaller, State
<1>4. ASSUME thread.op # "connect", thread' \in {Idle} \cup Busy,
             thread'.op \notin {"connect", "accept"}
      PROVE  CallInv'
  BY <1>1, <1>4, NobodyWaited, NoneWaits
<1>5. ASSUME NEW fd \in SysFds, NEW ip \in Hosts, SysSend(fd, ip) PROVE CallInv'
  <2> DEFINE call == Sending("sys_send", fd, ip, "data", "finish")
  <2>1. call \in Busy /\ call.op = "sys_send"
    BY <1>2, SendingIsBusy DEF Ops, Contents, Stages
  <2>2. thread = Idle /\ thread' = call
    BY <1>5 DEF SysSend
  <2> HIDE DEF call
  <2> QED BY <1>3, <1>4, <2>1, <2>2, IdleNotBusy
<1>6. ASSUME NEW fd \in SysFds, SysRecv(fd) PROVE CallInv'
  <2> DEFINE call == [op |-> "sys_recv", fd |-> fd, stage |-> "poll", after |-> "finish", tries |-> 0,
                      left |-> SysPolls, out |-> [dst |-> OwnIp, what |-> "none"], port |-> 0]
  <2>1. call \in Busy /\ call.op = "sys_recv"
    <3>1. [dst |-> OwnIp, what |-> "none"] \in [dst : Addressable, what : Contents]
      BY DEF Addressable, Contents
    <3>2. /\ SysPolls \in Int /\ 0 \in PortNumbers /\ fd \in Nat
          /\ "poll" \in Stages /\ "finish" \in Stages /\ "sys_recv" \in Ops
      BY <1>2, SysAssumption, SocketAssumption DEF Stages, Ops, PortNumbers
    <3> QED BY <3>1, <3>2 DEF Busy
  <2>2. thread = Idle /\ thread' = call
    BY <1>6 DEF SysRecv
  <2> HIDE DEF call
  <2> QED BY <1>4, <2>1, <2>2, IdleNotBusy
<1>7. ASSUME SysCalls PROVE CallInv'
  <2>1. CASE UNCHANGED thread
    BY <1>3, <2>1
  <2>2. CASE ~UNCHANGED thread
    BY <1>5, <1>6, <1>7, <2>2 DEF SysCalls, SysUses, SysSocket, SysBind, SysListen, SysConnect,
                                  SysClose, DnsResolve, netVars
  <2> QED BY <2>1, <2>2
<1>8. ASSUME SysNetInit PROVE CallInv'
  BY <1>3, <1>8 DEF SysNetInit, NetInit
<1>9. ASSUME SysSendDone PROVE CallInv'
  BY <1>4, <1>9, IdleNotBusy DEF SysSendDone
<1>10. ASSUME PollSysRecv PROVE CallInv'
  <2>1. thread \in Busy /\ thread.op = "sys_recv" /\ thread.left \in Int
    BY <1>10, IdleNotBusy DEF PollSysRecv, CallInv, Busy
  <2> DEFINE left == thread.left - 1
             next == [thread EXCEPT !.left = left]
  <2>2. thread' = Idle \/ thread' = next
    BY <1>10 DEF PollSysRecv
  <2>3. left \in Int
    BY <2>1
  <2> HIDE DEF left
  <2>4. next \in Busy /\ next.op = "sys_recv"
    BY <2>1, <2>3 DEF Busy
  <2> HIDE DEF next
  <2>5. CASE thread' = Idle
    BY <1>4, <2>1, <2>5, IdleNotBusy
  <2>6. CASE thread' = next
    BY <1>4, <2>1, <2>4, <2>6
  <2> QED BY <2>2, <2>5, <2>6
<1> QED BY <1>7, <1>8, <1>9, <1>10 DEF SysThread

StackInv == RingInv /\ TableInv /\ CallInv /\ SysInv

\* The stack starts in its invariant.
LEMMA StackStarts ==
  ASSUME StackInit
  PROVE  StackInv
<1>1. RingInv
  <2>1. <<>> \in Seq(Filled) /\ DOMAIN <<>> = {}
    OBVIOUS
  <2> QED BY <2>1 DEF StackInit, NetInitial, VirtioNetPosted, RingInv, RxBuffersOnce
<1>2. TableInv
  <2>1. socket_table = [fd \in Fds |-> Unused] /\ heapUsed = 0 /\ next_port = FirstPort
    BY DEF StackInit, SocketInit
  <2>2. heapUsed \in 0 .. HeapBufs /\ next_port \in PortNumbers
    BY <2>1, SocketAssumption DEF PortNumbers
  <2>3. Unused.rx = 0 /\ Unused.tx = 0 /\ Unused.state = "UNUSED"
    BY DEF Unused, NULL
  <2> QED BY <2>1, <2>2, <2>3, UnusedIsSocket DEF TableInv, BuffersOwned, NULL
<1>3. CallInv
  BY IdleNotBusy DEF StackInit, NetInitial, SocketInit, CallInv, SynSentHasCaller, State, Unused
<1>4. SysInv
  BY <1>2, SysUnusedIsSocket DEF StackInit, SysInit, SysInv, SysBuffersOwned, TableInv, NULL
<1> QED BY <1>1, <1>2, <1>3, <1>4 DEF StackInv

\* Every step of the stack preserves its invariant.
LEMMA StackKeeps ==
  ASSUME StackInv, [StackNext]_allVars
  PROVE  StackInv'
<1> USE DEF StackInv
<1>1. RingInv'
  BY RingSteps, RingKeeps
<1>2. ASSUME UNCHANGED <<sockVars, sysVars>> PROVE TableInv' /\ SysInv'
  BY <1>2, SysKeeps DEF sockVars, tableVars, sysVars, SysStep
<1>3. ASSUME UNCHANGED allVars PROVE StackInv'
  <2>1. CallInv'
    BY <1>3 DEF allVars, netVars, sockVars, tableVars, CallInv, SynSentHasCaller, State
  <2> QED BY <1>1, <1>2, <1>3, <2>1 DEF allVars
<1>4. ASSUME NetEnvironment \/ NetThread \/ NetCalls, UNCHANGED <<sockVars, sysVars>>
      PROVE  StackInv'
  BY <1>1, <1>2, <1>4, NetCallKeeps
<1>5. ASSUME SocketCalls \/ SocketThread, UNCHANGED sysVars PROVE StackInv'
  <2>1. TableStep /\ next_port' \in PortNumbers
    BY <1>5, CallTableSteps, ThreadTableSteps
  <2>2. TableInv' /\ SysInv'
    BY <1>5, <2>1, TableKeeps, TableSysKeeps DEF sysVars
  <2>3. CallInv'
    BY <1>5, CallKeeps, ThreadKeeps
  <2> QED BY <1>1, <2>2, <2>3
<1>6. ASSUME \/ SysCalls /\ UNCHANGED <<socket_table, next_port>>
             \/ (SysNetInit \/ SysThread) /\ UNCHANGED sockVars
      PROVE  StackInv'
  <2>1. UNCHANGED <<socket_table, next_port>>
    BY <1>6 DEF sockVars, tableVars
  <2>2. SysStep
    <3>1. CASE SysCalls
      BY <3>1, SysCallSteps
    <3>2. CASE SysNetInit /\ UNCHANGED sockVars
      BY <3>2 DEF SysNetInit, sockVars, tableVars, SysStep
    <3>3. CASE SysThread /\ UNCHANGED sockVars
      BY <3>3 DEF SysThread, PollSysRecv, SysSendDone, sysVars, sockVars, tableVars, SysStep
    <3> QED BY <1>6, <3>1, <3>2, <3>3
  <2>3. TableInv' /\ SysInv'
    BY <2>1, <2>2, SysKeeps
  <2>4. CallInv'
    BY <1>6, <2>1, SysCallKeeps
  <2> QED BY <1>1, <2>3, <2>4
<1> QED BY <1>3, <1>4, <1>5, <1>6 DEF StackNext

\* For any number of sockets, buffers and rounds, whatever fails or is given up: a socket
\* of network_sock.c in use has two buffers of its own, one in SYN_SENT has its connect
\* in progress, a socket of network.c has the buffers there were, at worst none, and no
\* buffer has two owners in the two tables or is left in a free slot.
THEOREM SocketsOwnedCorrect == StackSpec => []SocketsOwned
<1>1. StackInit => StackInv
  BY StackStarts
<1>2. StackInv /\ [StackNext]_allVars => StackInv'
  BY StackKeeps
<1>3. StackInv => SocketsOwned
  BY DEF StackInv, TableInv, CallInv, SysInv, SocketsOwned
<1> QED BY <1>1, <1>2, <1>3, PTL DEF StackSpec
=============================================================================
