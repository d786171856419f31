SPECIFICATION Spec
CONSTANTS
    RxBufs = {b1, b2}
    CacheSize = 2
    Hosts <- Links
    OwnIp = "own"
    Gateway = "gw"
    OnLink <- Here
    Macs = {"m1", "m2"}
    OwnMac = "m0"
    Incoming <- Frames
    ArpRetries = 1
    Fds = {0, 1}
    HeapBufs = 3
    PortCount = 3
    FirstPort = 2
    Ports = {0, 1}
    Peers <- Peer
    Polls = 2
    SysFds = {0, 1}
    SysPolls = 1
PROPERTY CallsReturn
INVARIANTS RxBuffersOnce ArpAgrees SocketsOwned
CHECK_DEADLOCK FALSE
