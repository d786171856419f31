SPECIFICATION DevicesSpec
SYMMETRY Symmetric
CHECK_DEADLOCK FALSE
CONSTANTS
    Keys = {"a"}
    ModKeys = {"shift"}
    CapsKey = "caps"
    Handlers = {"console"}
    Wants <- Interest
    BufferSize = 2
    CountMod = 4
    IntMod = 16
    Moves <- Distances
    Threshold = 2
    AccelNum = 3
    AccelDen = 2
    Screens = {2, 5}
    MaxPorts = 2
    HidDevs <- Hid
    BootDevs = {"serial"}
    QueueSize = 2
    RingMod = 4
    HidEvents = {"e", "f"}
    Takers = {"reader", "handler"}
    GpuPages = {1, 2, 3, 4}
    FramePages = 2
    GpuFrames = {0, 1, 2}
    MaxResources = 2
    CursorPlaces = {0, 1}
    MaxSamples = 24
    Rates = {2, 3, 5, 7, 8}
    SigBits = 6
    Blocks = {"b1", "b2", "b3", "b4"}
    CPUs = {c1, c2}
    NoCpu = NoCpu
    TotalPages = 4
    BitmapPages = 1
    HeapPages = 1
    BitsPerByte = 4
    PageWords = 2
    Clients = {dma, other}
    Dma = dma
    Other = other
    HandleWords = 1
    MaxBufs = 2
    RefLimit = 4
INVARIANTS RefsCounted LinkedWhileReferenced PagesOwned EventsQueued DevicesFollowed DeviceMemoryOwned ResampledInside NoTearing
