SPECIFICATION MemorySpec
CONSTANTS
    TotalPages = 11
    BitmapPages = 1
    HeapPages = 2
    BitsPerByte = 16
    PageWords = 1
    Vm = vm
    Clients = {vm, dmabuf}
    EntriesPerTable = 2
    VAs <- MCVAs
    PAs <- MCPAs
    KernelMap <- MCKernelMap
    Junk = 5
    Names = {a, b, c}
    Bytes = {zero, x}
    ZERO = zero
    HOLE = hole
    EMPTY = empty
    MaxFiles = 2
    BlocksPerFile = 2
    BlockSize = 2
    TotalBlocks = 3
    Wrap = 8
    Offsets = {0, 3, 7}
    Sizes = {1, 3}
INVARIANT HeapSeparate
CHECK_DEADLOCK FALSE
