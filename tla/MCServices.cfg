SPECIFICATION Spec
SYMMETRY Symmetric
CONSTANTS
    Devs = {d1, d2}
    Sectors = {0, 1, 2}
    Contents = {"blank", "boot"}
    Blank = "blank"
    CacheLen = 2
    MaxJiffies = 1
    MaxPartitions = 2
    MaxMounts = 2
    MaxOpen = 3
    PosMod = 4
    Offsets = {1, 3}
    StartOf <- Tables
    MagicOf <- Magic
    Users = {"admin", "guest"}
    Passwords = {"p", "q"}
    MaxUsers = 3
    SessionSlots = {0, 1}
    DesktopWindows = {"w1", "w2", "w3"}
    Contexts = {"c1", "c2"}
    PrivLevels = {0, 1, 2}
    CapsOf <- DefaultCaps
    Boxes = {"s1", "s2"}
    RuleTypes = {"read"}
    Targets = {"x", "y"}
    Patterns <- AllOrOne
    MaxRules = 2
    Cpus = {"cpu0", "cpu1"}
    LogLevels = {0, 1}
    Messages = {"a", "b"}
    RingSize = 2
    IdxMod = 6
    MaxWrites = 7
    EntrySlots = 2
    Entries = {"e", "f"}
    MaxPuts = 5
INVARIANTS StorageConsistent DesktopPerSession Authorised LogsKeepLast
CHECK_DEADLOCK FALSE
