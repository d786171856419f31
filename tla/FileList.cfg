SPECIFICATION FileListSpec
CHECK_DEADLOCK FALSE
CONSTANTS
    FileNames = {"a", "b"}
    MaxFiles = 2
    MaxShown = 2
INVARIANT ListsFiles
