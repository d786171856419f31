SPECIFICATION Spec
CHECK_DEADLOCK FALSE
CONSTANTS
    Boxes <- Rectangles
    FbW = 3
    FbH = 2
    SrcW = 3
    SrcH = 2
    MaxCalls = 3
    Chars = {"a", "b", "nl"}
    MaxText = 3
    Texts <- Inserts
    NUL = NUL
    Programs <- Kinds
    Place <- Overlapping
    WidgetItems = 1
    Values = {0, 1, 2}
    HideAfter = 1
    MaxTime = 2
    Labels = {1, 2}
    MaxItems = 3
    Nodes = {"n1", "n2", "n3", "n4"}
    Slots = {1, 2}
    Intervals = {0, 1}
    MaxJiffies = 3
    Apps = {"calculator", "editor"}
    Instances = {1, 2}
    Addresses = {"w1", "w2", "w3"}
    ScreenWidths = {320, 480, 640}
    TaskWindows = {"w1", "w2", "w3"}
    Desktop = "desktop"
    Words <- Sentences
    Blank = 0
    MaxWidths = {0, 2, 4}
    MaxLines = 3
    GlyphIds = {1, 2, 3}
    FontSizes = {8, 9}
    CacheSize = 2
    Bitmaps = {"b1", "b2", "b3"}
    MaxClock = 2
    ImageBlocks = {"b1", "b2", "b3", "b4", "b5"}
    MaxColumns = 3
    ByteValues = 4
    RowLength = 2
    NoWidgets <- NoKinds
    OtherWidth = 320
    OtherText <- NoSentence
INVARIANTS RegionsExact WidgetsAgree ProgramsKept DrawnAsAsked
PROPERTY ImplementsLine
