SPECIFICATION Spec
CONSTANTS
    MaxIds = 3
    MaxWindows = 3
    Desktops = 3
    AtBoot = 1
    MaxMoves = 2
    Screen <- NoCells
    Work <- NoCells
    Rects <- NoArea
VIEW OnlyLists
INVARIANTS DesktopsConsistent
PROPERTIES CloseKeepsWindows
CHECK_DEADLOCK FALSE
