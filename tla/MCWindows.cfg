SPECIFICATION Spec
CONSTANTS
    MaxIds = 3
    MaxWindows = 3
    Desktops = 1
    AtBoot = 1
    MaxMoves = 0
    Screen <- Wide
    Work <- AboveTaskbar
    Rects <- SideBySide
INVARIANTS ListsConsistent ActiveMarked CullingHarmless
PROPERTIES ActivatedIsHit
CHECK_DEADLOCK FALSE
