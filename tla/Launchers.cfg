SPECIFICATION LauncherSpec
CONSTANTS
    ViewInputs = {view}
    GoFiles = {code}
    MaxVersion = 3
    Pages = {page, style}
    MaxPage = 2
    MaxSaves = 5
INVARIANTS
    NoticedIsOwed
    ServesTheSave
    BinaryNotInUse
PROPERTIES
    EveryoneSupervises
    InterruptEnds
    SaveIsShown
CHECK_DEADLOCK FALSE
