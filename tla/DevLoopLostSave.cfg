SPECIFICATION FairSpec
CONSTANTS
    ViewInputs = {view}
    GoFiles = {code}
    MaxVersion = 2
PROPERTIES
    EveryChangeIsServed
CHECK_DEADLOCK FALSE
