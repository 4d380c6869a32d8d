SPECIFICATION Spec
CONSTANTS
    ViewInputs = {view}
    GoFiles = {code}
    MaxVersion = 2
INVARIANT
    FailedStartIsSurvived
CHECK_DEADLOCK FALSE
