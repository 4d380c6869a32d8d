SPECIFICATION AnalysisSpec
CONSTANTS
    Project <- MCProject
    Edits <- MCEdits
    Breakable <- MCBreakable
    MaxEdits = 1
    MaxChanges = 2
    ControllerActionLimit = 2
    LabelsByLength <- MCLabels
    Base <- MCBase
    Library <- MCLibrary
    Orders <- MCOrders
    MaxTreeEdits = 2
PROPERTIES
    EveryRegistrationIsShown
    AbsenceIsAsked
    ProfileOnlyAdds
    ReportCanBeFollowed
    OneMapOfTheCode
CHECK_DEADLOCK FALSE
