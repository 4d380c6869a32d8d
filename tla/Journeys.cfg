SPECIFICATION MCSpec
CONSTANTS
    page = page
    base = base
    reader = reader
    Views = {page, base, reader}
    NoView = NoView
    Path <- MCPath
    Extends <- MCExtends
    Layouts = {base}
    Declares = {base}
    ReadsData = {reader}
    MaxSaves = 3
    Suite <- MCSuite
    Lines <- MCLines
    Faults <- MCFaults
    MaxMachines = 3
    E2E = 2
    Root = 0
    RouteTable <- MCRoutes
    Pages <- MCPages
    Gestures <- MCGestures
    Leads <- MCLeads
    MaxGestures = 2
    Calls = {c1, c2, c3}
    MaxErrors = 2
INVARIANTS
    NothingOutOfDate
    Inherits
    NoOrphans
    SuiteIsRunOnce
    JourneyReplays
PROPERTIES
    BrowserIsKept
CHECK_DEADLOCK FALSE
