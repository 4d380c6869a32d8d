SPECIFICATION OutputsSpec
CONSTANTS
    Parts = {"trim"}
    o1 = o1
    o2 = o2
    o3 = o3
    Commands = {c1}
    Outputs = {o1, o2}
    Size <- MCSize
    Overhead = 1
    Ceiling = 3
    LowWater = 2
    RecentUse = 2
    MeasureEvery = 2
    Refresh = 2
    Start0 = 3
    MaxTime = 5
    Builders = {b1}
    MaxTemps = 6
    Installers = {p1, p2}
    Bodies = {good, bad}
    Known = good
    Shipped = TRUE
    Failures = TRUE
    MaxFiles = 3
    Callers = {g1, g2}
    Requests <- MCRequests
    Archs = 2
    Runs = 2
    Sources <- MCSources
    Values = {"channel"}
    Profiles <- MCProfiles
    Installed = {"mine"}
    Required = {"push"}
    MaxProfiles = 2
    Generators = {g1, g2}
    Asks <- MCAsks
    LastDay = 2
    Entities = {e1}
    Runners = {b1, b2}
    MaxEdits = 2
    Origins <- MCOrigins
    Distributes <- MCDistributes
    Unstampable = {"s3"}
    MaxTouches = 2
    Roles <- MCRoles
    Faces <- MCFaces
    MaxFonts = 3
PROPERTIES UsedWithinRecentUseIsKept
CHECK_DEADLOCK FALSE
