SPECIFICATION Spec
CONSTANTS
    Documents = {view, journey}
    NoDocument = NoDocument
    Journey = journey
    Views = {view}
    MaxRequests = 3
    MaxInbox = 1
    MaxChanges = 1
INVARIANTS
    AnsweredOnce
    ShownMatches
    CacheIsHonest
PROPERTIES
    FindingsWereThere
CHECK_DEADLOCK FALSE
