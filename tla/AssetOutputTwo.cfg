SPECIFICATION Spec
CONSTANTS
    Builders = {b1, b2}
    MaxFiles = 3
PROPERTIES
    OwnFileRenamed
CHECK_DEADLOCK FALSE
