\* A draft made on one device is opened on another.
SPECIFICATION Spec
CONSTANTS
    Null = Null
    Devices = {d1, d2}
    BuildsOn = {d1}
    MaxEdits = 1
    MaxOpens = 2
PROPERTIES
    ResumesElsewhere
CHECK_DEADLOCK FALSE
