\* Two builds for one slot and one slug; anything may fail for one of them, and both services may go down.
SPECIFICATION FairSpec
CONSTANTS
    Null = Null
    Builds = {b1, b2}
    Results = {url1}
    MaxConcurrent = 1
    Impatient = FALSE
    Restarts = TRUE
    MaxEvents = 1
    Managed = {}
    Published = {}
    Unlucky = {b1}
    Faults = {"db", "crash"}
PROPERTIES
    EveryBuildSettles
CHECK_DEADLOCK FALSE
