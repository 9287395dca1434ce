\* One build whose owner discards and publishes the jam meanwhile, with every fault.
SPECIFICATION Spec
CONSTANTS
    Null = Null
    Builds = {b1}
    Results = {url1, url2}
    MaxConcurrent = 1
    Impatient = FALSE
    Restarts = TRUE
    MaxEvents = 1
    Managed = {b1}
    Published = {b1}
    Unlucky = {b1}
    Faults = {"db", "net", "crash"}
INVARIANTS
    UrlIsTheBuilders
PROPERTIES
    QuietDiscardIsFinal
    ImplementsPromise
CHECK_DEADLOCK FALSE
