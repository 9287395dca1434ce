\* One draft on two devices, or its workshop, or one jam between two people.
CONSTANTS
    Null = Null
    None = None
    Devices = {d1, d2}
    BuildsOn = {d1}
    MaxEdits = 2
    MaxOpens = 2
    Builds = {b1, b2}
    MaxAsks = 2
    MaxTurns = 1
    Users = {ann, bob}
    Visited = {ann}
    Jams = {jam}
    Guest = Guest
    MaxChanges = 4
    MaxDocs = 2
    MaxPayers = 1
    MaxCalls = 1
SPECIFICATION WebFairSpec
INVARIANTS
    RevealIsLive
    ContextIsTheViewers
    CallsAreTheViewers
    AnswersFindTheirCall
PROPERTIES
    BuiltLeavesTheList
    NewestReachesTheRow
    WorkshopEnds
    JamsAppear
CHECK_DEADLOCK FALSE
