\* Up to four calls at a time that share a table, a limit or a counter.
CONSTANTS
    Scenarios <- MCScenarios
    Null = Null
    Width = 1
    DayLength = 2
    Keys <- MCKeys
    QuotaKeys = {"ai", "refine"}
    DailyMax = 1
    CacheMax = 1
    Fields = {"f", "g"}
    RecordsMax = 3
    KeysMax = 1
    ListMax = 1
    Cells = {1, 2, 3, 4}
    Lines <- MCLines
    InboxCap = 1
    PerSender = 2
    PerPair = 1
    Reserved = {0}
    PerSenderChat = 3
    PerPairChat = 2
SPECIFICATION Spec
INVARIANTS
    LimitsOfAMinute
    DailyLimitHolds
    LimitsHoldAlone
    UpdatesKept
    InboxBounded
    FriendshipIsMutual
    SignInServes
    PagesMissNothing
    NamesResolve
    GameDecided
PROPERTIES
    RefusedWhenSpent
    EvictsNoMore
CHECK_DEADLOCK FALSE
