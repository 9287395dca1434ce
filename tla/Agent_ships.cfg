\* Two builds for one slot: an onchain game, and a jam with a database.
SPECIFICATION AgentFairSpec
CONSTANTS
    Null = Null
    Builds = {game, guestbook}
    Results <- MCResults
    MaxConcurrent = 1
    Impatient = FALSE
    Restarts = TRUE
    MaxEvents = 1
    NeedsData = {guestbook}
    Onchain = {game}
    HasNeon = TRUE
    DryRun = FALSE
    MaxRounds = 2
    AssetBudget = 1
    ParallelTools = 2
INVARIANTS
    SlotsExact
    DoneIsShipped
    OnlyCompleteIsLive
    BudgetOvershootBounded
PROPERTIES
    EveryBuildEnds
    ImplementsRunner
CHECK_DEADLOCK FALSE
