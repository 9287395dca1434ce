\* Three stakes on one pot, one transfer in two spellings, and two resolves that
\* do not overlap; payout may be called again, and every fault happens.  Calls
\* are one-shot, so the system stops when all were made.
SPECIFICATION FairSpec
CONSTANTS
    alice = alice
    bob = bob
    yes = yes
    no = no
    t1 = t1
    t2 = t2
    h1 = h1
    H1 = H1
    h2 = h2
    Null = Null
    Users <- MCUsers
    Wallets <- MCUsers
    Apps = {jam}
    Pots = {p1}
    Options = {yes, no}
    Hashes = {h1, H1, h2}
    Txs = {t1, t2}
    TxOf <- MCTxOf
    TxFrom <- MCTxFrom
    TxValue <- MCTxValue
    StakeMax = 3
    TotalMax = 5
    StakeCalls = {1, 2, 3}
    ResolveCalls = {11, 12}
    Creators = {alice}
    Tried <- MCTried
    MaxStakesInFlight = 1
    SerialResolves = TRUE
    Reruns = TRUE
    Faults = {"reject", "lost", "revert", "abort"}
INVARIANTS
    StakesBacked
    PayoutsMatchOutcome
    PoolSolvent
    PaidTwiceOnlyAfterFailure
PROPERTIES
    ImplementsEscrow
    RecordedWinnersPaid
CHECK_DEADLOCK FALSE
