\* A receipt that is not seen, and payout called again afterwards.
SPECIFICATION Spec
CONSTANTS
    alice = alice
    bob = bob
    yes = yes
    no = no
    t1 = t1
    t2 = t2
    h1 = h1
    H1 = H1
    h2 = h2
    Null = Null
    Users <- MCUsers
    Wallets <- MCUsers
    Apps = {jam}
    Pots = {p1}
    Options = {yes, no}
    Hashes = {h1, H1, h2}
    Txs = {t1, t2}
    TxOf <- MCTxOf
    TxFrom <- MCTxFrom
    TxValue <- MCTxValue
    StakeMax = 3
    TotalMax = 5
    StakeCalls = {1, 2}
    ResolveCalls = {11, 12}
    Creators = {alice}
    Tried <- MCTried
    MaxStakesInFlight = 1
    SerialResolves = TRUE
    Reruns = TRUE
    Faults = {"lost"}
INVARIANTS
    NoDoublePay
CHECK_DEADLOCK FALSE
