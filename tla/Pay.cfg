\* Two jams ask at once, one to pay a friend; answers and receipts of its
\* payment may be lost.
CONSTANTS
    Requests = {gift, tip}
    ToFriend = {gift}
    OverCap = {}
    MayLose = {gift}
    Null = Null
SPECIFICATION FairSpec
INVARIANTS
    OnePaymentUnlessLost
    RefusedIsUnpaid
    ToldIsMined
PROPERTIES
    NobodyWaitsForEver
CHECK_DEADLOCK FALSE
