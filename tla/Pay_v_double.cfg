\* One payment to a friend, with a lost answer.
CONSTANTS
    Requests = {gift}
    ToFriend = {gift}
    OverCap = {}
    MayLose = {gift}
    Null = Null
SPECIFICATION Spec
INVARIANTS
    OnePaymentPerApproval
CHECK_DEADLOCK FALSE
