SPECIFICATION FairSpec
CONSTANTS
    c1 = c1  c2 = c2  a1 = a1  a2 = a2  r1 = r1  r2 = r2  none = none
    Checkout = {c1, c2}
    Advance = {a1, a2}
    Refund = {r1}
    Key = {c1, c2, a1, a2, r1}
    KeyOf <- OwnKeys
    Amount <- Rest
    ChargeOf <- Cash
    Requirement = "required"
    Due = 2
    HoldUntil = 1
    StartsAt = 2
    LockTtl = 2
    Horizon = 2
    NoOne = none
INVARIANTS OpenCheckoutSettles
PROPERTIES ContractKept HoldEnds
CHECK_DEADLOCK FALSE
