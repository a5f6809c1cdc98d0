SPECIFICATION Spec
CONSTANTS
    c1 = c1  c2 = c2  a1 = a1  a2 = a2  r1 = r1  r2 = r2  none = none
    Checkout = {c1, c2}
    Advance = {a1, a2}
    Refund = {r1, r2}
    Key = {c1, c2, a2, r1, r2}
    KeyOf <- SharedKey
    Amount <- Pairs
    ChargeOf <- SameCharge
    Requirement = "optional"
    Due = 2
    HoldUntil = 1
    StartsAt = 3
    LockTtl = 2
    Horizon = 4
    NoOne = none
INVARIANTS  ChargesCreditedOnce OneActiveCheckout
SYMMETRY RefundsAlike
CHECK_DEADLOCK FALSE
