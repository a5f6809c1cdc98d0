SPECIFICATION FairSpec
CONSTANTS
    north = north
    ana = ana  chair = chair  bench = bench
    c1 = c1  c2 = c2  c3 = c3  m1 = m1  k1 = k1
    w1 = w1  w2 = w2  w3 = w3
    key1 = key1  key2 = key2  none = none
    Branch = {north}
    Resource = {ana, chair, bench}
    Instant = {1}
    Day <- MCDay
    Cap <- TwoForAna
    Create = {c1, c2}
    Move = {}
    Block = {}
    Writer = {}
    Guarded = {}
    Transacted = {}
    Sent <- AllTogether
    Home <- AllNorth
    Scope <- OnlyNorth
    Options <- ChairOptions
    BlockFor <- NoOne
    BlockTimes <- Day1Only
    Target <- MoveTarget
    IdemKey <- SameKeys
    NeedsAdvance <- AllHeld
    KeyRank <- MCKeyRank
    Ttl <- OneTick
    LeaseTtl = 2
    Window <- TwoTicks
    HoldTime = 1
    NoProc = none
INVARIANTS SameRequestSameBooking
PROPERTIES NothingWaitsForEver
CHECK_DEADLOCK FALSE
