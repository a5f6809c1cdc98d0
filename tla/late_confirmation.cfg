SPECIFICATION Spec
CONSTANTS
    north = north
    ana = ana  chair = chair  bench = bench
    c1 = c1  c2 = c2  c3 = c3  m1 = m1  k1 = k1
    w1 = w1  w2 = w2  w3 = w3
    key1 = key1  key2 = key2  none = none
    Branch = {north}
    Resource = {ana}
    Instant = {1}
    Day <- MCDay
    Cap <- One
    Create = {c1, c2}
    Move = {}
    Block = {}
    Writer = {}
    Guarded = {}
    Transacted = {}
    Sent <- AllTogether
    Home <- AllNorth
    Scope <- OnlyNorth
    Options <- Day1Options
    BlockFor <- NoOne
    BlockTimes <- Day1Only
    Target <- MoveTarget
    IdemKey <- PairKeys
    NeedsAdvance <- Held
    KeyRank <- MCKeyRank
    Ttl <- TwoTicks
    LeaseTtl = 2
    Window <- OneTick
    HoldTime = 2
    NoProc = none
INVARIANT NoDoubleBooking
CHECK_DEADLOCK FALSE
