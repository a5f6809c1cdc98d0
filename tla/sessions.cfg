SPECIFICATION Spec
CONSTANTS
    r1 = r1
    r2 = r2
    None = None
    Request = {r1, r2}
    Does <- MCDoes
    Mortal = {r1}
    Sessions = 2
    Resets = 1
    Checks = 1
    MaxVersion = 2
INVARIANTS
    TypeOK
    NoSessionOutlivesRevocation
    OneSessionPerFamily
PROPERTIES
    ResetTokensAreSpent
CHECK_DEADLOCK FALSE
