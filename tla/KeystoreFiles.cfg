\* Three runs anchored side by side on one network.
CONSTANTS
    r1 = r1
    r2 = r2
    r3 = r3
    galileo = galileo
    aristotle = aristotle
    None = None
    Last = Last
    Junk = Junk
    Run <- ThreeRuns
    Chain <- Testnet
    MaxTokens = 3
SPECIFICATION Spec
INVARIANTS
    TypeOK
    KeyKept
    ShareOpens
    ShareLastFindsKey
    PendingListed
PROPERTIES
    PathsCollisionFree
    ImplementsVault
CHECK_DEADLOCK FALSE
