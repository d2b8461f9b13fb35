\* Two runs, the configuration switched from one network to the other.
CONSTANTS
    r1 = r1
    r2 = r2
    r3 = r3
    galileo = galileo
    aristotle = aristotle
    None = None
    Last = Last
    Junk = Junk
    Run <- TwoRuns
    Chain <- Networks
    MaxTokens = 2
SPECIFICATION Spec
PROPERTY PathsCollisionFree
CHECK_DEADLOCK FALSE
