\* One contract, two accounts, two calls of the client, two scanners.
CONSTANTS
    host = host
    guest = guest
    c1 = c1
    c2 = c2
    route = route
    visitor = visitor
    p1 = p1
    p2 = p2
    None = None
    Account <- Accounts
    Contract <- Contracts
    Deployer = host
    Operators <- HostForGuest
    Data <- Arrays
    Fee <- Fees
    Batch <- Batches
    Limit = 2
    MaxTokens = 3
    Call <- Calls
    Asked <- AskedFor
    Host = host
    Scanner <- Scanners
    Route = route
    Filter <- OfGuest
    RowLimit <- Rows2
    WalkDepth <- Depths
    ProbeStart = 1
    ProbeCeiling = 8
    CeilingTTL = 1
    PayloadTTL = 1
    Poll <- Polls
SPECIFICATION Spec
INVARIANTS
    TypeOK
    ListsExact
    IndexAgrees
    GrantsOfOwner
    CloneFaithful
    AnswerIsOwnToken
    CeilingFresh
    PayloadFaithful
    AgentComplete
    PollServed
PROPERTY DataFrozen
SYMMETRY Symmetry
CHECK_DEADLOCK FALSE
