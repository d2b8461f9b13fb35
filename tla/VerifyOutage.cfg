\* The same instance; one invariant.
CONSTANTS
    Receipt <- Receipts
    Oracle <- Oracles
    Stranger <- Strangers
    Loop <- Loops
    g1 = g1
    g2 = g2
    shell = shell
    w1 = w1
    w2 = w2
    env = env
    foreign = foreign
    s1 = s1
    s2 = s2
    chat = chat
    None = None
    Process <- Gateways
    Installer <- Shells
    Wallet <- Wallets
    EnvWallet = env
    Foreign = foreign
    Session <- Chats
    RoutingKey <- OneChat
    MaxStarts = 4
    MaxEntries = 2
SPECIFICATION PageAndHost
INVARIANT UnverifiedMeansBadSignature
