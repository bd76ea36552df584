\* One manager of two nodes, its ticker and one heartbeat handler.  The term
\* is only ever reported, so its width does not matter: modulus 1.
SPECIFICATION FairSpec
CONSTANTS
    Node = {1, 2}
    NoMaster = NoMaster
    Self = 2
    DeadAfter = 2
    Cooldown = 4
    Handlers = {h1}
    Ticker = ticker
    TermModulus = 1
INVARIANTS TypeOK ContactInv
PROPERTIES DisplacementEarned LowestLiveRules StepsDownWithoutQuorum
CHECK_DEADLOCK FALSE
