\* The master and a follower, started from a restored file of version 0: two
\* versions to commit, one save by hand, one restart and one failing write.
SPECIFICATION FairSpec
CONSTANTS
    Node = {n1, n2}
    Master = n1
    x = x
    y = y
    Entries = {x, y}
    Sparse = {y}
    Resolvers = {}
    None = None
    Broken = Broken
    Initial <- MCInitial
    Start = 0
    MaxVersion = 2
    MaxSaves = 1
    MaxRestarts = 1
    MaxFails = 1
INVARIANTS TypeOK SeenMeansReplicated
PROPERTY EditsAreNoticed
CHECK_DEADLOCK FALSE
