\* Two joiners that were given the same token.
SPECIFICATION FairSpec
CONSTANTS
    Node = {n1, n2}
    Master = n1
    Joiner = {j1, j2}
    Token = {t1}
    None = None
    Absent = Absent
    MaxVersion = 5
INVARIANTS TypeOK TrustIsEarned
PROPERTIES ImplementsAdmission PeersGetTrusted 
CHECK_DEADLOCK FALSE
