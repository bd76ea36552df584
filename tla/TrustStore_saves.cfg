\* Three goroutines of one daemon, two peers that may change their certificate.
SPECIFICATION Spec
CONSTANTS
    Task = {t1, t2, t3}
    Peer = {p1, p2}
    Fingerprint = {f1, f2}
    None = None
INVARIANT DoneMeansSaved
