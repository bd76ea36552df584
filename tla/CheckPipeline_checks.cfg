\* Two nodes, one of which aggregates, and one change of the environment.
SPECIFICATION FairSpec
CONSTANTS
    Node = {n1, n2}
    Self = n1
    None = None
    MaxEvents = 1
INVARIANT TypeOK
PROPERTIES ImplementsVerdicts OutageIsCommitted AnnouncedByStandingMaster
CHECK_DEADLOCK FALSE
