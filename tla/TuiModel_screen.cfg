\* One check, an alert that can be added, two calls at a time.
SPECIFICATION FairSpec
CONSTANTS
    c = c
    a = a
    Checks = {c}
    Alerts = {a}
    Peers = {}
    Known <- MCKnown
    None = None
    MaxCalls = 2
    MaxLoads <- MCMaxLoads
    MaxChanges = 1
INVARIANTS TypeOK FormsAreAnswered
PROPERTY DisplayCatchesUp
CHECK_DEADLOCK FALSE
