SPECIFICATION Spec
CONSTANTS
    Node = {1, 2, 3}
    NoMaster = NoMaster
    DeadAfter = 2
    Cooldown = 2
    MaxFaults = 1
INVARIANT NoLastingSplitBrain
CHECK_DEADLOCK FALSE
