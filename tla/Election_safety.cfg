SPECIFICATION Spec
CONSTANTS
    Node = {1, 2, 3}
    NoMaster = NoMaster
    DeadAfter = 2
    Cooldown = 2
    MaxFaults = 3
INVARIANTS TypeOK MastersShareAVoter AgreementAfterCooldown MinorityStepsDown
CHECK_DEADLOCK FALSE
