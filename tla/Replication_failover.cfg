SPECIFICATION Spec
CONSTANTS
    Node = {n1, n2}
    Op = {o1, o2}
    Writers = {n1, n2}
    MaxMasters = 1
    MaxCrashes = 1
    MaxWriteFailures = 0
INVARIANT OneContentPerVersion
CHECK_DEADLOCK FALSE
