\* Two writers, of which one at a time believes to be master, whether or not it
\* has caught up; a crash and a failing write.
SPECIFICATION FairSpec
CONSTANTS
    Node = {n1, n2, n3}
    Op = {o1, o2}
    Writers = {n1, n2}
    MaxMasters = 1
    MaxCrashes = 1
    MaxWriteFailures = 1
INVARIANTS TypeOK OneContentUnlessForked AcknowledgedSurvives RejectedNeverApplied
PROPERTIES ImplementsConfigLog EventuallyConverged
CHECK_DEADLOCK FALSE
