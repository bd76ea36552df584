\* Two operators, one of them on a host whose copy lags, and two commits.
SPECIFICATION Spec
CONSTANTS
    Node = {n1, n2}
    Master = n1
    Operator = {n1, n2}
    Id = {1, 2, 3, 4, 5}
    a = a
    b = b
    t1 = t1
    r1 = r1
    c1 = c1
    Cert = {c1, c2}
    Name = {a, b}
    Target = {t1}
    AlertLists <- MCAlertLists
    Suppressed <- MCSuppressed
    Resolver = {r1}
    None = None
    Initial <- MCInitial
    MaxVersion = 2
INVARIANTS TypeOK UniqueUntilRenamed BoundFieldsAgree NotifiesAsDocumented
CHECK_DEADLOCK FALSE
