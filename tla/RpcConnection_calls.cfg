\* Two nodes, of which one may open two connections to the other.
SPECIFICATION FairSpec
CONSTANTS
    n1 = n1
    n2 = n2
    Node = {n1, n2}
    None = None
    MaxConns <- MCMaxConns
INVARIANTS TypeOK OpenIsPooled AnswerIsOwn
PROPERTY CallsEnd
CHECK_DEADLOCK FALSE
