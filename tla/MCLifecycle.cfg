SPECIFICATION FairSpec
CONSTANTS
    Callers = {c1, c2}
    Sockets = {s1, s2, s3}
    None = None
INVARIANTS
    TypeOK
    OrderlyUseIsSafe
    TransportIsOpen
PROPERTY
    EveryCallReturns
