SPECIFICATION Spec
CONSTANTS
    Devices = {d1, d2, d3}
    Serials = {s1, s2}
    Zero = Zero
    Addresses = {a1, a2, a3}
    None = None
SYMMETRY Symmetries
INVARIANTS
    TypeOK
    RoutingIsSound
PROPERTIES
    ChargersAreKept
    ManagedAreNotDiscovered
    UnlistedByNeighbour
    ImplementsOwnership
CHECK_DEADLOCK FALSE
