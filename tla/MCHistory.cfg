SPECIFICATION FairSpec
CONSTANTS
    record = record
    short = short
    Readers = {reader1, reader2}
    Capacity = 2
    HISTORY_PASSES = 2
    Records = {record, short}
    Short = {short}
    Empty = Empty
    NoHistory = NoHistory
    RingsAtStart <- MCRings
    Finishing <- MCFinishing
INVARIANTS
    TypeOK
    EverySlotIsAccounted
PROPERTIES
    ImplementsHistoryService
    EveryReadEnds
