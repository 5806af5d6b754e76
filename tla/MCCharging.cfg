SPECIFICATION FairSpec
CONSTANTS
    Sessions = {n1}
    NoSession = NoSession
    amps_while_charging = FALSE
    AtStart = {"READY_TO_CHARGE", "CHARGING"}
    MaxInFlight = 2
INVARIANTS
    TypeOK
PROPERTIES
    ImplementsRecordDelivery
    RecordsAreDelivered
    ChargeIsShown
