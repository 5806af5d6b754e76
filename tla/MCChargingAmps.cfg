SPECIFICATION Spec
CONSTANTS
    Sessions = {n1}
    NoSession = NoSession
    amps_while_charging = FALSE
    AtStart = {"READY_TO_CHARGE"}
    MaxInFlight = 2
PROPERTY
    NoAmpsDuringCharge
