SPECIFICATION Spec
CONSTANTS
    l1 = l1
    l2 = l2
    Logins = {l1, l2}
    NoLogin = NoLogin
    LOGIN_ATTEMPTS = 2
    LOGIN_RETRY_INTERVAL = 1
    LOGIN_COOLDOWN = 2
    HEADING_TIMEOUT = 2
    MaxReady = 2
    MaxInFlight = 1
    ClientAtStart = {TRUE, FALSE}
    PasswordAtStart = {"right", "wrong", "empty", "unsendable"}
    Env = {"user", "cancel", "close", "stop", "report", "probe"}
SYMMETRY LoginSymmetry
INVARIANTS
    TypeOK
    LoginIsSafe
    StoppedStaysOut
PROPERTY
    AutoLoginsAreThrottled
    ImplementsLoginService
