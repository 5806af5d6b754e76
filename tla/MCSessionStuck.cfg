SPECIFICATION FairSpec
CONSTANTS
    l1 = l1
    l2 = l2
    Logins = {l1}
    NoLogin = NoLogin
    LOGIN_ATTEMPTS = 2
    LOGIN_RETRY_INTERVAL = 1
    LOGIN_COOLDOWN = 2
    HEADING_TIMEOUT = 2
    MaxReady = 1
    MaxInFlight = 5
    ClientAtStart = {FALSE}
    PasswordAtStart = {"right"}
    Env = {"probe"}
PROPERTY
    LogsBackInAfterProbes
