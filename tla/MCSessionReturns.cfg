SPECIFICATION LoopSpec
CONSTANTS
    l1 = l1
    l2 = l2
    Logins = {l1, l2}
    NoLogin = NoLogin
    LOGIN_ATTEMPTS = 2
    LOGIN_RETRY_INTERVAL = 1
    LOGIN_COOLDOWN = 1
    HEADING_TIMEOUT = 1
    MaxReady = 1
    MaxInFlight = 1
    ClientAtStart = {FALSE}
    PasswordAtStart = {"right", "unsendable"}
    Env = {"user", "cancel", "close", "stop", "history", "others"}
PROPERTIES
    RestIsQuiet
    EveryLoginReturns
    ComesToRest
