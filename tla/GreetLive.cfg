SPECIFICATION FairSpec
CONSTANTS
    FreeAttempts = 0
    BaseDelay = 1
    MaxDelay = 1
    ForgetAfter = 2
    Width = 1
    Nobody = Nobody
    Failed = Failed
    Strangers = {}
    Accounts = {alice}
    MaxLive = 2
    MaxClock = 0
    MaxGreetings = 1
    Conns = {c1, c2}
PROPERTY ShutdownCompletes
PROPERTY ClaimDecides
