SPECIFICATION Spec
CONSTANTS
    Strangers = {}
    FreeAttempts = 0
    BaseDelay = 1
    MaxDelay = 1
    ForgetAfter = 2
    Width = 2
    Nobody = Nobody
    Failed = Failed
    Accounts = {alice}
    MaxLive = 2
    MaxClock = 1
    MaxGreetings = 2
    Conns = {c1, c2}
SYMMETRY ConnSymmetry
INVARIANT TypeOK
INVARIANT ThrottleStillOpen
PROPERTY RaceSpec
