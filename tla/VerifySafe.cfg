SPECIFICATION FairSpec
CONSTANTS
    Owner <- MCOwner
    FreeAttempts = 0
    BaseDelay = 1
    MaxDelay = 1
    ForgetAfter = 3
    Width = 3
    alice = alice
    Accounts = {alice}
    Nobody = Nobody
    MaxConnections = 2
    MaxClock = 1
    Conns = {c1, c2, c3}
INVARIANT TypeOK
INVARIANT SlotsKept
INVARIANT OverrunBounded
PROPERTY SlotsComeBack
