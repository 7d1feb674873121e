SPECIFICATION FairSpec
CONSTANTS
    Account <- OneAccount
    alice = alice
    Watches = {w1, w2}
    Accounts = {alice}
    MaxMisses = 1
    MaxRebinds = 1
    Nobody = Nobody
    Elsewhere = Elsewhere
INVARIANT TypeOK
INVARIANT NeverDeaf
INVARIANT OneServed
INVARIANT MissesBounded
PROPERTY GoneIsOver
