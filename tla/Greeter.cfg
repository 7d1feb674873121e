SPECIFICATION FairGreeterSpec
CONSTANTS
    alice = alice
    bob = bob
    Users <- MCUsers
    Nobody = Nobody
    Offers = {0, 2}
    MaxInbox = 1
    MaxOwed = 2
INVARIANT GreeterTypeOK
INVARIANT NameStays
INVARIANT SensorsShown
PROPERTY MatchSeen
PROPERTY KeyboardReturns
CHECK_DEADLOCK FALSE
