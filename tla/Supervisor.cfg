SPECIFICATION FairSpec
CONSTANTS
    Accounts = {alice, bob}
    LastDisplay = 1
    Nobody = Nobody
    Greeter = Greeter
INVARIANT OwnDisplay
INVARIANT KeysDieWithSession
PROPERTY SeatSpec
PROPERTY ScreenReturns
