SPECIFICATION FairSpec
CONSTANTS
    Outputs = {o1}
    Sensors = {"face"}
    MaxInbox = 1
    MaxOwed = 2
INVARIANT Covered
INVARIANT WashedForCamera
PROPERTY HoldSpec
PROPERTY AcceptedOpens
PROPERTY KeyboardComesBack
CHECK_DEADLOCK FALSE
