SPECIFICATION Spec
CONSTANTS
    Absent = Absent
    Unset = Unset
    Names = {alice}
    Lines <- MCLines
    Entries <- MCEntries
    MaxDay = 2
INVARIANT ClosedStaysOut
INVARIANT RefusalsCostTheSame
INVARIANT FingerFollowsPassword
