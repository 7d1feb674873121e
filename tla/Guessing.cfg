SPECIFICATION GuessingSpec
CONSTANTS
    FreeAttempts = 1
    BaseDelay = 1
    MaxDelay = 3
    ForgetAfter = 6
    Width = 3
    MaxTime = 16
    MaxGuesses = 9
INVARIANT GuessingTypeOK
INVARIANT GuessRateBounded
INVARIANT NoLockout
