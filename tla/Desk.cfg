SPECIFICATION Spec
CONSTANTS
    Threads = {t1, t2}
    Accounts = {alice, bob}
    Nobody = Nobody
    Known = {thumb}
    Odd = {other}
    MaxMisses = 1
    Uses = {"sudo"}
    MaxOrphans = 1
SYMMETRY DeskSymmetry
INVARIANT OnlyByPassword
INVARIANT SudoGoesBackToPassword
PROPERTY ForgottenStaysOff
INVARIANT EchoComesBack
