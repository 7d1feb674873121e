SPECIFICATION Spec
CONSTANTS
    Policies <- NoneOneAll
    login = login
    unlock = unlock
    sudo = sudo
    Writers = {w1, w2}
    Uses = {login, unlock, sudo}
    Inodes = {i1, i2, i3, i4, i5}
    NoFile = NoFile
SYMMETRY InodeSymmetry
INVARIANT CrashLeavesWhole
