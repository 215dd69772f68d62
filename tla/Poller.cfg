CONSTANTS
    c1 = c1
    c2 = c2
    c3 = c3
    c4 = c4
    Channels <- MCChannels
    FdOf <- MCFdOf
SPECIFICATION Spec
INVARIANTS IndexInv NoAssertFails
PROPERTIES ReportsEachOnce OthersUntouched
