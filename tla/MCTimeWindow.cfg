\* A millisecond of 2 usec and a second of 3 msec; a window that useconds_t cannot say.
SPECIFICATION FairSpec
CONSTANTS
    UsecPerMsec = 2
    MsecPerSec = 3
    Modulus = 32
    Windows <- MCWindows
    MaxTuples = 4
    MaxTime = 20
    NoTuple = NoTuple
INVARIANTS
    WindowIsExact
    WindowsHoldTheirTuples
    WindowsAdvance
PROPERTY EnqueueReturns
CHECK_DEADLOCK FALSE
