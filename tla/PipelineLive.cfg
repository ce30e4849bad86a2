CONSTANTS
    b1 = b1
    b2 = b2
    b3 = b3
    r1 = r1
    NoProc = NoProc
    Procs = {b1, b2, r1}
    Kind <- WithRefresh
    Profile = "team"
    EmitJsonl = FALSE
    KillAt <- Anywhere
    MaxRaw = 1
    MaxKills = 1
SPECIFICATION LiveSpec
INVARIANT NoStaleLock
PROPERTIES NonBlocking Terminates
