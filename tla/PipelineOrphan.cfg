CONSTANTS
    b1 = b1
    b2 = b2
    b3 = b3
    r1 = r1
    NoProc = NoProc
    Procs = {b1, b2}
    Kind <- AllBuilds
    Profile = "personal"
    EmitJsonl = FALSE
    KillAt <- DuringFetch
    MaxRaw = 2
    MaxKills = 1
SPECIFICATION Spec
INVARIANT NoConcurrentAccess
