CONSTANTS
    b1 = b1
    b2 = b2
    b3 = b3
    r1 = r1
    NoProc = NoProc
    Procs = {b1, b2, b3}
    Kind <- AllBuilds
    Profile = "personal"
    EmitJsonl = FALSE
    KillAt <- OutsideFetch
    MaxRaw = 2
    MaxKills = 2
SPECIFICATION Spec
SYMMETRY BuildSymmetry
INVARIANTS TypeOK NoConcurrentAccess DoneIsSnapshot PidNamesHolder
PROPERTY ImplementsExclusiveBuild
