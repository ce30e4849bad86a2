CONSTANTS
    t1 = t1
    t2 = t2
    home = home
    thread = thread
    Tabs = {t1, t2}
    Paths = {home, thread}
    Root = home
    MaxLosses = 1
    None = None
SPECIFICATION LiveSpec
INVARIANTS TypeOK LandsWhereAsked
PROPERTY EveryTabArrives
