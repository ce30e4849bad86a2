CONSTANTS
    q1 = q1
    q2 = q2
    Requests = {q1, q2}
    MaxBuilds = 2
SPECIFICATION LiveSpec
INVARIANTS TypeOK HitOpens RowsAreLive
PROPERTY RebuildHeals
