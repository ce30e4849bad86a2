CONSTANTS
    q1 = q1
    q2 = q2
    Requests = {q1}
    MaxBuilds = 2
SPECIFICATION Spec
INVARIANT DirectoriesAreLive
