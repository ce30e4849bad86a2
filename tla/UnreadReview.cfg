CONSTANTS
    a = a
    b = b
    m1 = m1
    m2 = m2
    alice = alice
    bob = bob
    Reviewers = {alice, bob}
    Chats = {a, b}
    Messages = {m1, m2}
    Chat <- RaceChat
    Ts <- RaceTs
    MaxTs = 2
    MaxLost = 2
SPECIFICATION Spec
SYMMETRY ReviewerSymmetry
INVARIANTS TypeOK NothingBuried AckedWasSeen AckedStaysBelow
PROPERTY NeverBackwards
