CONSTANTS
    general = general
    direct = direct
    group = group
    unlisted = unlisted
    Threads = {1, 3, 6, 7, 8, 9}
    Channel <- MCChannel
    Senders <- MCSenders
    Accounts <- MCAccounts
    ChannelRows <- MCChannelRows
    Include = {"channel", "dm"}
    Deltas <- MCDeltas
    MaxDeltas = 3
    MaxCrashes = 1
    Limit = 1
    NoFile = NoFile
    None = None
    Torn = Torn
SPECIFICATION Spec
INVARIANTS TypeOK HandlesBounded FilesHoldNewest IndexMatchesFiles PagesAgree GroupsAgree SearchAgrees
