CONSTANTS
    e1 = e1
    e2 = e2
    e3 = e3
    e4 = e4
    picture = picture
    zip = zip
    bare = bare
    Entries = {e1, e2, e3, e4}
    Files = {picture, zip, bare}
    FileOf <- MCFileOf
    Policy <- MCPolicy
SPECIFICATION LiveSpec
INVARIANTS TypeOK AllAccounted WholeUnlessKilled
PROPERTIES NeverRefetched EventuallyDownloaded
