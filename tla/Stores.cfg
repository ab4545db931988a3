SPECIFICATION PartsSpec
CONSTANTS
    Keys = {k1, k2}
    Tags = {t1}
    Clients = {c1, c2}
    TagsOf <- MCTagsOf
    MaxEntries = 1
    MaxVersion = 2
    t1 = t1
    Limit = 2
    Duration = 3
    Ids = {s1, s2}
    Fields = {f1}
    RoomNames = {r1, r2}
    AgeBuckets = 3
    BucketSize = 3
    MaxIdle = 10
INVARIANTS
    WindowLimit
    RetryAfterHonest
    TagIndexCovers
    Fresh
    SignOutHolds
    RoomsReach
    WindowKept
PROPERTIES
    Persistent
    StaleEnds
    ImplementsLife
