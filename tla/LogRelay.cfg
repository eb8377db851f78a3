SPECIFICATION FairSpec
CONSTANTS
    MaxLine = 9
    BufFloor = 4
    Keys = {"cid", "host", "a"}
    HostKeys = {"host", "cid", "type", "a"}
    Streams <- SomeStreams
    Objects <- SomeObjects
INVARIANTS FramingRight EnrichedRight
PROPERTY NeverWedges
CHECK_DEADLOCK FALSE
