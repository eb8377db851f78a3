SPECIFICATION Spec
CONSTANTS
    Labels <- SomeLabels
    Starred = {"*", "x*"}
    LowerLabel <- SomeLower
    Files <- SomeFiles
    CIDs = {2, 3, 4}
    Requests <- SomeRequests
    HostHeaders <- SomeHeaders
    Names <- SomeNames
    MaxLoads = 3
    PortAny = 9
    HelloFixed = 2
    MaxFragment = 29
INVARIANTS WalkInBounds AcceptedFilesServe RoutedByName EgressByPolicy CountedOnce
