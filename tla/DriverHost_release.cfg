CONSTANT
    MaxRequests = 5
SPECIFICATION HostSpec
INVARIANT
    DisposeReleases
CHECK_DEADLOCK FALSE
