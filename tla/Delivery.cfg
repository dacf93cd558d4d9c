SPECIFICATION Spec
CONSTANTS
    MaxInt = 31
    Second = 4
    Config <- MCConfig
    Default <- MCDefault
    WorkerDefault <- MCWorkerDefault
    Status <- MCStatus
    Header <- MCHeader
INVARIANTS
    JitterBounded
    HonoursRetryAfter
    RequestsBounded
    RetriesMatch
PROPERTIES
    RepeatsOnlyTransient
