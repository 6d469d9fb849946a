CONSTANTS
    s1 = s1
    s2 = s2
    s3 = s3
    Services <- MCServices
    NoSvc = NoSvc
    RegSize = 4
    ChIds = {1, 2}
    MaxChannels = 2
    SerialSetup = FALSE
    MaxCalls = 8
    MaxConns = 2
    MaxFrames = 2

SYMMETRY MCSymmetry

SPECIFICATION Spec

INVARIANTS
    TypeOK
    DispatchResolves

CHECK_DEADLOCK FALSE
