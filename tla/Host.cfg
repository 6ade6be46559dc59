SPECIFICATION Spec
CONSTANTS
    c1 = c1
    c2 = c2
    e1 = e1
    e2 = e2
    n1 = n1
    n2 = n2
    Callers <- TwoCallers
    Opener = Opener
    Envs <- TwoEnvs
    NoEnv = NoEnv
    Names <- TwoNames
    NoName = NoName
    Kinds <- BothKinds
    MaxRequests = 4
    MaxFaults = 2
SYMMETRY Peers
CHECK_DEADLOCK FALSE
INVARIANT TypeOK
INVARIANT DiskIsWhole
INVARIANT OneName
INVARIANT AnsweredSurvives
INVARIANT StaysGone
 
INVARIANT RoomsAreOwned
PROPERTY IdentityKept
