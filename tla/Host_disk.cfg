SPECIFICATION Spec
CONSTANTS
    c1 = c1
    c2 = c2
    e1 = e1
    e2 = e2
    n1 = n1
    n2 = n2
    Callers <- TwoCallers
    Opener = Opener
    Envs <- TwoEnvs
    NoEnv = NoEnv
    Names <- TwoNames
    NoName = NoName
    Kinds <- OnlyDocker
    MaxRequests = 2
    MaxFaults = 1
CHECK_DEADLOCK FALSE
INVARIANT NeverHalf
