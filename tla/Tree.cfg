SPECIFICATION Spec
CONSTANTS
    e1 = e1
    e2 = e2
    s1 = s1
    s2 = s2
    Envs = {e1, e2}
    Made = {e1}
    Sessions = {s1}
    EnvOf <- InTheFirst
    Requesters = {r1}
    Followers = {f1}
    NoEnv = NoEnv
    NoSession = NoSession
    NewsBacklog = 1
    MaxRequests = 2
    MaxChances = 1
INVARIANT WrongOnlyKnownWays
INVARIANT SocketKept
INVARIANT NoneLeftRunning
