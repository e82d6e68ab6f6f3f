\* Two flows at two servers, one of which knows clients by their port.
SPECIFICATION FairSpec
CONSTANTS
    Flow = {f1, f2}
    NoFlow = NoFlow
    NoAnswer = NoAnswer
    Server = {s1, s2}
    Supported = {s1, s2}
    Guarded = {s1, s2}
    FixedPort = {s2}
    Port = {p1, p2}
    NoPort = NoPort
INVARIANTS
    TokensAreKept
PROPERTIES
    FlowEnds
CHECK_DEADLOCK FALSE
