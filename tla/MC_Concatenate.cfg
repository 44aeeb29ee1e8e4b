CONSTANTS
    a = a
    b = b
    nopath = nopath
    Paths <- MCPaths
    NoPath = nopath
    MaxCfgLines = 2
    MaxPageLines = 2

SPECIFICATION Spec

INVARIANT TypeOK
INVARIANT DocumentFollowsConfig
