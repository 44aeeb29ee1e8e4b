CONSTANTS
    NodeSeq <- MCNodeSeq
    MaxAttempts = 5
    MaxProbes = 2
SPECIFICATION Spec
INVARIANT FreshCluster
