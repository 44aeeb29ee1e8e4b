CONSTANTS
    w1 = w1
    w2 = w2
    main = main
    c1 = c1
    c2 = c2
    host = host
    Workers <- MCWorkers
    Nodes <- MCNodes
    Main = main
    Host = host
    ThreadName <- MCThreadName
    NodeName <- MCNodeName
    MaxOps = 1
SPECIFICATION Spec
PROPERTY OrphansReclaimed
PROPERTY ImplementsKeyedPool
