CONSTANTS
    a = a
    b = b
    c = c
    d = d
    Nodes = {a, b, c, d}
    Peers <- MCMesh
    Asked = {a}
    MaxPeers = 2
    MaxDepth = 2
    PoolSize = 1
    MaxHops = 2
SPECIFICATION FairSpec
INVARIANTS
    TypeOK
PROPERTIES
    EveryCallEnds
