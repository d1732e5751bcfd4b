CONSTANTS
    a = a
    b = b
    c = c
    d = d
    Nodes = {a, b}
    Peers <- MCPair
    Asked = {a}
    MaxPeers = 1
    MaxDepth = 2
    PoolSize = 2
    MaxHops = 4
SPECIFICATION Spec
INVARIANTS
    DepthLimited
