CONSTANTS
    Dir = "TX"
    NumTs = 3
    Addrs = {a1, a2}
    Group = group
    TIDs <- MCTIDs
SYMMETRY MCPeers
SPECIFICATION PoolSpec
INVARIANTS
    
    StreamsServed
PROPERTIES
    KeepsRecord
