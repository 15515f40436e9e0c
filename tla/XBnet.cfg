SPECIFICATION FairSpec
CONSTANTS
    NShader = 2
    NMem = 2
    InBufferLimit = 2
    OutBufferLimit = 1
    Arbiters <- MCArbiters
    Traffic <- MCTraffic
    Payload = {"a", "b"}
PROPERTIES ImplementsLinks NobodyStarves
