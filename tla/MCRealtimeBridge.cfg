SPECIFICATION BridgeSpec
CONSTANTS
    g1 = g1  g2 = g2  n1 = n1  n2 = n2
    Nodes = {n1, n2}
    Emitters = {g1, g2}
    Home <- TwoHomes
    MaxEvents <- TwoAndOne
    BroadcastCap = 1
    PublishCap = 1
    Retries = 1
    MaxBreaks = 1
CHECK_DEADLOCK FALSE
INVARIANTS
    EmitterOrder
PROPERTIES
    ReachesEveryone
