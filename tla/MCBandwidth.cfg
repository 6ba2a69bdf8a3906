SPECIFICATION LiveSpec
CONSTANTS
    Partitions = {p1, p2}
    Nodes <- MCNodes
    Hosts = {h1, h2}
    Batches <- MCBatches
    NoPacket = NoPacket
    MaxBatches = 3
INVARIANTS BandwidthTypeOK CountedOnce PacketConsistent
PROPERTIES CountsReported
