\* A relay queue of one and room for two outstanding numbers.
CONSTANTS
    step = step
    veto = veto
    watcher = watcher
    peer = peer
    Jobs = {step, veto, watcher}
    Relayed = {step, veto}
    Vetoes = {veto}
    Paced = {step, watcher}
    PartsOf <- MCPartsOf
    Peers = {peer}
    PeerOf <- MCPeerOf
    QueueSize = 1
    MaxOutstanding = 2
    Interval = 2
    AckTimeout = 2
SPECIFICATION FairSpec
INVARIANTS
    TypeOK
    EveryNumberOnce
    RoomForOutstanding
PROPERTIES
    OwnPartsPaced
    AcceptedJobsEnd
