SPECIFICATION FairSpec
CONSTANTS
    p1 = p1
    Peers = {p1}
    TopicLists <- AllTopics
    RawKinds = {"Dialed", "Accepted", "Disconnected", "RPC", "Gossip", "Subscribed", "Discovered", "Expired"}
    MaxRaw = 3
INVARIANTS
    NoLostWork
    InOrder
PROPERTIES
    WorkMovesOn
CHECK_DEADLOCK FALSE
