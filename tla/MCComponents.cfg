\* A question is asked once, and the bounded components run out of things to do.
CONSTANTS
    Addrs = {a1, a2, a3, a4}
    NoAddr = NoAddr
    Given = {{}, {a1}, {a1, a2}}
    KeyStoreMayFail = TRUE
    Frames = {f1, f2}
    MaxSent = 3
    MaxGot = 4
    Pieces = 3
    Peers = {p1, p2, p3}
    max_fil_peers = 2
    MaxQueue = 3
    Threads = {t1, t2}
    Workers = {worker}
    Queriers = {q1, q2}
    BatchSize = 2
    Modulus = 64
    MaxJobs = 1
    MaxHits = 1
    MaxQueries = 2
    U64_MAX = 536870911
    TOTAL_FILECOIN = 3
    BLOCK_GAS_LIMIT = 12
    LaterPrices <- TwoLaterPrices
    Topics <- AllTopics
    Questions <- BoundedQuestions
SPECIFICATION MCSpec
CHECK_DEADLOCK FALSE
INVARIANTS
    PromisedStored
    DefaultKept
    KeysFormTree
    ValuesComeBack
    CborComesBack
    TipsetsAgree
    MessagesPaid
    CodecFaithful
    BitFieldsComeBack
    ManagedPeersFollow
    AllReadTheSameParams
PROPERTIES
    StatsExact
