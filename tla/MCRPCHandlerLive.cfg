SPECIFICATION FairSpec
CONSTANTS
    r1 = r1
    r2 = r2
    r3 = r3
    NoRequest = NoRequest
    Requests = {r1}
    Ids = {0}
    IdOf <- SoleIdOf
    KindOf <- SoleKindOf
    Responses = {"Chunk", "Error"}
    max_dial_negotiated = 2
    IO_ERROR_RETRIES = 3
    MaxInbound = 1
    MaxResponses = 2
    MaxChunks = 1
    MaxGoodbyes = 1
INVARIANTS
    FirstErrorIsLast
PROPERTIES
    Released
    Served
