SPECIFICATION Spec
CONSTANTS
    r1 = r1
    r2 = r2
    r3 = r3
    NoRequest = NoRequest
    Requests = {}
    Ids = {}
    IdOf <- EmptyOf
    KindOf <- EmptyOf
    Responses = {"Chunk", "Termination"}
    max_dial_negotiated = 8
    IO_ERROR_RETRIES = 3
    MaxInbound = 2
    MaxResponses = 3
    MaxChunks = 2
    MaxGoodbyes = 0
INVARIANTS
    NoPanic
    HandedOverWhileAnswerable
PROPERTIES
    AnswersInOrder
