SPECIFICATION Spec
CONSTANTS
    r1 = r1
    r2 = r2
    r3 = r3
    NoRequest = NoRequest
    Requests = {r1, r2, r3}
    Ids = {0, 1}
    IdOf <- SharedIdOf
    KindOf <- MixedKindOf
    Responses = {}
    max_dial_negotiated = 8
    IO_ERROR_RETRIES = 3
    MaxInbound = 0
    MaxResponses = 0
    MaxChunks = 2
    MaxGoodbyes = 0
INVARIANTS
    NoPanic
    DialAccounting
    NothingAfterFinal
    DrivenToCompletion
    LetGoWhenQuiet
PROPERTIES
    FailureShadowed
