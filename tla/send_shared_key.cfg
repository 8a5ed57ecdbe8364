CONSTANTS
    a = a
    b = b
    c = c
    d = d
    e = e
    NoSigner = NoSigner
    Sends = {a, b}
    Kind <- AllSend
    Url <- OneUrl
    Signers <- OneSigner
    SignerOf <- SameSigner
    KeysOf <- OneKey
    Empty = {}
    ExecutedLevel = {a, b}
    MaxNonceRetries = 2
    MaxRetries = 1
    U64 = 20
    ChainNonce0 = {0}
    MaxForeign = 1
    MaxExpiries = 1
SPECIFICATION Spec
INVARIANTS NoCollision AtMostOnce NonceErrorIsFinal RetriesArePaidFor
PROPERTY UsesNonceManager
SYMMETRY Interchangeable
