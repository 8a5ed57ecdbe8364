CONSTANTS
    a = a
    b = b
    c = c
    d = d
    e = e
    NoSigner = NoSigner
    Sends = {a}
    Kind <- AllSend
    Url <- OneUrl
    Signers <- OneSigner
    SignerOf <- SameSigner
    KeysOf <- OneKey
    Empty = {}
    ExecutedLevel = {a}
    MaxNonceRetries = 3
    MaxRetries = 0
    U64 = 20
    ChainNonce0 = {0}
    MaxForeign = 0
    MaxExpiries = 3
SPECIFICATION Spec
INVARIANT ExpiredUsesRetries
