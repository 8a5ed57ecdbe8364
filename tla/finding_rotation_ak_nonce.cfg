CONSTANTS
    a = a
    b = b
    c = c
    d = d
    e = e
    NoSigner = NoSigner
    Sends = {a}
    Kind <- AllSend
    Url <- OneUrl
    Signers <- OneSigner
    SignerOf <- SameSigner
    KeysOf <- TwoKeys
    Empty = {}
    ExecutedLevel = {a}
    MaxNonceRetries = 1
    MaxRetries = 0
    U64 = 20
    ChainNonce0 = {0, 3}
    MaxForeign = 1
    MaxExpiries = 0
SPECIFICATION Spec
INVARIANT SignedAboveView
