CONSTANTS
    a = a
    b = b
    c = c
    d = d
    e = e
    NoSigner = NoSigner
    Sends = {a, b}
    Kind <- AllSend
    Url <- OneUrl
    Signers <- OneSigner
    SignerOf <- SameSigner
    KeysOf <- TwoKeys
    Empty = {}
    ExecutedLevel = {a, b}
    MaxNonceRetries = 1
    MaxRetries = 1
    U64 = 20
    ChainNonce0 = {0}
    MaxForeign = 1
    MaxExpiries = 1
SPECIFICATION FairSpec
PROPERTY EverySendReturns
