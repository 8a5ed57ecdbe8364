CONSTANTS
    a = a
    b = b
    c = c
    d = d
    e = e
    NoSigner = NoSigner
    Sends = {a, b, c, d, e}
    Kind <- MixedKinds
    Url <- OneUrl
    Signers <- OneSigner
    SignerOf <- NoneForE
    KeysOf <- TwoKeys
    Empty = {d}
    ExecutedLevel = {a}
    MaxNonceRetries = 1
    MaxRetries = 0
    U64 = 4
    ChainNonce0 = {0, 2}
    MaxForeign = 0
    MaxExpiries = 0
SPECIFICATION Spec
INVARIANT SendsAreSafe
