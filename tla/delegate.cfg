CONSTANTS
    a = a
    b = b
    c = c
    e = e
    x = x
    NoSigner = NoSigner
    Futures = {a, b, c, e}
    Strangers = {x}
    StrangerAsked <- MCStranger
    Senders <- MCSenders
    SenderOf <- MCSenderOf
    KeysOf <- MCKeysOf
    Asked <- MCAsked
    NonceOption <- MCNonce
    HeightOption <- MCHeight
    Offset <- MCOffset
    OverflowChecks = TRUE
    U64 = 6
    MaxHeight = 1
    MaxOther = 1
    MaxRelays = 2
SPECIFICATION Spec
INVARIANTS TypeOK SharedOnlyInOverlap UsableUntilOvertaken PayloadsAsAsked
CHECK_DEADLOCK FALSE
