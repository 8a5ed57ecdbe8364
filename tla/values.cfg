CONSTANTS
    Accounts = {"v", "w"}
    MaxOps = 2
    Urls = {"my url"}
    ChainIds = {"c"}
    MaxSigners = 3
    BlockIds = {"1", "2"}
    MaxRefs = 2
    AccountLengths = {2, 13, 32, 63, 64}
    Contents = {"b", "c"}
    MaxTime = 2
    KeyNames = {"k1", "k2"}
    MaxPath = 5
    Modulus = 1024
    NearDecimals = 2
    MilliDecimals = 1
    MaxDecimals = 10
    MaxBalance = 5
    MaxNested = 2
    MaxUrl = 5
    MaxChunks = 2
    MaxItems = 2
SPECIFICATION ValuesSpec
INVARIANTS
    BuildsWhatWasWritten ConfiguredAsAsked AnswersTheQuestion SignedForOneUse KeysKeepTheirIdentity
    AmountsAreExact ViewsAreHonest ExchangesAreWhole GeneratedAsDeclared
CHECK_DEADLOCK FALSE
