CONSTANTS
    Accounts = {"a", "b"}
    Calls = {"c", "d"}
    Asked <- MCAsked
    Amounts = {0, 1}
    InitialAmount = 0
    MaxPolls = 2
    MaxCopies = 2
    MaxTransactions = 1
    MaxLost = 1
SPECIFICATION Spec
INVARIANTS TypeOK OnlyTheBalance SecondSendSuffices ReadsItsBalance
PROPERTY CallsReturn
