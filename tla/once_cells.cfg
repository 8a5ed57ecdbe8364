CONSTANTS
    Tasks = {t1, t2, t3}
    Clients = {original, clone}
    Process = process
    Free = free
    Balances = {1, 2}
    U128 = 4
    MaxUpgrades = 1
SPECIFICATION FairSpec
INVARIANTS OneInitializer AmountsAddUp CleanupMatches
PROPERTIES WriteOnce CallsReturn
