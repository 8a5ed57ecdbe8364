SPECIFICATION FairSpec
CONSTANTS
    Keys <- MCKeys
    Prefixes <- MCPrefixes
    PageSizes <- MCPageSizes
    Blocks = {b1, b2}
    Moving = moving
    NodeCap = 2
    DEFAULT_VIEW_STATE_PAGE_SIZE = 3
    DEFAULT_VIEW_ACCESS_KEYS_PAGE_SIZE = 2
INVARIANTS
    SnapshotExact
    NeverTooLarge
PROPERTIES
    ListingEnds
