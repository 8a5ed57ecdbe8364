CONSTANTS
    Methods = {"query", "send_tx"}
    MaxRetries = 3
    InitialDelay = 5
    MaxDelay = 15
    U32 = 8
    U64 = 1024
SPECIFICATION Spec
INVARIANTS TypeOK NeverRepeatsDecided TransientUsesAttempts ShapeIndependent DelaysGrow
CHECK_DEADLOCK FALSE
