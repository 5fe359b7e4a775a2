CONSTANTS
    None = None
    Harness = {h1, h2}
    READY_PROBES = 3
    PORT_CHECKS = 2
    MAX_SIGNALS = 2
SPECIFICATION HarnessSpec
INVARIANTS
    IsolatedLedger
CHECK_DEADLOCK FALSE
