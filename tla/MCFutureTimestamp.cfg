CONSTANTS
    alice = alice
    bob = bob
    system_program = system_program
    EntrosAnchor = EntrosAnchor
    DefaultPubkey = DefaultPubkey
    None = None
    Key <- MCKey
    Program <- MCProgram
    Realm = {}
    Mint = {}
    Target = {DefaultPubkey}
    I64_MAX = 3
    U64_MAX = 3
    FirstTime = 0
    Config <- MCConfig
    Identity <- MCIdentity
SPECIFICATION Spec
INVARIANT
    FutureTimestampRejected
CHECK_DEADLOCK FALSE
