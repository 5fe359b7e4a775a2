CONSTANTS
    None = None
    IdentityFile <- MCIdentityFile
    BinaryFile <- MCBinaryFile
    Version = {v1, v2}
    FundedWallets = {v1}
SPECIFICATION FixtureSpec
INVARIANTS
    VerifiedIsConsistent
    TemporaryRemoved
PROPERTIES
    VerifyOnlyReads
