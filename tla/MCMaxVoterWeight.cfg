CONSTANTS
    r1 = r1
    r2 = r2
    m1 = m1
    m2 = m2
    spl_governance = spl_governance
    other_governance = other_governance
    EntrosAnchor = EntrosAnchor
    DefaultPubkey = DefaultPubkey
    None = None
    Key = {alice, bob}
    Realm = {r1, r2}
    Mint = {m1, m2}
    Program = {spl_governance, other_governance, EntrosAnchor}
    Target = {DefaultPubkey}
    I64_MAX = 2
    U64_MAX = 1
    GovernanceOf <- MCGovernanceOf
    CommunityMint <- MCCommunityMint
    IdentityAccount <- MCIdentityAccount
    FirstSlot = 1
    FirstTime = 0
    LAST_TIME = 0
    TimeStep = {0}
    InitialLamports = 0
    MinTrustScoreArg = {0}
    MaxVerificationAgeArg = {0, 1, 2}
    RENT_REGISTRAR = 0
    MaxVoterWeightArg = {0, 1}
    RENT_MAX = 0
SYMMETRY KeySymmetry
SPECIFICATION MaxSpec
INVARIANTS
    RegistrarSound
    LiveQuorumPositive
PROPERTIES
    FrozenWithoutAuthority
    ChangesOnlyWithMint
    QuorumStaysSet
    QuorumNeedsRegistrar
