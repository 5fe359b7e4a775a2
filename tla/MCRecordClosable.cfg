CONSTANTS
    r1 = r1
    m1 = m1
    spl_governance = spl_governance
    EntrosAnchor = EntrosAnchor
    DefaultPubkey = DefaultPubkey
    None = None
    Key = {alice, bob}
    alice = alice
    bob = bob
    KeyHead <- MCKeyHead
    KeyTag <- MCKeyTag
    Realm = {r1}
    Mint = {m1}
    Program = {spl_governance, EntrosAnchor}
    Target = {DefaultPubkey, p1}
    I64_MAX = 1
    U64_MAX = 2
    GovernanceOf <- MCGovernanceOf
    CommunityMint <- MCCommunityMint
    IdentityAccount <- MCIdentityAccount
    FirstSlot = 1
    FirstTime = 0
    LAST_TIME = 0
    TimeStep = {0}
    InitialLamports = 6
    MinTrustScoreArg = {1}
    MaxVerificationAgeArg = {1}
    RENT_REGISTRAR = 1
    VOTER_WEIGHT_EXPIRY_SLOT_WINDOW = 1
    WeightActionArg = {"CastVote"}
    RENT_VWR = 2
    MaxVoterWeightArg = {1}
    RENT_MAX = 4
SPECIFICATION PluginSpec
INVARIANT
    RecordClosable
