CONSTANTS
    r1 = r1
    m1 = m1
    spl_governance = spl_governance
    system_program = system_program
    EntrosAnchor = EntrosAnchor
    DefaultPubkey = DefaultPubkey
    None = None
    Key = {alice}
    Realm = {r1}
    Mint = {m1}
    Program = {spl_governance, system_program, EntrosAnchor}
    Target = {DefaultPubkey, p1, p2}
    I64_MAX = 3
    U64_MAX = 4
    GovernanceOf <- MCGovernanceOf
    CommunityMint <- MCCommunityMint
    IdentityAccount <- MCIdentityAccount
    FirstSlot = 0
    FirstTime = 0
    LAST_TIME = 2
    TimeStep = {0, 2}
    InitialLamports = 0
    MinTrustScoreArg = {0, 1}
    MaxVerificationAgeArg = {2}
    RENT_REGISTRAR = 0
    VOTER_WEIGHT_EXPIRY_SLOT_WINDOW = 2
    WeightActionArg = {"CastVote", "CommentProposal"}
    RENT_VWR = 0
SPECIFICATION UseSpec
INVARIANTS
    RevocationBound
    AcceptedAsRequested
