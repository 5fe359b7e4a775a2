CONSTANTS
    None = None
    GovernanceProgram = 10
    Realm = 11
    Mint = 12
    Owner = {0, 1, 13}
    Target = {11, 14}
    Number = {0, 1, 5}
    VoterTag = 20
    MaxTag = 21
    RegistrarTag = 22
SPECIFICATION CodecSpec
INVARIANTS
    ReadsBackUnlessTag
    AlwaysFits
    ClientOffsets
