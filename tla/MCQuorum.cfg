CONSTANTS
    admin = admin
    attester = attester
    v1 = v1
    v2 = v2
    v3 = v3
    here = here
    elsewhere = elsewhere
    ZeroAddress = ZeroAddress
    NoEvidence = NoEvidence
    Accounts <- ThreeValidators
    Callers <- Transactors3
    Tokens = {}
    Admin = admin
    MAX_SUPPLY = 0
    Amounts = {}
    TransferAmounts = {}
    Minters <- NoOps
    TokenRoleOps <- NoOps
    Attester = attester
    Domains = {here, elsewhere}
    ThisDomain = here
    Epochs = {1}
    Roots <- SomeRoot
    TotalKwhs = {1}
    UINT64_MAX = 3
    InitThreshold = 2
    InitWindow = 1
    Thresholds = {0, 1, 2, 5}
    Windows = {}
    Evidence = {h1}
    RoleOps <- ThreeValidatorOps
    MaxTime = 3
    MaxProposeTime = 1
SPECIFICATION FairSpec
INVARIANTS TypeOK VoteCountMatchesVoted FinalizedHasQuorum
PROPERTIES VotesAreFinal EventuallyFinalized
CHECK_DEADLOCK FALSE
