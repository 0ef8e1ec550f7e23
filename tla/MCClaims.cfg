CONSTANTS
    admin = admin
    attester = attester
    v1 = v1
    v2 = v2
    v3 = v3
    here = here
    elsewhere = elsewhere
    ZeroAddress = ZeroAddress
    NoEvidence = NoEvidence
    Accounts <- TwoValidators
    Callers <- Transactors2
    Tokens = {t1, t2}
    Admin = admin
    MAX_SUPPLY = 2
    Amounts = {0, 1, 2}
    TransferAmounts = {1}
    Minters <- AttesterOnly
    TokenRoleOps <- NoOps
    Attester = attester
    Domains = {here, elsewhere}
    ThisDomain = here
    Epochs = {1, 2}
    Roots <- ClaimRoots
    TotalKwhs = {1}
    UINT64_MAX = 3
    InitThreshold = 1
    InitWindow = 2
    Thresholds = {2, 5}
    Windows = {0, 1, 4}
    Evidence = {}
    RoleOps <- GovernanceOps
    MaxTime = 2
    MaxProposeTime = 2
SPECIFICATION Spec
INVARIANTS FinalizedAfterWindow LatestEpochIsMax ClaimedWasCommitted SupplyMatchesClaims
PROPERTIES BatchWrittenOnce PauseFreezes ClaimPaysOneLeaf ImplementsLedger
CHECK_DEADLOCK FALSE
