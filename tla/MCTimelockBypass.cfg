CONSTANTS
    deployerKey = deployerKey
    safe = safe
    timelock = timelock
    attester = attester
    v1 = v1
    v2 = v2
    v3 = v3
    ZeroAddress = ZeroAddress
    Accounts <- MCAccounts
    Callers <- MCCallers
    Tokens = {t1}
    Admin = deployerKey
    MAX_SUPPLY = 2
    Amounts = {0, 1, 2}
    TransferAmounts = {0, 1}
    Minters <- MCMinters
    TokenRoleOps <- MCTokenRoleOps
    Plans <- OnePlan
    Contracts <- MCContracts
    AttesterAddress = attester
    MinDelay = 2
    UINT64_MAX = 4
    MaxTime = 4
    SafeOps <- MCSafeOps
SPECIFICATION Spec
PROPERTIES MinterRotationDelayed
CHECK_DEADLOCK FALSE
