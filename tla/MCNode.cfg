CONSTANTS
    alice = alice
    BadAddress = BadAddress
    NoHash = NoHash
    UINT128_MAX = 3
    MaxEpoch = 2
    Commitments <- TwoEpochs
    NamedFiles <- GoodFiles
    GenericFiles <- LatestFiles
    Attestations = {"unreadable", "valid"}
    Keys = {"p256"}
    Setups <- AllSetups
    StartEpoch = 1
SPECIFICATION FairSpec
INVARIANTS NodeTypeOK ExitCodeHonest NoFalseAlarm
PROPERTIES ConcludesFailClosed EventuallyVerified KeepsAlarming AdvanceOnlyOnProof
CHECK_DEADLOCK FALSE
