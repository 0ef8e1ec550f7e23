CONSTANTS
    alice = alice
    BadAddress = BadAddress
    NoHash = NoHash
    UINT128_MAX = 3
    MaxEpoch = 1
    Commitments <- OneEpoch
    NamedFiles <- FirstFile
    GenericFiles <- NoFiles
    Attestations = {"unreadable"}
    Keys = {"p256"}
    Setups <- GoDaemon
    StartEpoch = 1
SPECIFICATION Spec
INVARIANTS UnreadableIsNotAbsent
CHECK_DEADLOCK FALSE
