CONSTANTS
    alice = alice
    bob = bob
    BadAddress = BadAddress
    NoHash = NoHash
    UINT128_MAX = 4
    MaxEpoch = 1
    Commitments <- OneEpochCommitments
    NamedFiles <- AllFiles
    GenericFiles <- AllFiles
    Attestations = {"unreadable", "malformed", "wrongalg", "empty", "prefixed", "forged", "valid"}
    Keys = {"unreadable", "malformed", "p256"}
SPECIFICATION WorldSpec
INVARIANTS OkIsBacked OkIsSignedOrUnsigned NodesAgreeOnPlainFiles
