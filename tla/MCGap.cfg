CONSTANTS
    alice = alice
    BadAddress = BadAddress
    NoHash = NoHash
    UINT128_MAX = 3
    MaxEpoch = 2
    Commitments <- TwoEpochs
    NamedFiles <- GoodFiles
    GenericFiles <- NoFiles
    Attestations = {}
    Keys = {}
    Setups <- PythonOnce
    StartEpoch = 1
SPECIFICATION Spec
PROPERTIES ExitZeroAllVerified
CHECK_DEADLOCK FALSE
