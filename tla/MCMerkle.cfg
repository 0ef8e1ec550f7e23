CONSTANTS
    alice = alice
    bob = bob
    carol = carol
    here = here
    elsewhere = elsewhere
    BadAddress = BadAddress
    NoHash = NoHash
    UINT128_MAX = 8
    UINT256_MAX = 20
    Domains = {here, elsewhere}
    ThisDomain = here
    EPOCH = 1
    Inputs <- MCInputs
SPECIFICATION Spec
INVARIANTS ProofsLeadToLevel OnlyListedReplay VerifiersAccept ClaimsAreOfTheProposal ClaimsWithinTotal
