-------------------------- MODULE NoethrionAttester --------------------------
(***************************************************************************)
(* contracts/src/NoethrionAttester.sol, composed with the token it mints.  *)
(*                                                                         *)
(* Validators propose a Merkle root per epoch and vote on it; anybody may  *)
(* finalize it once the quorum and the challenge window that were in force *)
(* at the proposal are met; anybody may then claim a leaf of the root, and *)
(* the attester mints the leaf's amount to the leaf's beneficiary.         *)
(*                                                                         *)
(* A transaction is atomic and a transaction that reverts has no effect:   *)
(* one action per entry point, guarded by the negation of its reverts.     *)
(* A Merkle root is abstracted to the set of leaves it commits to.  That   *)
(* is the collision resistance of keccak256: MerkleProof.verify accepts    *)
(* exactly the leaves the tree was built from.                             *)
(***************************************************************************)
EXTENDS NoethrionToken

CONSTANTS
    Attester,       \* address(this)
    Domains,        \* <chainid, attester> pairs a leaf can be built for
    ThisDomain,     \* <block.chainid, address(this)>
    Epochs,         \* the epoch numbers callers pass (uint64)
    Roots,          \* the Merkle roots callers pass, as sets of leaves
    TotalKwhs,      \* the totalKwh values callers pass
    UINT64_MAX,     \* type(uint64).max, scaled down
    InitThreshold,  \* constructor arguments
    InitWindow,
    Thresholds,     \* the arguments of setThreshold and setChallengeWindow,
    Windows,        \*   invalid ones included
    Evidence,       \* evidence hashes passed to slash
    NoEvidence,     \* bytes32(0)
    RoleOps,        \* <<role, account>> pairs that are granted, revoked, renounced
    MaxTime,        \* bound: the last block timestamp considered
    MaxProposeTime  \* bound: the last timestamp at which a batch is proposed

VARIABLES
    roles,          \* AccessControl storage
    paused,         \* Pausable storage
    tokenContract,
    challengeWindow,
    threshold,
    batches,        \* [Epochs -> AttestationBatch]
    voted,          \* [Epochs -> set of accounts flagged]
    voteCount,
    claimed,        \* set of leaves flagged
    slashEvidence,
    latestEpoch,
    now             \* block.timestamp

batchVars == <<batches, voted, voteCount, claimed, latestEpoch>>
paramVars == <<tokenContract, challengeWindow, threshold>>
gateVars  == <<roles, paused, slashEvidence>>
attesterVars == <<roles, paused, tokenContract, challengeWindow, threshold,
                  batches, voted, voteCount, claimed, slashEvidence, latestEpoch>>
vars == <<attesterVars, tokenVars, now>>

VALIDATOR_ROLE == "VALIDATOR_ROLE"
PAUSER_ROLE    == "PAUSER_ROLE"
AttesterRole   == {DEFAULT_ADMIN_ROLE, ADMIN_ROLE, VALIDATOR_ROLE, PAUSER_ROLE}

(* The preimage of a leaf hash. *)
Leaf == [domain : Domains, beneficiary : Accounts \cup {ZeroAddress},
         amount : Nat, epoch : Nat]

ASSUME DeploymentAssumption ==
    /\ Attester \in Accounts \ Callers
    /\ ThisDomain \in Domains
    /\ Epochs \subseteq Nat
    /\ IsFiniteSet(Epochs)
    /\ Roots \subseteq SUBSET Leaf
    /\ TotalKwhs \subseteq Nat
    /\ RoleOps \subseteq AttesterRole \X Accounts

ASSUME ParameterAssumption ==
    /\ UINT64_MAX \in Nat
    /\ MaxTime \in Nat
    /\ MaxProposeTime \in Nat
    /\ MaxProposeTime <= MaxTime
    /\ MaxTime <= UINT64_MAX      \* the clock does not pass 2^64 - 1 seconds
    /\ Thresholds \subseteq Nat
    /\ Windows \subseteq Nat
    /\ InitThreshold \in 1 .. UINT64_MAX
    /\ InitWindow \in 1 .. UINT64_MAX

Uint64(n) == n % (UINT64_MAX + 1)

AttestationBatch ==
    [merkleRoot : Roots \cup {{}}, epoch : Epochs \cup {0}, totalKwh : Nat, timestamp : Nat,
     proposer : Accounts \cup {ZeroAddress}, finalized : BOOLEAN,
     thresholdAtPropose : Nat, challengeWindowAtPropose : Nat]

(* The zero value of a mapping entry: an epoch nobody has proposed. *)
NoBatch ==
    [merkleRoot |-> {}, epoch |-> 0, totalKwh |-> 0, timestamp |-> 0,
     proposer |-> ZeroAddress, finalized |-> FALSE,
     thresholdAtPropose |-> 0, challengeWindowAtPropose |-> 0]

TypeOK ==
    /\ TokenTypeOK
    /\ roles \in [AttesterRole -> SUBSET Accounts]
    /\ paused \in BOOLEAN
    /\ tokenContract \in Tokens \cup {ZeroAddress}
    /\ challengeWindow \in 1 .. UINT64_MAX
    /\ threshold \in 1 .. UINT64_MAX
    /\ batches \in [Epochs -> AttestationBatch]
    /\ voted \in [Epochs -> SUBSET Accounts]
    /\ voteCount \in [Epochs -> Nat]
    /\ claimed \subseteq Leaf
    /\ slashEvidence \in [Accounts -> Evidence \cup {NoEvidence}]
    /\ latestEpoch \in Nat
    /\ now \in Nat \ {0}

Proposed(e)  == batches[e].timestamp # 0
Finalized(e) == batches[e].finalized
FinalizedEpochs == {e \in Epochs : Finalized(e)}

-----------------------------------------------------------------------------
(* The constructor. *)
Init ==
    /\ TokenInit
    /\ roles = [r \in AttesterRole |-> IF r = VALIDATOR_ROLE THEN {} ELSE {Admin}]
    /\ paused = FALSE
    /\ tokenContract = ZeroAddress
    /\ challengeWindow = InitWindow
    /\ threshold = InitThreshold
    /\ batches = [e \in Epochs |-> NoBatch]
    /\ voted = [e \in Epochs |-> {}]
    /\ voteCount = [e \in Epochs |-> 0]
    /\ claimed = {}
    /\ slashEvidence = [a \in Accounts |-> NoEvidence]
    /\ latestEpoch = 0
    /\ now = 1

BugIsValidatorAnyRole(caller) == \E r \in AttesterRole : HasRole(roles, r, caller)

(* onlyRole(VALIDATOR_ROLE). *)
IsValidator(caller) == HasRole(roles, VALIDATOR_ROLE, caller)

BugEpochFreeUntilFinal(e) == ~Finalized(e)
BugEpochFreeAgain(e) == ~Proposed(e) \/ Finalized(e)

(* First writer wins. *)
EpochFree(e) == ~Proposed(e)

(* proposeBatch(epoch, merkleRoot, totalKwh): the proposer's call is its vote. *)
ProposeBatch(caller, e, root, kwh) ==
    /\ now <= MaxProposeTime
    /\ IsValidator(caller)
    /\ ~paused
    /\ EpochFree(e)
    /\ batches' = [batches EXCEPT ![e] =
            [merkleRoot |-> root, epoch |-> e, totalKwh |-> kwh,
             timestamp |-> Uint64(now), proposer |-> caller, finalized |-> FALSE,
             thresholdAtPropose |-> Uint64(threshold),
             challengeWindowAtPropose |-> Uint64(challengeWindow)]]
    /\ voted' = [voted EXCEPT ![e] = @ \cup {caller}]
    /\ voteCount' = [voteCount EXCEPT ![e] = 1]
    /\ UNCHANGED <<claimed, latestEpoch, paramVars, gateVars, tokenVars, now>>

UnlocksAt(e) == batches[e].timestamp + batches[e].challengeWindowAtPropose

BugVotingClosesAtUnlock(e) == Proposed(e) /\ ~Finalized(e) /\ now < UnlocksAt(e)

(* A batch takes votes until it is final, after its window too. *)
VotingOpen(e) == Proposed(e) /\ ~Finalized(e)

BugMayVoteTwice(caller, e) == TRUE

(* One vote per validator and epoch. *)
NotVoted(caller, e) == caller \notin voted[e]

(* voteBatch(epoch). *)
VoteBatch(caller, e) ==
    /\ IsValidator(caller)
    /\ ~paused
    /\ VotingOpen(e)
    /\ NotVoted(caller, e)
    /\ voted' = [voted EXCEPT ![e] = @ \cup {caller}]
    /\ voteCount' = [voteCount EXCEPT ![e] = @ + 1]
    /\ UNCHANGED <<batches, claimed, latestEpoch, paramVars, gateVars, tokenVars, now>>

BugQuorumOfToday(e) == voteCount[e] >= threshold

(* The quorum is the one in force at the proposal. *)
QuorumReached(e) == voteCount[e] >= batches[e].thresholdAtPropose

BugWindowOfToday(e) == now >= batches[e].timestamp + challengeWindow

(* So is the window; the sum is taken in uint256. *)
WindowElapsed(e) == now >= UnlocksAt(e)

BugFinalizePaused(e) ==
    Proposed(e) /\ ~Finalized(e) /\ QuorumReached(e) /\ WindowElapsed(e)

MayFinalize(e) ==
    ~paused /\ Proposed(e) /\ ~Finalized(e) /\ QuorumReached(e) /\ WindowElapsed(e)

BugLatestIsLast(e) == e

LatestWith(e) == IF e > latestEpoch THEN e ELSE latestEpoch

(* finalizeBatch(epoch): permissionless. *)
FinalizeBatch(e) ==
    /\ MayFinalize(e)
    /\ batches' = [batches EXCEPT ![e].finalized = TRUE]
    /\ latestEpoch' = LatestWith(e)
    /\ UNCHANGED <<voted, voteCount, claimed, paramVars, gateVars, tokenVars, now>>

(* MerkleProof.verify: some proof takes the leaf to the root. *)
MerkleProofVerify(root, leaf) == leaf \in root

(* The leaf is derived inside the contract, with its domain and its epoch. *)
LeafHash(e, beneficiary, amount) ==
    [domain |-> ThisDomain, beneficiary |-> beneficiary, amount |-> amount, epoch |-> e]

BugClaimableWhenProposed(e) == Proposed(e)

Claimable(e) == Proposed(e) /\ Finalized(e)

BugClaimAgain(leaf) == TRUE

NotClaimed(leaf) == leaf \notin claimed

(* claim(epoch, proof, beneficiary, amount): permissionless.  The call to
   mint is part of the transaction: if it reverts, so does the claim. *)
Claim(e, beneficiary, amount) ==
    LET leaf == LeafHash(e, beneficiary, amount)
    IN  /\ ~paused
        /\ beneficiary # ZeroAddress
        /\ amount # 0
        /\ tokenContract # ZeroAddress
        /\ Claimable(e)
        /\ NotClaimed(leaf)
        /\ MerkleProofVerify(batches[e].merkleRoot, leaf)
        /\ claimed' = claimed \cup {leaf}
        /\ Mint(tokenContract, Attester, beneficiary, amount)
        /\ UNCHANGED <<batches, voted, voteCount, latestEpoch, paramVars, gateVars, now>>

-----------------------------------------------------------------------------
(* The admin entry points.  None of them is gated by paused. *)

(* setTokenContract(newToken): only an address that holds code. *)
SetTokenContract(caller, newToken) ==
    /\ HasRole(roles, ADMIN_ROLE, caller)
    /\ newToken # ZeroAddress
    /\ newToken \in Tokens
    /\ tokenContract' = newToken
    /\ UNCHANGED <<challengeWindow, threshold, batchVars, gateVars, tokenVars, now>>

BugOnlyNonZero(n) == n # 0

(* Positive, and within the uint64 of the snapshots. *)
FitsUint64(n) == n # 0 /\ n <= UINT64_MAX

(* setChallengeWindow(newWindow): for future proposals. *)
SetChallengeWindow(caller, newWindow) ==
    /\ HasRole(roles, ADMIN_ROLE, caller)
    /\ FitsUint64(newWindow)
    /\ challengeWindow' = newWindow
    /\ UNCHANGED <<tokenContract, threshold, batchVars, gateVars, tokenVars, now>>

(* setThreshold(newThreshold): for future proposals. *)
SetThreshold(caller, newThreshold) ==
    /\ HasRole(roles, ADMIN_ROLE, caller)
    /\ FitsUint64(newThreshold)
    /\ threshold' = newThreshold
    /\ UNCHANGED <<tokenContract, challengeWindow, batchVars, gateVars, tokenVars, now>>

(* slash(validator, evidenceHash): votes already cast are kept. *)
Slash(caller, validator, evidenceHash) ==
    /\ HasRole(roles, ADMIN_ROLE, caller)
    /\ validator # ZeroAddress
    /\ roles' = WithoutRole(roles, VALIDATOR_ROLE, validator)
    /\ slashEvidence' = [slashEvidence EXCEPT ![validator] = evidenceHash]
    /\ UNCHANGED <<paused, paramVars, batchVars, tokenVars, now>>

(* pause and unpause revert when there is nothing to change. *)
Pause(caller) ==
    /\ HasRole(roles, PAUSER_ROLE, caller)
    /\ ~paused
    /\ paused' = TRUE
    /\ UNCHANGED <<roles, slashEvidence, paramVars, batchVars, tokenVars, now>>

Unpause(caller) ==
    /\ HasRole(roles, PAUSER_ROLE, caller)
    /\ paused
    /\ paused' = FALSE
    /\ UNCHANGED <<roles, slashEvidence, paramVars, batchVars, tokenVars, now>>

(* The inherited public entry points of AccessControl. *)
GrantRole(caller, role, account) ==
    /\ MayAdminister(roles, caller)
    /\ roles' = WithRole(roles, role, account)
    /\ UNCHANGED <<paused, slashEvidence, paramVars, batchVars, tokenVars, now>>

RevokeRole(caller, role, account) ==
    /\ MayAdminister(roles, caller)
    /\ roles' = WithoutRole(roles, role, account)
    /\ UNCHANGED <<paused, slashEvidence, paramVars, batchVars, tokenVars, now>>

RenounceRole(role, account) ==
    /\ account \in Callers
    /\ roles' = WithoutRole(roles, role, account)
    /\ UNCHANGED <<paused, slashEvidence, paramVars, batchVars, tokenVars, now>>

(* The next block: timestamps only grow. *)
Tick ==
    /\ now < MaxTime
    /\ now' = now + 1
    /\ UNCHANGED <<attesterVars, tokenVars>>

-----------------------------------------------------------------------------
ValidatorStep(c) ==
    \/ \E e \in Epochs, root \in Roots, kwh \in TotalKwhs : ProposeBatch(c, e, root, kwh)
    \/ \E e \in Epochs : VoteBatch(c, e)

PublicStep ==
    \/ \E e \in Epochs : FinalizeBatch(e)
    \/ \E e \in Epochs, b \in Accounts \cup {ZeroAddress}, a \in Amounts : Claim(e, b, a)

AdminStep(c) ==
    \/ \E t \in Tokens \cup {ZeroAddress} : SetTokenContract(c, t)
    \/ \E w \in Windows : SetChallengeWindow(c, w)
    \/ \E n \in Thresholds : SetThreshold(c, n)
    \/ \E v \in Accounts, h \in Evidence : Slash(c, v, h)
    \/ Pause(c)
    \/ Unpause(c)

RoleStep ==
    \E op \in RoleOps :
        \/ \E c \in Callers : GrantRole(c, op[1], op[2])
        \/ \E c \in Callers : RevokeRole(c, op[1], op[2])
        \/ RenounceRole(op[1], op[2])

AttesterNext ==
    \/ \E c \in Callers : ValidatorStep(c) \/ AdminStep(c)
    \/ PublicStep
    \/ RoleStep

Next ==
    \/ AttesterNext
    \/ TokenNext /\ UNCHANGED <<attesterVars, now>>
    \/ Tick

Spec == Init /\ [][Next]_vars

(* Who must act for an epoch to progress: time passes, validators vote on what
   they see, and somebody (the call is permissionless) finalizes.  Nothing is
   assumed of the admins, the pausers and the proposers. *)
FairSpec ==
    /\ Spec
    /\ WF_vars(Tick)
    /\ \A e \in Epochs : WF_vars(FinalizeBatch(e))
    /\ \A e \in Epochs, c \in Callers : WF_vars(VoteBatch(c, e))

-----------------------------------------------------------------------------
(* Safety. *)

(* The tally and the per-validator flags are separate storage, written by
   proposeBatch (which resets the tally to 1) and voteBatch (which adds 1):
   they agree for every epoch. *)
VoteCountMatchesVoted ==
    \A e \in Epochs : voteCount[e] = Cardinality(voted[e])

(* finalizeBatch let no batch through without as many distinct voters as the
   threshold in force at its proposal, whatever setThreshold, slash and role
   changes happened in between; and never with none at all. *)
FinalizedHasQuorum ==
    \A e \in Epochs : Finalized(e) =>
        /\ batches[e].thresholdAtPropose >= 1
        /\ Cardinality(voted[e]) >= batches[e].thresholdAtPropose
        /\ batches[e].proposer \in voted[e]

(* No batch is final before its own challenge window, which is never empty,
   has elapsed, whatever setChallengeWindow did after the proposal. *)
FinalizedAfterWindow ==
    \A e \in Epochs : Finalized(e) =>
        /\ batches[e].challengeWindowAtPropose >= 1
        /\ now >= batches[e].timestamp + batches[e].challengeWindowAtPropose

(* latestEpoch is exactly the highest finalized epoch (0 when there is none),
   although epochs are proposed and finalized in any order. *)
LatestEpochIsMax ==
    /\ \A e \in Epochs : Finalized(e) => e <= latestEpoch
    /\ latestEpoch # 0 => latestEpoch \in Epochs /\ Finalized(latestEpoch)

(* Every leaf ever paid was built for this attester on this chain and is
   committed by the finalized root of the epoch it names. *)
ClaimedWasCommitted ==
    \A l \in claimed :
        /\ l.domain = ThisDomain
        /\ l.beneficiary # ZeroAddress
        /\ l.amount > 0
        /\ l.epoch \in Epochs
        /\ Finalized(l.epoch)
        /\ l \in batches[l.epoch].merkleRoot

(* The state of one epoch that its transactions maintain together: the tally
   agrees with the flags, an epoch nobody proposed is blank, a proposed one has a
   root, non-trivial terms and its proposer's vote, and a final one met its terms. *)
EpochSound(e) ==
    /\ voteCount[e] = Cardinality(voted[e])
    /\ ~Proposed(e) => voted[e] = {} /\ ~Finalized(e)
    /\ Proposed(e) =>
        /\ batches[e].merkleRoot \in Roots
        /\ batches[e].thresholdAtPropose >= 1
        /\ batches[e].challengeWindowAtPropose >= 1
        /\ batches[e].proposer \in voted[e]
    /\ Finalized(e) =>
        /\ voteCount[e] >= batches[e].thresholdAtPropose
        /\ now >= batches[e].timestamp + batches[e].challengeWindowAtPropose

(* The inductive invariant behind the safety properties above. *)
AttesterInv ==
    /\ TypeOK
    /\ SupplyCapped
    /\ \A e \in Epochs : EpochSound(e)
    /\ LatestEpochIsMax
    /\ ClaimedWasCommitted

(* The minting power stays with the attester. *)
OnlyAttesterMints ==
    /\ Minters \subseteq {Attester}
    /\ \A op \in TokenRoleOps : op[1] = MINTER_ROLE => op[2] = Attester

(* What was minted, over all the token instances the attester was ever pointed
   at, is exactly what the claimed leaves are worth: no leaf is paid twice
   across a setTokenContract, and none is marked claimed unpaid when mint()
   reverts at the cap or for a revoked minter. *)
SupplyMatchesClaims ==
    OnlyAttesterMints =>
        SumFunctionOnSet(totalSupply, Tokens)
            = SumFunctionOnSet([l \in claimed |-> l.amount], claimed)

(* Where only the attester is ever authorized, nobody else holds MINTER_ROLE. *)
OnlyAttesterHolds ==
    OnlyAttesterMints => \A t \in Tokens : tokenRoles[t][MINTER_ROLE] \subseteq {Attester}

(* The inductive invariant behind the issuance of the composed contracts. *)
IssuanceInv ==
    /\ IsFiniteSet(claimed)
    /\ OnlyAttesterHolds
    /\ SupplyMatchesClaims
    /\ SupplyIsHeld

-----------------------------------------------------------------------------
(* What a step may never do. *)

(* The terms of a batch are the ones in force when it was proposed, without
   loss in the uint64 casts. *)
ProposedOnTerms(e) ==
    /\ batches'[e].epoch = e
    /\ batches'[e].timestamp = now
    /\ batches'[e].thresholdAtPropose = threshold
    /\ batches'[e].challengeWindowAtPropose = challengeWindow
    /\ ~batches'[e].finalized

(* A batch is written once, on the terms in force, and after that only its
   finalized flag ever changes, from FALSE to TRUE: neither a second proposal
   nor a later setThreshold or setChallengeWindow rewrites it. *)
BatchWrittenOnce ==
    [][\A e \in Epochs :
          \/ batches'[e] = batches[e]
          \/ ~Proposed(e) /\ ProposedOnTerms(e)
          \/ Proposed(e) /\ ~Finalized(e)
              /\ batches'[e] = [batches[e] EXCEPT !.finalized = TRUE]
      ]_vars

(* A vote is cast by an account that holds VALIDATOR_ROLE at that moment, on a
   batch that is not final, and is never taken back: not by slash, not by a
   second proposal.  A slashed validator votes again only after a new grant. *)
VotesAreFinal ==
    [][\A e \in Epochs :
          /\ voted[e] \subseteq voted'[e]
          /\ voted'[e] # voted[e] =>
                /\ voted'[e] \ voted[e] \subseteq roles[VALIDATOR_ROLE]
                /\ ~Finalized(e)
      ]_vars

(* pause() holds everything a batch or a claim depends on: while paused no
   batch appears, gains a vote or becomes final, and no leaf is paid. *)
PauseFreezes ==
    [][paused => UNCHANGED batchVars]_vars

(* A claim and the attester's mint happen together: a step pays at most one
   leaf, to its beneficiary, in the token the attester points at; and where
   only the attester mints, no other step raises a supply. *)
ClaimPaysOneLeaf ==
    [][/\ claimed' # claimed =>
            \E l \in claimed' \ claimed :
                /\ claimed' = claimed \cup {l}
                /\ tokenContract \in Tokens
                /\ totalSupply' = [totalSupply EXCEPT ![tokenContract] = @ + l.amount]
                /\ balanceOf' = [balanceOf EXCEPT ![tokenContract][l.beneficiary] = @ + l.amount]
       /\ OnlyAttesterMints /\ claimed' = claimed => totalSupply' = totalSupply
      ]_vars

-----------------------------------------------------------------------------
(* Liveness. *)

(* A proposed batch becomes final once the contract stays unpaused and some
   group of accounts as large as the batch's threshold has voted or keeps the
   validator role.  Slashing below that size can block the epoch for good. *)
EventuallyFinalized ==
    \A e \in Epochs, Q \in SUBSET Callers :
        <>[](/\ Proposed(e)
             /\ ~paused
             /\ Cardinality(Q) >= batches[e].thresholdAtPropose
             /\ Q \subseteq voted[e] \cup roles[VALIDATOR_ROLE])
        => <>Finalized(e)
-----------------------------------------------------------------------------
(* Refinement. *)

Ledger == INSTANCE AttestationLedger WITH
    OtherIssuers <- ~OnlyAttesterMints,
    register <- [e \in FinalizedEpochs |-> batches[e].merkleRoot],
    redeemed <- claimed,
    issued   <- totalSupply,
    frozen   <- paused

(* The contracts implement the ledger: proposing and voting are invisible,
   finalizeBatch commits the root, claim redeems a leaf and the token's own
   cap and minter checks only ever restrict it. *)
ImplementsLedger == Ledger!LedgerSpec
=============================================================================
