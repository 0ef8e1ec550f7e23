# Noethrion: a TLA+ verification project

This directory models the parts of Noethrion that carry its guarantees: the two
contracts that turn attested kWh into NOET and the script that puts them into
service, the tools that make keys, signatures and batches, and the verifiers that
check what operators publish against what the chain committed to. TLC checks small
instances; TLAPS proves nearly all of the safety properties for every value of the
constants.

```
tlc -workers 2 -config MCQuorum.cfg MCAttester     # one run; PROJECT.json lists them all
tlapm NoethrionAttesterProofs.tla                  # the proofs
```

## The system

| Component | State | Operations | Talks to |
|---|---|---|---|
| `contracts/src/NoethrionAttester.sol` | batches, votes, claimed leaves, latest epoch, parameters, roles, pause flag | proposeBatch, voteBatch, finalizeBatch, claim, the setters, slash, pause/unpause, role management | calls `mint` of the token |
| `contracts/src/NoethrionToken.sol` | balances, supply, roles | mint, authorizeMinter, revokeMinter, role management, ERC-20 | called by the attester |
| `node/verifier_node.py`, `node/go/main.go` | epoch, alarm count | loop: read `batches(epoch)`, read the files, verdict, next epoch / sleep / exit | RPC endpoint, data directory |
| `node/go/wasm/main_wasm.go` | none | one verdict per call | browser fetch |
| `tools/verify_attestation.py` | none | verify-signature, verify-merkle, verify-full, compute-leaf | attestation.json, attester.key.pub; used by the Python node |
| `tools/provision_atecc.py` | attester.key, attester.key.pub | generate-key, sign-test, exports | the files the verifiers read |
| `examples/lifecycle/*` | batch.json | build the tree, send propose/vote/finalize/claim | attester |
| `contracts/script/*.s.sol` | roles during the hand-off | deployment, hand-off to Safe and timelock | both contracts |
| `examples/integrators/*` | key of a verifier instance; a consumer's redeemed set | verify, redeem | published files, attester |
| `firmware/src/main.cpp` | next tick, meter total | tick loop (signing is a stub) | secure element |

What is hard here. On chain, every transaction is atomic, but *which* transactions
come between a proposal and its finalization is up to validators, admins, pausers
and anybody who calls the permissionless entry points: thresholds and windows
move, validators are slashed and reinstated, epochs finish out of order, the
token is replaced. Off chain, a verifier takes its view of the chain first and
then looks at up to four files, one system call at a time, while the operator
replaces them and the RPC endpoint comes and goes. The tools are separate processes
that share files without locks and can be killed between any two writes; a batch
file may be rebuilt between the proposal and the claims made from it. The
deployment is checked in a simulation and then sent as a dozen transactions that
can stop anywhere. The firmware's clock wraps. `hazards` in PROJECT.json lists
each of these at its line, with the properties aimed at it.

What makes each component correct:

- attester: a batch is written once; it becomes final only with the quorum and
  after the window it was proposed with; a vote counts once; what is paid was
  committed, once; pausing stops all of it; with enough validators a batch does
  become final.
- token: supply below the cap, equal to what is held, growing only by a minter.
- verifiers: no OK without backing, no epoch passed without proof, bad data on a
  final epoch is an alarm, an honest operator is not accused, the daemon neither
  gives up nor falls silent, and the implementations agree.
- batch builder: its proofs replay for every verifier and prove nothing else; what is
  claimed from a batch file was proposed, and stays within the proposed total.
- key tool and checkers: a finished run leaves a matching, private pair; a verdict
  is about the key and the attestation that are really there.
- deployment: control of the two contracts is never split or lost, nothing is left
  with the deployer, the validators can reach their quorum, the delay holds.
- firmware: ticks are neither early nor lost, across wraps and blocked loops.

## Modules

| Module | Models |
|---|---|
| `AccessControl` | OpenZeppelin role tables as the contracts use them (external) |
| `NoethrionToken` | the token; any number of instances, since `setTokenContract` can point elsewhere |
| `NoethrionAttester` | the attester, composed with the token through `EXTENDS`: `Claim` includes the `Mint` it calls |
| `AttestationLedger` | what the pair promises: an append-only register of roots whose leaves are redeemed once |
| `VerifyEpoch` | the verdict of the three verifiers as operators |
| `PublishedData` | the world a verifier sees: `batches(epoch)`, the RPC endpoint, the data directory |
| `VerifierNode` | the Python or Go node (`setup`), step by step, in that world |
| `MerkleTree` | the tree: leaf and pair hashes, padding test, siblings; the CLI's and the library's Merkle checks |
| `BatchBuilder` | the builder step by step, batch.json, and the propose and claim scripts; uses `VerifyEpoch` as an instance |
| `KeyProvisioning` | invocations of the key tool and the checkers over the files they share |
| `DeployHandoff` | DeployProduction.s.sol, composed with `NoethrionToken`, a role table for the attester, a timelock and a Safe |
| `FirmwareTick` | the schedule of loop() in words of `W` values |
| `NoethrionTokenProofs`, `NoethrionAttesterProofs`, `VerifierNodeProofs`, `DeployHandoffProofs`, `BatchBuilderProofs`, `KeyProvisioningProofs`, `FirmwareTickProofs` | theorems |
| `FiniteSums` | lemmas about sums over finite sets and about sets of positions |
| `MCAttester`, `MCPublishedData`, `MCVerifierNode`, `MCBatchBuilder`, `MCDeployHandoff` | instances for TLC |

How state and actions correspond to the code:

- *Contracts.* One variable per storage slot, one action per entry point; its guard
  is the conjunction of the negated reverts, so a reverting transaction is a step
  that is not taken. `now` is the block timestamp. Reentrancy is not a separate
  interleaving: the only external call is the last statement of `claim`, made under
  `nonReentrant`, to a token that calls nobody.
- *Merkle trees.* In the contract and the nodes a root is the set of leaves it commits
  to and a leaf is its preimage, the domain included; what `MerkleProof.verify`
  accepts is membership. `MerkleTree` keeps the structure: a digest is its height and
  the set of what was hashed, which is the collision resistance of keccak256, and the
  different lengths of a leaf (160 bytes) and a pair (64), and nothing else. The
  `merkle` run connects the two: what the builder writes reconciles in `VerifyEpoch`.
- *Files.* A file is absent, unreadable, malformed or parsed content; what is parsed
  depends on the program (`Unmarshals`). The content
  keeps what the verifiers tell apart: how the amount is written, a bad address, a
  missing hash, a tampered proof, an amount beyond uint128, the kinds of signature
  material.
- *Nodes.* `exists()` and `open()` are separate steps in Python and one `ReadFile`
  in Go. Computation between two accesses is one step with the access.
- *uint64.* `Uint64(n) == n % (UINT64_MAX + 1)` for the casts in proposeBatch, with
  `UINT64_MAX` scaled down so that out-of-range arguments occur.
- *Processes and files.* In `KeyProvisioning` and `BatchBuilder` opening for writing
  (which empties the file) and writing are separate steps, and `Kill` may follow any
  of them. A key pair is a number; a signature names its key and whether anything
  was changed afterwards. What a check is asked besides (`Requests`) is the hash of the
  CLI's option, the hash the proof was made with and whether the amount is within
  uint128; CLI and library decide on it, and on the signature, by operators of their own.
  `torn` and `proc[p].alone` are history: whether a run was
  killed or overlapped since the last one that ran alone.
- *Deployment.* `Simulate` is forge's dry run of `run()` with its requires and
  `_verifyHandoff`, and of the attester's constructor; `Broadcast` mines the next transaction, `StopOrResume` breaks off
  and takes up again, and in between `CallToken` and `SafeChanges` let every holder
  of a role use it. `meddled` records that roles were changed past the script and
  the timelock; properties about the script alone (`CompleteMeansHandedOver`,
  `NoSplitControl`) exclude it.
- *Firmware.* One action per call of `loop()`, followed by any of a set of delays.
  `lag` is the true lateness, which the code knows only through the two words.

## Runs

| Run | Instance | Shows |
|---|---|---|
| `quorum` | 3 validators, 1 epoch, thresholds 0,1,2,5 of which 0 and 5 are rejected | quorum under slashing, re-grants and threshold changes; liveness of finalization |
| `claims` | 2 epochs, 2 tokens, cap 2, a root with foreign, zero and cross-epoch leaves; thresholds 2 and 5 and windows 0, 1 and 4, of which 5, 0 and 4 are rejected; a second pauser who comes and goes | windows, order of epochs, pausing, claims, and refinement of `AttestationLedger` |
| `verdicts` | 16 batch files in either place, all signature material, 3 commitments | verdicts of all three verifiers |
| `node` | both nodes with --once, the Python daemon with any operator, both daemons with an honest one; 2 epochs, files for the right and the wrong epoch, a batch.json that is tampered with or one epoch ahead, unreadable and valid attestations | a pass, and a daemon's life, while the world moves |
| `handoff` | 12 environments, 3 validators, delay 2, cap 2 | the hand-off, the timelock, and the token's cap, conservation and minter discipline meanwhile |
| `merkle` | 11 lists of 0 to 5 readings (duplicates, zero, oversized, unencodable), 2 deployments | builder, verifiers, CLI and library on the same batch; claims after rebuilds |
| `provisioning` | 2 processes, 3 keys | key files and signature checks under overlap and kills |
| `firmware` | W = 64, interval 10, delays 0, 1, 7 and 25 | the tick schedule |

Each question has one run; the properties of the token are checked where the token is
used hardest, in `handoff`.

The runs that end in a violation are the findings of PROJECT.json:

- `fail_closed`: an unreadable file is an error rather than an alarm in the Python node;
- `unreadable_skip`: for the Go node an attestation that is there but cannot be read,
  with no key beside it, counts as never published, and the epoch is OK;
- `exit_zero`: exit code 0 across a gap in the epochs;
- `timelock_bypass`: minter rotation by the Safe without the timelock.

What the nodes do keep of the fail-closed contract is `ConcludesFailClosed`, with these
two deviations written out in it, and for a directory at rest `OkIsSignedOrUnsigned`.

What the timelock's delay is worth is `OnlySafeSkipsDelay`. It binds as long as nobody
but the Safe and the timelock administers the token: then minters change after the
delay, by renouncing, or by the Safe's own transaction, and only such a transaction
appoints another administrator. It does not bind where the deployer's key, used while the
broadcast was stopped, left another administrator behind: the broadcast resumes and
completes, and no check on the chain notices. The model contains that case (`Outsiders`
is not empty then) and the property says nothing of it, because the code does not prevent
it. Nor are changes of the timelock itself modelled (`updateDelay`, its own roles), which
would pass through the old delay.

Further limits seen while modelling, visible in the definitions:

- Claims may exceed the proposer's totalKwh (NoethrionAttester.sol:179-182 says it is
  unchecked, the invariant test at NoethrionAttester.invariant.t.sol:166 claims
  otherwise): `Claim` compares nothing with it. For batches of the builder
  `ClaimsWithinTotal` does hold, because equal leaves are claimed once.
- The browser build accepts half-published signature material that both nodes alarm
  on (main_wasm.go:211, `SignatureVerdict`), against the claim of _parity_test.sh:3-4.
- The sum that main.go:295-298 says makes a short total visible is over the published
  leaves: a leaf left out of the file and of the total goes unnoticed.
- verify_attestation.py:16-19 documents exit code 2 for malformed input, but a
  `SystemExit` with a message exits with 1, like a failed check.
- Overlapping or killed generate-key runs leave mismatched halves, and the private key
  may stay readable, until a clean run; and every first run leaves it readable between
  its write and its chmod. `PairMatches` says that there are no other ways to get there,
  not that these are closed.
- A library instance keeps its key for life: after a rotation it accepts the old key's
  attestations and refuses new ones (`LibraryExactUntilRotation`). It has no range check
  on the amount (python_verifier_library.py:191), which the CLI has, and no `--hash`
  option: under `--hash sha256` the CLI accepts trees that neither the library nor the
  contract would.
- The builder encodes amounts beyond uint128, and the scripts' casts cut them:
  such a record cannot be claimed (`ClaimsAreOfTheProposal`), and the premise of
  `VerifiersAccept` and `ClaimsWithinTotal` excludes such totals.

Where Python and Go differ is the premise of `NodesAgreeOnPlainFiles`: a
batch-<epoch>.json that Go cannot use while batch.json is good (`GoFallsBack`: Python
alarms, Go goes on to batch.json; one amount that is no number is enough, since
json.Unmarshal then refuses the whole file), unreadable signature files, amounts written
as fractions (Python truncates) or beyond uint128 (an error in Python), an attestation
with an empty payload (Go refuses) or a 0x-prefixed signature (Python refuses). On
everything else they agree. The browser build also reports an RPC failure as SKIP where
the nodes say ERROR (`RpcFailureVerdict`).

Bounds. `MaxTime`, `MaxProposeTime`, `MaxEpoch`, `MaxKeys`, `MaxLag` and the argument
sets are the only bounds, and all are CONSTANTS. Three validators are the fewest for which a quorum
of two can be reached without a slashed one or lost by slashing. Two time
steps let a batch be proposed, its window pass, and a second batch with a shorter window
be finalized before or after it. Two epochs allow both orders of finalization. A cap of 2
is reached in the middle of a claim. Two epochs are enough for a verifier to lag
behind `batch.json` and for a gap. Five readings need three rounds of padding and
three levels; three are the smallest list with any padding. Three keys allow a first
key, a rotation, and one that overlaps or follows it. In `handoff` the clock runs to
twice the delay, one operation is pending at a time, and the Safe's direct changes are
one on the attester and two on the token, one of which appoints another administrator. `MaxLag` stays below half a word: a loop blocked for more than
2^31 ms (24.8 days) is beyond what the signed delta can tell. `CHECK_DEADLOCK FALSE`
is set where the system may stop: when the bounded clock has run out, the keys are
used up, the script has refused or the node has exited; in `verdicts`, `merkle` and `firmware` somebody can
always act and deadlock is checked.

Fairness. `EventuallyFinalized` assumes weak fairness of the clock, of each validator's
vote and of finalizeBatch, which anybody may call; nothing is assumed of admins,
and the property is conditional on the contract staying unpaused and a quorum
keeping its role. `node` assumes weak fairness of the process only; that
the endpoint answers and the operator leaves the directory alone is a premise of the
properties. The premise `Settles` is needed: a file that is removed and republished
at every tick can be missed between `exists()` and `open()` each time, and the Python
node then alarms although the directory is in order whenever one looks at it.
`firmware` assumes that loop() is called again and again, which the Arduino core does;
`CatchesUp` is conditional on the passes being shorter than an interval from some
point on, and on no more resets.

## Proofs

The theorems hold for every value of the constants that satisfies the named
assumptions. Each one rests on an inductive invariant that TLC checked on the instance
of the runs before it was proved (but for `Grown` below, which quantifies over all sets).

*Token* (`NoethrionTokenProofs`). `Mint` preserves `totalSupply <= MAX_SUPPLY` by its
guard, everything else leaves it alone, and the typing of transfers needs the balance
check. The per-step lemma (`TokenStepSafe`) is reused for the composition.
`TokenSupplyIsHeld` is about a sum over all accounts. Such sums are recursions over
subsets, and the library's induction principles cannot be instantiated here, so
`FiniteSums` argues by a minimal counterexample: among the subsets for which a claim
fails there would be one none of whose proper subsets fails. From this it derives what
the contracts need: the sum is a natural, adding an element adds its value, changing one
value changes the sum by the difference, and moving an amount leaves it alone.

*Attester* (`NoethrionAttesterProofs`). `AttesterInv` is types, the cap, `EpochSound`
for every epoch, `LatestEpochIsMax` and `ClaimedWasCommitted`. The strengthening is in
`EpochSound`. That a finalized batch has its quorum of *distinct* validators needs
`voteCount = Cardinality(voted)`, whose preservation by `VoteBatch` needs that the
voter is not yet in `voted`; a proposal resets the tally to 1, which agrees with
`voted` only because an epoch that was never proposed has no votes. The windows need
that `now` never goes back, and the `uint64` snapshots that they lose nothing, which is
the range part of `TypeOK` (`Uint64Lossless`). `ClaimedWasCommitted` rests on
`FinalStaysFinal` and `BatchStep`: a final batch never changes, so what a leaf was
claimed against is still there. The action properties `BatchWrittenOnce`,
`VotesAreFinal` and `PauseFreezes` follow from the same case split (`NextCases`).
`IssuanceInv` carries the money: the claimed leaves are finitely many, where only the
attester is authorized nobody else holds MINTER_ROLE, and then the supplies of all
tokens together are the sum over the claimed leaves, whatever `setTokenContract` did in
between. `LedgerRefinement` shows step by step that the contracts implement
`AttestationLedger`: the register is the function of the finalized epochs to their
roots, so `FinalizeBatch` extends it (the root is one of `Roots`, a conjunct of
`EpochSound`), `Claim` redeems, and every other action is a stutter because final batches
do not change.

*Verifiers* (`VerifierNodeProofs`). `WorldInv` types the world; `OkSafety`,
`SignatureSafety` and `ParitySafety` are about the verdict operators over any directory
in it. A node works on a view and on files that may have changed since, so `NodeInv` says
what survives: a finalized view is true of the chain as it is now, because finalized
batches do not change (`ViewHolds`), the batch in hand was loaded for this epoch, and from
reconciliation on its verdict against the view is OK (`CheckSound`). `AdvanceSafety` and
`ExitCodeSafety` follow, and so does `FailClosedSafety`, about the step that ends a check.
`NoFalseAlarmSafety` needs a second invariant, `HonestInv`: an
honest operator's named file, once there, stays and reconciles, and an epoch is not final
before it is there, so the node never reaches the step that looks for batch.json.

*Deployment* (`DeployHandoffProofs`). The script is a list of n + 12 transactions for n
validators. `ScriptAt` tabulates it, and `HandedOver(p, n, k, roles)` says which roles
exist after k of them; `ScriptStep` shows, transaction by transaction, that the next one
is allowed and leads from k to k + 1. `HandoffInv` is types and the token's own
invariants, how far the script is (`ScriptSound`), and that, unless somebody meddled,
the roles are where it has brought them (`RolesSound`). `ControlSafety` and
`HandoverSafety` read their claims off the table. `HandoverSafety` has the hypothesis that
the deployer is not among the minters that may be scheduled after the hand-over: the
timelock may of course give anybody MINTER_ROLE, the deployer included. `DelaySafety`
rests on the plan's delay being at least MinDelay, which `Preflight` checks, and on
Safe and timelock being contracts: while they are the only administrators no ordinary
caller is one (`CallOfFinished`), whoever meddled before. The attempt
to prove an earlier form of `OnlySafeSkipsDelay` failed: a minter that is an ordinary
account may renounce its own role at once, which the instance did not contain; the
property now says so and the instance has such a minter. `GoodPlansSafety` is the converse of the refusals: the
simulation is a fold over the script, defined by an equation on sets of positions;
`SimExists` shows that the equation has a solution, and a solution takes the
transactions one by one (`SimClimbs`), so that `ScriptStep` applies to each.

*Batch builder* (`BatchBuilderProofs`), for lists of readings of any length.
Replaying a proof is a fold as well; `ReplayRecursion` and `ReplayClimbs` derive from its
definition that it starts at the leaf and hashes one sibling at a time, and
`ReplayAppend` what one more sibling does. `TreeSound` is the invariant of build_tree:
`ProofsLeadToLevel`, paths that stay inside the level, and a level whose length is a power
of two, so that every turn of the loop pairs all nodes (`PowerHalves`). The other half is
what a root does *not* commit to. `Grown(S, leaves)` says that everything below the nodes
in S is one of the leaves or the hash of two things below them. A level is grown from the
readings' leaves, hashing pairs keeps it so, and therefore whatever any proof takes to
the root is one of those leaves (`ReplayDescends`): a claim made from a file that was
rebuilt since pays a reading of the batch that was proposed. `OnlyListed` needs no tree:
with the siblings fixed a replay is injective (`ReplayInjective`). `ClaimsTotal` maps
each payment to a record of its own and compares the sums (`SumInjection`). The
power-of-two test of the code is written as "every factor but 1 is even", which is the
form the proof halves; the instance checks it against the bit operation up to 64.

*Key tool* (`KeyProvisioningProofs`), for any number of processes. `PairInv` relates the
files to the one process that may be writing them: a process that is `alone` is the only
generator, and behind its chmod, and behind its write of the private half, the files
hold what it wrote; unless the directory is torn every generator is alone. `PrivateSound`
is the part about the permissions. `LibrarySafety` unfolds the two programs' separate
definitions and needs the pair to match, because the CLI reads the published key and the
library the one it was given.

*Firmware* (`FirmwareTickProofs`), for every word size and interval. `TickInv` says that
clock and due time differ by the lag and a whole number of wraps; that the signed delta
is then the lag itself needs the lag to stay below half a word.

Assumptions. Contracts: the zero address and the attester are not ordinary callers, the
admin is an account, accounts and tokens are finite, roots are sets of leaves, arguments
are naturals, and the clock does not outrun a uint64 (`AccountsAssumption`,
`TokenAssumption`, `DeploymentAssumption`, `ParameterAssumption`). Verifiers: files are
finite lists of records with integer amounts (`FilesAssumption`). Deployment
(`HandoffAssumption`): one token; the attester is deployed at an address of its own; the
addresses that have code when the script starts (Safe and timelock must) do not call the
token as ordinary accounts; the environment's numbers and addresses are well-formed.
Firmware: `MaxLag` below half a word, the interval at most half a word (`TickAssumption`).
Builder: inputs are lists, uint128 is no wider than uint256, the deployment is one of
those the builder may be pointed at, and a leaf hash is never taken for a missing one
(`InputsAssumption`, `WidthAssumption`, `DomainAssumption`, `NoHashAssumption`); that
keccak256 is injective is built into the digests of `MerkleTree`.

Model-checked only: liveness (`EventuallyFinalized`, `EventuallyVerified`,
`KeepsAlarming`, `CatchesUp`), which is out of the prover's reach. Every invariant and
every action property of the passing runs is stated by a theorem.

## Not modelled

Events, gas, ERC-2612 permits and allowances; cryptography (hashes and signatures are
ideal); JSON syntax beyond the distinctions above; the promise plumbing of the browser
build; documents, web pages, images (`render_social_assets.py`) and CI; argument
parsing of the tools; `DeployTimelock.s.sol` and the test-net `Deploy.s.sol`, whose calls
are those of `Wiring`; 04b and 05 of the lifecycle, which are one contract call each; the
JavaScript verifier, a port of the Python library; the Solidity consumer; the firmware's
stubs. What an interrupted `--once` pass returns (0) is in the model (`Interrupt`) but no
document says what it should be.

## Plan

1. Done: token, attester, ledger, verdicts, nodes; type and safety proofs of the contracts.
2. Done: `DeployHandoff`, `MerkleTree` and `BatchBuilder`, `KeyProvisioning`, `FirmwareTick`.
3. Done: proofs of the sums, the refinement, the nodes, the deployment, the builder, the
   key tool and the firmware.
4. `ConsumerRedeem`: the Solidity integrator on top of the attester. The chain of
   `PublishedData` as an abstraction of `NoethrionAttester`.
