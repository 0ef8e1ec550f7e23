---------------------------- MODULE BatchBuilder ----------------------------
(***************************************************************************)
(* From a list of readings to claims: 03_build_merkle_tree.py builds the   *)
(* tree and writes batch.json, 04_propose_batch.s.sol commits its root and *)
(* total, 06_claim.s.sol claims its records one by one.  The three run     *)
(* whenever the operator runs them, so batch.json may be rebuilt, for      *)
(* other readings or another deployment, or left half written by a killed  *)
(* builder, between a proposal and a claim.                                *)
(*                                                                         *)
(* The chain is reduced to one finalized commitment for EPOCH; the         *)
(* contract itself is NoethrionAttester.                                   *)
(***************************************************************************)
EXTENDS MerkleTree, FiniteSetsExt

CONSTANTS Domains,       \* (chain id, attester) the builder may be pointed at
          ThisDomain,    \* the deployment the batch is proposed to
          Inputs,        \* values of LEAVES_INPUT: sequences of [beneficiary, amount]
          EPOCH,
          NoHash         \* of VerifyEpoch

ASSUME DomainAssumption == ThisDomain \in Domains
ASSUME InputsAssumption == \A xs \in Inputs : xs \in Seq(Range(xs))

(* The off-chain verifiers' reconciliation of a batch file. *)
Node == INSTANCE VerifyEpoch

(* Every reading anyone could put forward, for any deployment. *)
Readings == UNION {Range(xs) : xs \in Inputs}

(* A published hash is not taken for a missing one. *)
ASSUME NoHashAssumption ==
    \A x \in Readings : Node!ComputeLeaf(x.beneficiary, x.amount, EPOCH) # NoHash

VARIABLES
    pc,          \* of the builder: "idle", "pad", "level", "dump"
    domain,      \* CHAIN_ID and ATTESTER of the environment
    input,       \* LEAVES_INPUT
    level,       \* the level being hashed; the padded leaves at first
    cur,         \* next_indices: where the path of leaf k runs through the level
    proofs,      \* the siblings recorded so far, per leaf
    file,        \* batch.json
    committed,   \* the batch on the chain
    claimed      \* what claim() paid: [leaf, beneficiary, amount]

builder == <<pc, domain, input, level, cur, proofs>>
vars == <<builder, file, committed, claimed>>

NoBatch   == [state |-> "none"]
Truncated == [state |-> "truncated"]

Leaf(d, x) == LeafHash(d, x.beneficiary, x.amount, EPOCH)
Records(b) == {b.leaves[k] : k \in DOMAIN b.leaves}

Init ==
    /\ pc = "idle"
    /\ domain = ThisDomain
    /\ input = <<>> /\ level = <<>> /\ cur = <<>> /\ proofs = <<>>
    /\ file = NoBatch
    /\ committed = NoBatch
    /\ claimed = {}

(* main up to build_tree.  Without ATTESTER, with an empty list or with a field
   that does not encode the program ends and has written nothing. *)
Start(d, xs) ==
    /\ pc = "idle"
    /\ xs # <<>>
    /\ \A k \in DOMAIN xs : Encodable(d, xs[k].beneficiary, xs[k].amount)
    /\ pc' = "pad"
    /\ domain' = d
    /\ input' = xs
    /\ level' = [k \in DOMAIN xs |-> Leaf(d, xs[k])]
    /\ proofs' = [k \in DOMAIN xs |-> <<>>]
    /\ cur' = <<>>
    /\ UNCHANGED <<file, committed, claimed>>

(* The padding loop; next_indices counts the padded leaves. *)
Pad ==
    /\ pc = "pad"
    /\ IF IsPowerOfTwo(Len(level))
       THEN /\ pc' = "level"
            /\ cur' = [k \in 1..Len(level) |-> k - 1]
            /\ UNCHANGED level
       ELSE /\ level' = Append(level, Last(level))
            /\ UNCHANGED <<pc, cur>>
    /\ UNCHANGED <<domain, input, proofs, file, committed, claimed>>

(* One turn of the level loop.  zip(indices, next_indices) stops at the last
   leaf that was not added by the padding. *)
HashLevel ==
    /\ pc = "level"
    /\ Len(level) > 1
    /\ proofs' = [k \in DOMAIN input |-> Append(proofs[k], Sibling(level, cur[k]))]
    /\ cur' = [k \in DOMAIN cur |-> cur[k] \div 2]
    /\ level' = NextLevel(level)
    /\ UNCHANGED <<pc, domain, input, file, committed, claimed>>

(* out_path.open("w") empties the file that was there. *)
OpenFile ==
    /\ pc = "level"
    /\ Len(level) = 1
    /\ pc' = "dump"
    /\ file' = Truncated
    /\ UNCHANGED <<domain, input, level, cur, proofs, committed, claimed>>

Amounts(xs) == [k \in DOMAIN xs |-> xs[k].amount]

BugTotalSkipsLast(xs) == SumFunction(Amounts(Front(xs)))

(* total_wei. *)
Total(xs) == SumFunction(Amounts(xs))

(* The content of batch.json; domain is not in the file, but in its leaves. *)
Batch ==
    [state |-> "complete", domain |-> domain, root |-> level[1], totalKwh |-> Total(input),
     leaves |-> [k \in DOMAIN input |->
                   [beneficiary |-> input[k].beneficiary, amount |-> input[k].amount,
                    leaf |-> Leaf(domain, input[k]), proof |-> proofs[k]]]]

Forget == input' = <<>> /\ level' = <<>> /\ cur' = <<>> /\ proofs' = <<>> /\ domain' = ThisDomain

Dump ==
    /\ pc = "dump"
    /\ file' = Batch
    /\ pc' = "idle"
    /\ Forget
    /\ UNCHANGED <<committed, claimed>>

(* The builder is killed. *)
Kill ==
    /\ pc # "idle"
    /\ pc' = "idle"
    /\ Forget
    /\ UNCHANGED <<file, committed, claimed>>

(* uint128(vm.envUint(...)) of the two scripts keeps the low bits. *)
AsUint128(n) == n % (UINT128_MAX + 1)

(* 04_propose_batch: proposeBatch(EPOCH, root, total), and the window passes. *)
Propose ==
    /\ file.state = "complete"
    /\ committed.state = "none"
    /\ committed' = [file EXCEPT !.totalKwh = AsUint128(file.totalKwh)]
    /\ UNCHANGED <<builder, file, claimed>>

(* 06_claim for a record of batch.json as it is now; claim() of the contract
   computes the leaf for its own chain and address. *)
Claim(k) ==
    /\ committed.state = "complete"
    /\ LET r      == file.leaves[k]
           amount == AsUint128(r.amount)
           leaf   == LeafHash(ThisDomain, r.beneficiary, amount, EPOCH)
       IN  /\ amount # 0
           /\ \A c \in claimed : c.leaf # leaf
           /\ Replay(leaf, r.proof) = committed.root
           /\ claimed' = claimed \cup {[leaf |-> leaf, beneficiary |-> r.beneficiary,
                                       amount |-> amount]}
    /\ UNCHANGED <<builder, file, committed>>

Next ==
    \/ \E d \in Domains, xs \in Inputs : Start(d, xs)
    \/ Pad \/ HashLevel \/ OpenFile \/ Dump \/ Kill
    \/ Propose
    \/ file.state = "complete" /\ \E k \in DOMAIN file.leaves : Claim(k)

Spec == Init /\ [][Next]_vars

-----------------------------------------------------------------------------
(* The loop invariant of build_tree: the siblings recorded so far take every
   original leaf to the node its index path has reached, padding or not, so at
   the top they take it to the root. *)
ProofsLeadToLevel ==
    pc \in {"level", "dump"} =>
        \A k \in DOMAIN input : Replay(Leaf(domain, input[k]), proofs[k]) = level[cur[k] + 1]

(* The proofs of a batch file prove nothing else: no reading outside the file,
   and none of another deployment, replays to its root with any proof in it, be
   it for the contract, the CLI or the library. *)
OnlyListedReplay ==
    file.state = "complete" =>
        \A d \in Domains, x \in Readings, r \in Records(file) :
            LET shown == [beneficiary |-> x.beneficiary, amount |-> x.amount, proof |-> r.proof]
                listed == \E s \in Records(file) :
                              <<s.beneficiary, s.amount, file.domain>>
                                  = <<x.beneficiary, x.amount, d>>
            IN  \/ listed
                \/ /\ \A alg \in {"keccak256", "sha256"} :
                         CliVerifyMerkle(d, shown, EPOCH, file.root, alg) = 1
                   /\ LibraryVerifyMerkle(d, shown, EPOCH, file.root) # "ok"

(* The batch as VerifyEpoch abstracts it: a root is the set of its leaves and a
   proof is intact when it replays. *)
AsLeaf(r) == Node!ComputeLeaf(r.beneficiary, r.amount, EPOCH)
Published(b) ==
    [epoch |-> EPOCH, root |-> {AsLeaf(r) : r \in Records(b)},
     leaves |-> [k \in DOMAIN b.leaves |->
        LET r == b.leaves[k]
        IN  [beneficiary |-> r.beneficiary, amount |-> r.amount, literal |-> "integer",
             hash |-> AsLeaf(r),
             proof |-> IF Replay(r.leaf, r.proof) = b.root THEN "intact" ELSE "broken"]]]

InUint128(b) == b.totalKwh <= UINT128_MAX

(* What the builder writes is what the verifiers accept: a batch proposed from
   the file as it was written reconciles for all three nodes, and each of its
   records passes the CLI and the library, as long as the total fits uint128. *)
VerifiersAccept ==
    file.state = "complete" /\ InUint128(file) =>
        /\ \A impl \in {"python", "go", "wasm"} :
              Node!BatchVerdict(impl, Published(file), EPOCH,
                  [merkleRoot |-> Published(file).root, totalKwh |-> AsUint128(file.totalKwh)]) = "OK"
        /\ \A r \in Records(file) :
              /\ CliVerifyMerkle(file.domain, r, EPOCH, file.root, "keccak256") = 0
              /\ LibraryVerifyMerkle(file.domain, r, EPOCH, file.root) = "ok"

(* Whatever happened to batch.json since the proposal, a claim made from it pays
   a reading of the batch that was proposed, and nothing at all when that batch
   was built for another deployment. *)
ClaimsAreOfTheProposal ==
    claimed # {} =>
        /\ committed.domain = ThisDomain
        /\ \A c \in claimed : \E r \in Records(committed) :
               <<c.beneficiary, c.amount>> = <<r.beneficiary, r.amount>>

(* With a batch of this builder the claims stay within the committed total, also
   when a reading is listed twice, unless the total was cut to uint128. *)
ClaimsWithinTotal ==
    claimed # {} /\ Total(committed.leaves) <= UINT128_MAX =>
        SumFunctionOnSet([c \in claimed |-> c.amount], claimed) <= committed.totalKwh
=============================================================================
