----------------------------- MODULE MerkleTree -----------------------------
(***************************************************************************)
(* The Merkle tree of a batch, as examples/lifecycle/03_build_merkle_tree  *)
(* builds it and as tools/verify_attestation.py and the Python integrator  *)
(* library replay its proofs.                                              *)
(*                                                                         *)
(* keccak256 is taken to be injective.  A digest is <<height, content>>:   *)
(* height 0 and the encoded fields for a leaf (160 bytes), a height above  *)
(* its children's and the set of the two for an inner node (64 bytes), so  *)
(* that a leaf is never an inner node and the order of a pair, which every *)
(* implementation sorts, is not there to begin with.                       *)
(***************************************************************************)
EXTENDS Integers, SequencesExt

CONSTANTS BadAddress,    \* an address that is not 20 bytes of hex
          UINT128_MAX,   \* the largest amount the contract and the CLI take
          UINT256_MAX    \* the largest amount to_bytes(32) takes

ASSUME WidthAssumption ==
    /\ UINT128_MAX \in Nat
    /\ UINT256_MAX \in Nat
    /\ UINT128_MAX <= UINT256_MAX

BugLeafOmitsDomain(domain, beneficiary, amount, epoch) ==
    <<0, {<<beneficiary, amount, epoch>>}>>

BugLeafOmitsAmount(domain, beneficiary, amount, epoch) ==
    <<0, {<<domain, beneficiary, epoch>>}>>

(* abi_encode_leaf and leaf_hash; domain stands for (chain id, attester). *)
LeafHash(domain, beneficiary, amount, epoch) ==
    <<0, {<<domain, beneficiary, amount, epoch>>}>>

(* _addr_to_32 and to_bytes(32) raise on anything else. *)
Encodable(domain, beneficiary, amount) ==
    BadAddress \notin {domain, beneficiary} /\ amount \in 0..UINT256_MAX

(* hash_pair. *)
HashPair(a, b) == <<1 + (IF a[1] > b[1] THEN a[1] ELSE b[1]), {a, b}>>

(* The root a proof leads to from a leaf. *)
Replay(leaf, proof) == FoldLeft(HashPair, leaf, proof)

(* (n & (n - 1)) == 0, for a positive n: every factor of n but 1 is even. *)
IsPowerOfTwo(n) == \A d \in 2..n, q \in 1..n : d * q = n => d % 2 = 0

BugSiblingAlwaysRight(level, cur) == level[2 * (cur \div 2) + 2]

(* The other half of the pair that position cur (from 0) of a level is in. *)
Sibling(level, cur) == IF cur % 2 = 0 THEN level[cur + 2] ELSE level[cur]

(* One turn of the level loop: the pairs, hashed. *)
NextLevel(level) == [i \in 1..(Len(level) \div 2) |-> HashPair(level[2*i - 1], level[2*i])]

-----------------------------------------------------------------------------
(* compute-leaf of the CLI takes nothing beyond uint128. *)
CliEncodes(domain, r) == Encodable(domain, r.beneficiary, r.amount) /\ r.amount <= UINT128_MAX

(* compute-leaf followed by verify-merkle, for the fields of one record: the exit
   code.  A refused input is a SystemExit with a message, so 1 as well.  alg is the
   --hash argument; pairs hashed with sha256 lead to none of the roots here. *)
CliVerifyMerkle(domain, r, epoch, root, alg) ==
    IF /\ CliEncodes(domain, r)
       /\ alg = "keccak256" \/ r.proof = <<>>
       /\ Replay(LeafHash(domain, r.beneficiary, r.amount, epoch), r.proof) = root
    THEN 0 ELSE 1

(* _compute_leaf of the library raises where to_bytes does. *)
LibraryEncodes(domain, r) == Encodable(domain, r.beneficiary, r.amount)

(* NoethrionVerifier.verify_merkle: "ok", "failed", or an exception of
   _compute_leaf, which verify_merkle does not catch. *)
LibraryVerifyMerkle(domain, r, epoch, root) ==
    CASE ~LibraryEncodes(domain, r) -> "raises"
      [] LibraryEncodes(domain, r)  ->
            IF Replay(LeafHash(domain, r.beneficiary, r.amount, epoch), r.proof) = root
            THEN "ok" ELSE "failed"
=============================================================================
