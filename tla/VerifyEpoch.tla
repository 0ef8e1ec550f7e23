----------------------------- MODULE VerifyEpoch -----------------------------
(***************************************************************************)
(* What the three verifiers decide about one finalized epoch from the      *)
(* files the operator published: node/verifier_node.py ("python"),         *)
(* node/go/main.go ("go") and node/go/wasm/main_wasm.go ("wasm").          *)
(*                                                                         *)
(* A leaf hash is abstracted to its preimage and a root to the set of      *)
(* leaves it commits to; the chain id and the attester address the         *)
(* verifier is started with are taken to be the deployed ones.  A file is  *)
(* abstracted to what the verifiers tell apart: absent, unreadable,        *)
(* malformed, or its parsed content.                                       *)
(***************************************************************************)
EXTENDS Integers, Sequences, FiniteSetsExt, Functions

CONSTANTS BadAddress,   \* a beneficiary that is not a 20-byte hex address
          NoHash,       \* a missing or empty `leaf` field
          UINT128_MAX   \* the largest amount a leaf can carry

ASSUME UINT128Assumption == UINT128_MAX \in Nat

(* compute_leaf / computeLeaf. *)
ComputeLeaf(beneficiary, amount, epoch) ==
    [beneficiary |-> beneficiary, amount |-> amount, epoch |-> epoch]

(* _verify_merkle_proof_impl / verifyMerkle: a proof that was not tampered with
   takes exactly the leaves of the tree to its root. *)
VerifyMerkle(leaf, proof, root) == proof = "intact" /\ leaf \in root

BugAnyLiteral(impl, record) == record.literal = "integer" \/ impl = "python"

(* Once the file is loaded.  The literal of an amount is "integer" (quoted or
   not), "fraction" or "text", anything that is no number at all.  int() also takes
   a fractional JSON number, which it truncates; SetString of big.Int takes decimal
   integers only, and never sees text: see Unmarshals. *)
AmountParses(impl, record) ==
    record.literal = "integer" \/ (impl = "python" /\ record.literal = "fraction")

(* The record's fields are usable: amount and beneficiary. *)
FieldsUsable(impl, record) ==
    AmountParses(impl, record) /\ record.amount >= 0 /\ record.beneficiary # BadAddress

(* abi_encode refuses an amount beyond uint128 with an exception that is none of
   those verify_epoch turns into an alarm; the Go code pads any amount. *)
EncodingFails(impl, record) == impl = "python" /\ record.amount > UINT128_MAX

(* The published hash is the recomputed one, and its proof replays. *)
LeafCommitted(record, epoch, root) ==
    LET recomputed == ComputeLeaf(record.beneficiary, record.amount, epoch)
    IN  /\ record.hash # NoHash
        /\ record.hash = recomputed
        /\ VerifyMerkle(recomputed, record.proof, root)

(* One published leaf record against the on-chain root. *)
LeafVerdict(impl, record, epoch, root) ==
    IF ~FieldsUsable(impl, record) THEN "ALARM"
    ELSE IF EncodingFails(impl, record) THEN "ERROR"
    ELSE IF LeafCommitted(record, epoch, root) THEN "OK"
    ELSE "ALARM"

SumAmounts(records) ==
    FoldFunction(+, 0, [i \in DOMAIN records |-> records[i].amount])

BugTotalMayFallShort(records, view) == SumAmounts(records) <= view.totalKwh

(* The published amounts add up to the on-chain total. *)
TotalMatches(records, view) == SumAmounts(records) = view.totalKwh

(* The reconciliation of a parsed batch with the on-chain view.  The first leaf
   that is not in order decides. *)
BatchVerdict(impl, batch, epoch, view) ==
    LET leaf(i) == LeafVerdict(impl, batch.leaves[i], epoch, view.merkleRoot)
        bad     == {i \in DOMAIN batch.leaves : leaf(i) # "OK"}
    IN  IF batch.root # view.merkleRoot \/ batch.leaves = <<>> THEN "ALARM"
        ELSE IF bad # {} THEN leaf(Min(bad))
        ELSE IF TotalMatches(batch.leaves, view) THEN "OK" ELSE "ALARM"

-----------------------------------------------------------------------------
(* The batch files.  A file is [kind |-> k, batch |-> b] with kind one of
   "absent", "unreadable", "malformed", "batch" (b matters for the last). *)

(* json.load takes whatever is JSON; json.Unmarshal into batchFile also refuses
   the whole file for one amount that is not a json.Number. *)
Unmarshals(impl, file) ==
    /\ file.kind = "batch"
    /\ impl # "python" =>
          \A i \in DOMAIN file.batch.leaves : file.batch.leaves[i].literal # "text"

BugAnyEpoch(impl, file, epoch) == Unmarshals(impl, file)

(* The file can be used for the epoch. *)
HoldsEpoch(impl, file, epoch) == Unmarshals(impl, file) /\ file.batch.epoch = epoch

(* Where reading batch-<epoch>.json leads when it does not hold the epoch:
   Python stops at a file it cannot use, Go notes the problem and tries
   batch.json all the same. *)
StopsAtNamed(impl, file) == impl = "python" /\ file.kind # "absent"

(* Python stops at a batch.json it cannot parse, too; with nothing else to try
   that makes no difference to the verdict. *)

-----------------------------------------------------------------------------
(* The signature material.  attestation.json is "absent", "unreadable",
   "malformed", "wrongalg" (not labelled ES256), "empty" (a valid signature
   over an empty payload), "prefixed" (valid, the signature written with a 0x
   prefix), "forged" or "valid"; attester.key.pub is "absent", "unreadable",
   "malformed" (not a P-256 key) or "p256". *)

(* os.ReadFile, or the open() of Python, fails. *)
Missing(file) == file \in {"absent", "unreadable"}

(* Something is there, and Go can read nothing of it. *)
OnlyUnreadable(att, pub) == Missing(att) /\ Missing(pub) /\ "unreadable" \in {att, pub}

(* A pair that validates for some implementation. *)
GenuinePair(att, pub) == att \in {"valid", "empty", "prefixed"} /\ pub = "p256"

(* _verify_signature / ecdsa.Verify once both sides are loaded: bytes.fromhex
   takes no prefix, hexToBytes strips it. *)
Validates(impl, att, pub) ==
    /\ pub = "p256"
    /\ att \in {"valid", "wrongalg", "empty"} \/ (impl # "python" /\ att = "prefixed")

(* What _load_attestation and verifySig refuse before any cryptography.  The
   browser build looks at neither the algorithm nor the payload. *)
Refuses(impl) ==
    CASE impl = "python" -> {"malformed", "wrongalg"}
      [] impl = "go"     -> {"malformed", "wrongalg", "empty"}
      [] impl = "wasm"   -> {"malformed"}

Checked(impl, att, pub) ==
    IF att \notin Refuses(impl) /\ Validates(impl, att, pub) THEN "OK" ELSE "ALARM"

BugHalfIsNothing(impl, att, pub) ==
    IF Missing(att) \/ Missing(pub) THEN "OK" ELSE Checked(impl, att, pub)

(* Go and the browser build read both files; for Go one it cannot read is missing,
   whatever the reason.  Half of the pair is an alarm for Go and nothing to check
   for the browser. *)
SignatureVerdict(impl, att, pub) ==
    IF Missing(att) /\ Missing(pub) THEN "OK"
    ELSE IF Missing(att) \/ Missing(pub)
         THEN IF impl = "wasm" THEN "OK" ELSE "ALARM"
         ELSE Checked(impl, att, pub)

BugHalfPublishedSkips(attSeen, pubSeen, att, pub) ==
    IF ~attSeen \/ ~pubSeen THEN "OK" ELSE Checked("python", att, pub)

(* Python first tests that the files exist (attSeen, pubSeen) and opens them
   afterwards; an OSError of the open escapes verify_epoch. *)
PythonSignatureVerdict(attSeen, pubSeen, att, pub) ==
    IF ~attSeen /\ ~pubSeen THEN "OK"
    ELSE IF attSeen # pubSeen THEN "ALARM"
    ELSE IF Missing(att) THEN "ERROR"
    ELSE IF att \in Refuses("python") THEN "ALARM"
    ELSE IF Missing(pub) THEN "ERROR"
    ELSE Checked("python", att, pub)

-----------------------------------------------------------------------------
(* verify_epoch / verifyEpoch as a whole, on a directory nobody touches
   meanwhile.  view is what batches(epoch) returned, dir has the fields named,
   generic, att and pub.  The browser build is handed batch.json. *)
FilesVerdict(impl, batch, epoch, view, dir) ==
    LET reconciled == BatchVerdict(impl, batch, epoch, view)
    IN  IF reconciled # "OK" THEN reconciled
        ELSE IF impl = "python"
             THEN PythonSignatureVerdict(dir.att # "absent", dir.pub # "absent", dir.att, dir.pub)
             ELSE SignatureVerdict(impl, dir.att, dir.pub)

Verdict(impl, epoch, view, dir) ==
    IF ~view.finalized THEN "SKIP"
    ELSE IF impl # "wasm" /\ HoldsEpoch(impl, dir.named[epoch], epoch)
         THEN FilesVerdict(impl, dir.named[epoch].batch, epoch, view, dir)
    ELSE IF ~StopsAtNamed(impl, dir.named[epoch]) /\ HoldsEpoch(impl, dir.generic, epoch)
         THEN FilesVerdict(impl, dir.generic.batch, epoch, view, dir)
    ELSE "ALARM"

(* The verdict when the RPC call failed: verify_epoch raises, verifyEpoch says
   ERROR, jsVerify resolves to SKIP. *)
RpcFailureVerdict(impl) == IF impl = "wasm" THEN "SKIP" ELSE "ERROR"
=============================================================================
