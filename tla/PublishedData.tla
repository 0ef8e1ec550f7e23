---------------------------- MODULE PublishedData ----------------------------
(***************************************************************************)
(* The world a verifier looks at: what batches(epoch) of the deployed      *)
(* NoethrionAttester returns, whether the RPC endpoint answers, and the    *)
(* operator's --data-dir.  The chain follows the contract: a commitment is *)
(* written once and finalization is for good, but epochs may be proposed   *)
(* and finalized in any order.  Files come and go as the operator likes.   *)
(***************************************************************************)
EXTENDS VerifyEpoch

CONSTANTS MaxEpoch,       \* epochs 1..MaxEpoch may be proposed
          Commitments,    \* [epoch, merkleRoot, totalKwh] that get proposed
          NamedFiles,     \* contents of batch-<epoch>.json
          GenericFiles,   \* contents of batch.json
          Attestations,   \* contents of attestation.json
          Keys            \* contents of attester.key.pub

ASSUME MaxEpochAssumption == MaxEpoch \in Nat \ {0}

(* What a parser calls a batch has a list of records whose amounts are numbers. *)
ASSUME FilesAssumption ==
    \A f \in NamedFiles \cup GenericFiles :
        f.kind = "batch" =>
            /\ f.batch.leaves \in Seq(Range(f.batch.leaves))
            /\ \A i \in DOMAIN f.batch.leaves : f.batch.leaves[i].amount \in Int

VARIABLES batches, reachable, dir

world == <<batches, reachable, dir>>

(* A verifier looks one epoch further than the last one. *)
ViewedEpochs == 1..(MaxEpoch + 1)

NotProposed == [proposed |-> FALSE, merkleRoot |-> {}, totalKwh |-> 0, finalized |-> FALSE]
AbsentFile  == [kind |-> "absent"]

WorldTypeOK ==
    /\ \A e \in ViewedEpochs :
           \/ batches[e] = NotProposed
           \/ \E c \in Commitments : \E f \in BOOLEAN :
                  batches[e] = [proposed |-> TRUE, merkleRoot |-> c.merkleRoot,
                                totalKwh |-> c.totalKwh, finalized |-> f]
    /\ reachable \in BOOLEAN
    /\ dir.named \in [ViewedEpochs -> NamedFiles \cup {AbsentFile}]
    /\ dir.generic \in GenericFiles \cup {AbsentFile}
    /\ dir.att \in Attestations \cup {"absent"}
    /\ dir.pub \in Keys \cup {"absent"}

WorldInit ==
    /\ batches = [e \in ViewedEpochs |-> NotProposed]
    /\ reachable = TRUE
    /\ dir = [named |-> [e \in ViewedEpochs |-> AbsentFile], generic |-> AbsentFile,
              att |-> "absent", pub |-> "absent"]

(* proposeBatch as batches(epoch) shows it. *)
Propose(c) ==
    /\ ~batches[c.epoch].proposed
    /\ batches' = [batches EXCEPT ![c.epoch] =
                      [proposed |-> TRUE, merkleRoot |-> c.merkleRoot,
                       totalKwh |-> c.totalKwh, finalized |-> FALSE]]
    /\ UNCHANGED <<reachable, dir>>

(* finalizeBatch as batches(epoch) shows it. *)
Finalize(e) ==
    /\ batches[e].proposed
    /\ ~batches[e].finalized
    /\ batches' = [batches EXCEPT ![e].finalized = TRUE]
    /\ UNCHANGED <<reachable, dir>>

(* The RPC endpoint goes down or comes back. *)
RpcChange ==
    /\ reachable' = ~reachable
    /\ UNCHANGED <<batches, dir>>

PublishNamed(e, f) ==
    /\ dir.named[e] # f
    /\ dir' = [dir EXCEPT !.named[e] = f]
    /\ UNCHANGED <<batches, reachable>>

PublishGeneric(f) ==
    /\ dir.generic # f
    /\ dir' = [dir EXCEPT !.generic = f]
    /\ UNCHANGED <<batches, reachable>>

PublishAttestation(a) ==
    /\ dir.att # a
    /\ dir' = [dir EXCEPT !.att = a]
    /\ UNCHANGED <<batches, reachable>>

PublishKey(k) ==
    /\ dir.pub # k
    /\ dir' = [dir EXCEPT !.pub = k]
    /\ UNCHANGED <<batches, reachable>>

ChainStep ==
    \/ \E c \in Commitments : Propose(c)
    \/ \E e \in 1..MaxEpoch : Finalize(e)
    \/ RpcChange

OperatorStep ==
    \/ \E e \in 1..MaxEpoch, f \in NamedFiles \cup {AbsentFile} : PublishNamed(e, f)
    \/ \E f \in GenericFiles \cup {AbsentFile} : PublishGeneric(f)
    \/ \E a \in Attestations \cup {"absent"} : PublishAttestation(a)
    \/ \E k \in Keys \cup {"absent"} : PublishKey(k)

WorldNext == ChainStep \/ OperatorStep

WorldSpec == WorldInit /\ [][WorldNext]_world

(* What each implementation answers about an epoch if it looks now. *)
Answer(impl, e) ==
    IF reachable THEN Verdict(impl, e, batches[e], dir) ELSE RpcFailureVerdict(impl)

-----------------------------------------------------------------------------
(* The files an implementation may have read its answer from. *)
FilesOf(impl, e) == {dir.generic} \cup (IF impl = "wasm" THEN {} ELSE {dir.named[e]})

(* The leaves a batch file claims, as the contract would hash them. *)
ClaimedLeaves(b) ==
    {ComputeLeaf(b.leaves[i].beneficiary, b.leaves[i].amount, b.epoch) : i \in DOMAIN b.leaves}

(* A file's claims are real: all of them are under the on-chain root, for this
   epoch, and what it lists adds up to the on-chain total. *)
Backed(f, e) ==
    /\ f.kind = "batch"
    /\ f.batch.epoch = e
    /\ ClaimedLeaves(f.batch) # {}
    /\ ClaimedLeaves(f.batch) \subseteq batches[e].merkleRoot
    /\ batches[e].totalKwh =
           SumFunction([i \in DOMAIN f.batch.leaves |-> f.batch.leaves[i].amount])

(* An OK is never issued on data that does not reconcile with a finalized
   commitment, by any of the three verifiers (verify_epoch's fail-closed
   contract, seen from the result). *)
OkIsBacked ==
    \A impl \in {"python", "go", "wasm"}, e \in ViewedEpochs :
        Answer(impl, e) = "OK" =>
            batches[e].finalized /\ \E f \in FilesOf(impl, e) : Backed(f, e)

(* The two nodes say OK only when the operator published no signature material at
   all or a pair that is genuine: half of a pair, a forged or a relabelled one is
   never skipped (verifySig, and section 3 of _verify_finalized_epoch).  The one
   exception is left to UnreadableIsNotAbsent: for Go, files that are there but
   cannot be read count as not published. *)
OkIsSignedOrUnsigned ==
    \A impl \in {"python", "go"}, e \in ViewedEpochs :
        Answer(impl, e) = "OK" =>
            \/ dir.att = "absent" /\ dir.pub = "absent"
            \/ GenuinePair(dir.att, dir.pub)
            \/ impl = "go" /\ OnlyUnreadable(dir.att, dir.pub)

(* No amount that only one of the parsers takes, none beyond uint128. *)
PlainFile(f) ==
    f.kind = "batch" =>
        \A i \in DOMAIN f.batch.leaves :
            f.batch.leaves[i].literal # "fraction" /\ f.batch.leaves[i].amount <= UINT128_MAX

(* Go goes on to batch.json, and finds the epoch there, where Python stops. *)
GoFallsBack(e) ==
    /\ dir.named[e].kind # "absent"
    /\ ~HoldsEpoch("go", dir.named[e], e)
    /\ HoldsEpoch("go", dir.generic, e)

(* The Python and the Go node give the same answer about an epoch, text for an
   amount, torn files and mislabelled epochs included: the part of the parity claim
   that holds.  They part over a batch.json behind a batch-<epoch>.json that only
   Python stops at, over fractional and oversized amounts, and over signature
   material that is unreadable, over an empty payload or written with a prefix. *)
NodesAgreeOnPlainFiles ==
    \A e \in ViewedEpochs :
        (/\ PlainFile(dir.named[e])
         /\ PlainFile(dir.generic)
         /\ ~GoFallsBack(e)
         /\ dir.att \notin {"unreadable", "empty", "prefixed"}
         /\ dir.pub # "unreadable") =>
        Answer("python", e) = Answer("go", e)
=============================================================================
