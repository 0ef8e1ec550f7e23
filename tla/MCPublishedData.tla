--------------------------- MODULE MCPublishedData ---------------------------
(***************************************************************************)
(* Published files and commitments for TLC: every kind of file the three   *)
(* verifiers treat differently, around one epoch.                          *)
(***************************************************************************)
EXTENDS PublishedData

CONSTANTS alice, bob

LeafA == ComputeLeaf(alice, 1, 1)
LeafB == ComputeLeaf(bob, 2, 1)

(* An honest commitment, one with a total that leaves bob out, and one that
   counts alice twice. *)
OneEpochCommitments ==
    {[epoch |-> 1, merkleRoot |-> {LeafA, LeafB}, totalKwh |-> 3],
     [epoch |-> 1, merkleRoot |-> {LeafA, LeafB}, totalKwh |-> 1],
     [epoch |-> 1, merkleRoot |-> {LeafA},        totalKwh |-> 2]}

(* A record as a correct operator writes it, and variations of it. *)
Record(l) == [beneficiary |-> l.beneficiary, amount |-> l.amount, literal |-> "integer",
              hash |-> l, proof |-> "intact"]
RecordA == Record(LeafA)
RecordB == Record(LeafB)

File(e, root, leaves) ==
    [kind |-> "batch", batch |-> [epoch |-> e, root |-> root, leaves |-> leaves]]
Unusable == {[kind |-> "unreadable"], [kind |-> "malformed"]}

Honest  == File(1, {LeafA, LeafB}, <<RecordA, RecordB>>)
Listing(leaves) == File(1, {LeafA, LeafB}, leaves)

OddRecords ==
    {[RecordA EXCEPT !.amount = 2],               \* tampered amount
     [RecordA EXCEPT !.amount = -1],
     [RecordA EXCEPT !.literal = "fraction"],
     [RecordA EXCEPT !.literal = "text"],
     [RecordA EXCEPT !.amount = UINT128_MAX + 1],
     [RecordA EXCEPT !.hash = NoHash],
     [RecordA EXCEPT !.beneficiary = BadAddress],
     [RecordA EXCEPT !.proof = "broken"],
     Record(ComputeLeaf(alice, 3, 1))}            \* never committed

OddFiles ==
    {Listing(<<>>), Listing(<<RecordA>>),
     File(1, {LeafA}, <<RecordA, RecordA>>), File(2, {LeafA, LeafB}, <<RecordA, RecordB>>)}
    \cup {Listing(<<r, RecordB>>) : r \in OddRecords}

AllFiles == {Honest} \cup OddFiles \cup Unusable
=============================================================================
