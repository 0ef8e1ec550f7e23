--------------------------- MODULE MCBatchBuilder ---------------------------
(* Batches of one to five readings, with repeated and oversized ones. *)
EXTENDS BatchBuilder, Bitwise

CONSTANTS alice, bob, carol, here, elsewhere

Reading(b, amt) == [beneficiary |-> b, amount |-> amt]
A1 == Reading(alice, 1)
A2 == Reading(alice, 2)
B2 == Reading(bob, 2)
C1 == Reading(carol, 1)

MCInputs ==
    {<<>>, <<A1>>, <<A1, B2>>, <<A2, B2>>, <<A1, A1>>, <<A1, B2, C1>>,
     <<A1, B2, C1, A2, A1>>,
     <<Reading(alice, UINT128_MAX + 2), B2>>,       \* beyond uint128
     <<Reading(alice, UINT256_MAX + 1)>>,           \* does not encode
     <<A1, Reading(BadAddress, 1)>>, <<Reading(bob, 0), A1>>}

(* The test of the padding loop, as the code makes it. *)
ASSUME PowerOfTwoTest == \A n \in 1..64 : IsPowerOfTwo(n) <=> (n & (n - 1)) = 0
=============================================================================
