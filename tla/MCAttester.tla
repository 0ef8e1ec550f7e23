----------------------------- MODULE MCAttester -----------------------------
(***************************************************************************)
(* Instances of NoethrionAttester for TLC.  Every cfg uses the same        *)
(* accounts; they differ in which inputs the callers pass.                 *)
(***************************************************************************)
EXTENDS NoethrionAttester, TLC

CONSTANTS admin, attester, v1, v2, v3, here, elsewhere

TwoValidators   == {admin, attester, v1, v2}
ThreeValidators == {admin, attester, v1, v2, v3}
Transactors2    == {admin, v1, v2}
Transactors3    == {admin, v1, v2, v3}

LeafOf(dom, b, amt, e) == [domain |-> dom, beneficiary |-> b, amount |-> amt, epoch |-> e]

(* One root, whose content does not matter: runs about voting. *)
SomeRoot == {{LeafOf(here, admin, 1, 1)}}

(* A root for epoch 1 and one for epoch 2.  The first also carries a leaf of
   the other epoch, a leaf of a sibling deployment and leaves claim() rejects. *)
ClaimRoots ==
    {{LeafOf(here, v1, 1, 1), LeafOf(here, v2, 2, 2), LeafOf(elsewhere, v2, 1, 1),
      LeafOf(here, ZeroAddress, 1, 1), LeafOf(here, v2, 0, 1)},
     {LeafOf(here, v1, 1, 2), LeafOf(here, v2, 2, 2)}}

NoOps == {}
AttesterOnly == {attester}
ValidatorOps(V) == {<<VALIDATOR_ROLE, v>> : v \in V}
OneValidatorOps == ValidatorOps({v1})
ThreeValidatorOps == ValidatorOps({v1, v2, v3})
(* A second pauser comes and goes, and the admin may give up its role. *)
GovernanceOps == OneValidatorOps \cup {<<PAUSER_ROLE, v2>>, <<ADMIN_ROLE, admin>>}

=============================================================================
