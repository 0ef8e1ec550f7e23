---------------------- MODULE NoethrionAttesterProofs ----------------------
(***************************************************************************)
(* Theorems about NoethrionAttester composed with NoethrionToken, for any  *)
(* set of accounts, epochs, roots, tokens and parameter values.            *)
(***************************************************************************)
EXTENDS NoethrionAttester, NoethrionTokenProofs, FiniteSetTheorems

(* The named guards of the entry points are abbreviations: expand them always. *)
USE DEF IsValidator, EpochFree, VotingOpen, NotVoted, UnlocksAt, QuorumReached,
        WindowElapsed, MayFinalize, LatestWith, LeafHash, Claimable, NotClaimed,
        FitsUint64

(* The uint64 casts of proposeBatch lose nothing on the values the setters,
   the constructor and the clock let through. *)
LEMMA Uint64Lossless ==
    ASSUME NEW n \in Nat, n <= UINT64_MAX
    PROVE  Uint64(n) = n
  BY ParameterAssumption DEF Uint64

(* The entry points that write batch, vote or claim storage, or the clock;
   every other transaction leaves all of it alone. *)
LEMMA NextCases ==
    ASSUME Next
    PROVE  \/ \E c \in Callers, e \in Epochs, root \in Roots, kwh \in TotalKwhs :
                 ProposeBatch(c, e, root, kwh)
           \/ \E c \in Callers, e \in Epochs : VoteBatch(c, e)
           \/ \E e \in Epochs : FinalizeBatch(e)
           \/ \E e \in Epochs, b \in Accounts \cup {ZeroAddress}, a \in Amounts :
                 Claim(e, b, a)
           \/ Tick
           \/ UNCHANGED <<batches, voted, voteCount, claimed, latestEpoch, now>>
  <1> USE DEF batchVars, attesterVars
  <1>1. ASSUME NEW c \in Callers, AdminStep(c)
        PROVE  UNCHANGED <<batches, voted, voteCount, claimed, latestEpoch, now>>
    BY <1>1 DEF AdminStep, SetTokenContract, SetChallengeWindow, SetThreshold,
                Slash, Pause, Unpause
  <1>2. ASSUME RoleStep
        PROVE  UNCHANGED <<batches, voted, voteCount, claimed, latestEpoch, now>>
    BY <1>2 DEF RoleStep, GrantRole, RevokeRole, RenounceRole
  <1> QED BY <1>1, <1>2 DEF Next, AttesterNext, ValidatorStep, PublicStep

-----------------------------------------------------------------------------
(* Type correctness and the cap. *)

(* The batch proposeBatch writes is a batch. *)
LEMMA ProposeType ==
    ASSUME TypeOK, NEW c \in Callers, NEW e \in Epochs, NEW root \in Roots,
           NEW kwh \in TotalKwhs, ProposeBatch(c, e, root, kwh)
    PROVE  /\ batches' \in [Epochs -> AttestationBatch]
           /\ voted' \in [Epochs -> SUBSET Accounts]
           /\ voteCount' \in [Epochs -> Nat]
  <1> USE AccountsAssumption, DeploymentAssumption, ParameterAssumption
      DEF TypeOK, ProposeBatch, AttestationBatch
  <1>1. Uint64(now) \in Nat /\ Uint64(threshold) \in Nat /\ Uint64(challengeWindow) \in Nat
    BY DEF Uint64
  <1>2. kwh \in Nat /\ c \in Accounts
    OBVIOUS
  <1> QED BY <1>1, <1>2

(* finalizeBatch flips a flag of a batch. *)
LEMMA FinalizedIsBatch ==
    ASSUME NEW b \in AttestationBatch
    PROVE  [b EXCEPT !.finalized = TRUE] \in AttestationBatch
  BY DEF AttestationBatch

(* What the transactions of the attester do to the types, the token aside. *)
LEMMA AttesterTypeStep ==
    ASSUME TypeOK, SupplyCapped, Next
    PROVE  TypeOK' /\ SupplyCapped'
  <1> USE AccountsAssumption, TokenAssumption, DeploymentAssumption, ParameterAssumption
  <1> DEFINE AttesterTypes ==
          /\ roles \in [AttesterRole -> SUBSET Accounts]
          /\ paused \in BOOLEAN
          /\ tokenContract \in Tokens \cup {ZeroAddress}
          /\ challengeWindow \in 1 .. UINT64_MAX
          /\ threshold \in 1 .. UINT64_MAX
          /\ batches \in [Epochs -> AttestationBatch]
          /\ voted \in [Epochs -> SUBSET Accounts]
          /\ voteCount \in [Epochs -> Nat]
          /\ claimed \subseteq Leaf
          /\ slashEvidence \in [Accounts -> Evidence \cup {NoEvidence}]
          /\ latestEpoch \in Nat
          /\ now \in Nat \ {0}
  <1>0. AttesterTypes /\ TokenTypeOK
    BY DEF TypeOK
  <1>q. AttesterTypes' /\ TokenTypeOK' => TypeOK'
    BY DEF TypeOK
  <1>t. UNCHANGED tokenVars => TokenTypeOK' /\ SupplyCapped'
    BY <1>0 DEF tokenVars, TokenTypeOK, SupplyCapped
  <1>1. ASSUME NEW c \in Callers, NEW e \in Epochs, NEW root \in Roots,
               NEW kwh \in TotalKwhs, ProposeBatch(c, e, root, kwh)
        PROVE  AttesterTypes' /\ UNCHANGED tokenVars
    <2>1. /\ batches' \in [Epochs -> AttestationBatch]
          /\ voted' \in [Epochs -> SUBSET Accounts]
          /\ voteCount' \in [Epochs -> Nat]
      BY <1>1, ProposeType
    <2> QED BY <1>0, <1>1, <2>1 DEF ProposeBatch, paramVars, gateVars
  <1>2. ASSUME NEW c \in Callers, NEW e \in Epochs, VoteBatch(c, e)
        PROVE  AttesterTypes' /\ UNCHANGED tokenVars
    <2>1. voted' \in [Epochs -> SUBSET Accounts]
      BY <1>0, <1>2 DEF VoteBatch
    <2>2. voteCount' \in [Epochs -> Nat]
      BY <1>0, <1>2 DEF VoteBatch
    <2> QED BY <1>0, <1>2, <2>1, <2>2 DEF VoteBatch, paramVars, gateVars
  <1>3. ASSUME NEW e \in Epochs, FinalizeBatch(e)
        PROVE  AttesterTypes' /\ UNCHANGED tokenVars
    <2>0. [batches[e] EXCEPT !.finalized = TRUE] \in AttestationBatch
      BY <1>0, FinalizedIsBatch
    <2>1. batches' \in [Epochs -> AttestationBatch]
      BY <1>0, <1>3, <2>0 DEF FinalizeBatch
    <2>2. latestEpoch' \in Nat
      BY <1>0, <1>3 DEF FinalizeBatch
    <2> QED BY <1>0, <1>3, <2>1, <2>2 DEF FinalizeBatch, paramVars, gateVars
  <1>4. ASSUME NEW e \in Epochs, NEW b \in Accounts \cup {ZeroAddress},
               NEW a \in Amounts, Claim(e, b, a)
        PROVE  AttesterTypes' /\ TokenTypeOK' /\ SupplyCapped'
    <2>1. a \in Nat /\ e \in Nat /\ tokenContract \in Tokens
      BY <1>0, <1>4 DEF Claim
    <2>2. TokenTypeOK' /\ SupplyCapped'
      BY <1>0, <1>4, <2>1, MintStep DEF Claim
    <2>3. claimed' \subseteq Leaf
      BY <1>0, <1>4, <2>1 DEF Claim, Leaf
    <2> QED BY <1>0, <1>4, <2>2, <2>3 DEF Claim, paramVars, gateVars
  <1>5. ASSUME NEW c \in Callers, AdminStep(c)
        PROVE  AttesterTypes' /\ UNCHANGED tokenVars
    <2> USE <1>0 DEF batchVars, paramVars, gateVars
    <2>1. ASSUME NEW t \in Tokens \cup {ZeroAddress}, SetTokenContract(c, t)
          PROVE  AttesterTypes' /\ UNCHANGED tokenVars
      BY <2>1 DEF SetTokenContract
    <2>2. ASSUME NEW w \in Windows, SetChallengeWindow(c, w)
          PROVE  AttesterTypes' /\ UNCHANGED tokenVars
      <3>1. challengeWindow' \in 1 .. UINT64_MAX
        BY <2>2 DEF SetChallengeWindow
      <3> QED BY <2>2, <3>1 DEF SetChallengeWindow
    <2>3. ASSUME NEW n \in Thresholds, SetThreshold(c, n)
          PROVE  AttesterTypes' /\ UNCHANGED tokenVars
      <3>1. threshold' \in 1 .. UINT64_MAX
        BY <2>3 DEF SetThreshold
      <3> QED BY <2>3, <3>1 DEF SetThreshold
    <2>4. ASSUME NEW v \in Accounts, NEW h \in Evidence, Slash(c, v, h)
          PROVE  AttesterTypes' /\ UNCHANGED tokenVars
      <3>1. WithoutRole(roles, VALIDATOR_ROLE, v) \in [AttesterRole -> SUBSET Accounts]
        BY RoleTableType DEF AttesterRole
      <3> QED BY <2>4, <3>1 DEF Slash
    <2>5. ASSUME Pause(c) \/ Unpause(c)
          PROVE  AttesterTypes' /\ UNCHANGED tokenVars
      BY <2>5 DEF Pause, Unpause
    <2> QED BY <1>5, <2>1, <2>2, <2>3, <2>4, <2>5 DEF AdminStep
  <1>6. ASSUME RoleStep
        PROVE  AttesterTypes' /\ UNCHANGED tokenVars
    <2> PICK op \in RoleOps :
            \/ \E c \in Callers : GrantRole(c, op[1], op[2])
            \/ \E c \in Callers : RevokeRole(c, op[1], op[2])
            \/ RenounceRole(op[1], op[2])
      BY <1>6 DEF RoleStep
    <2>1. op[1] \in AttesterRole /\ op[2] \in Accounts
      OBVIOUS
    <2>2. /\ WithRole(roles, op[1], op[2]) \in [AttesterRole -> SUBSET Accounts]
          /\ WithoutRole(roles, op[1], op[2]) \in [AttesterRole -> SUBSET Accounts]
      BY <1>0, <2>1, RoleTableType
    <2> QED BY <1>0, <2>2
        DEF GrantRole, RevokeRole, RenounceRole, batchVars, paramVars
  <1>7. ASSUME TokenNext, UNCHANGED <<attesterVars, now>>
        PROVE  AttesterTypes' /\ TokenTypeOK' /\ SupplyCapped'
    <2>1. TokenTypeOK' /\ SupplyCapped'
      BY <1>0, <1>7, TokenStepSafe
    <2> QED BY <1>0, <1>7, <2>1 DEF attesterVars
  <1>8. ASSUME Tick
        PROVE  AttesterTypes' /\ UNCHANGED tokenVars
    BY <1>0, <1>8 DEF Tick, attesterVars
  <1> HIDE DEF AttesterTypes
  <1> QED BY <1>1, <1>2, <1>3, <1>4, <1>5, <1>6, <1>7, <1>8, <1>q, <1>t
      DEF Next, AttesterNext, ValidatorStep, PublicStep

(* The constructor's state. *)
LEMMA AttesterTypeInit == Init => TypeOK /\ SupplyCapped
  <1> SUFFICES ASSUME Init PROVE TypeOK /\ SupplyCapped
    OBVIOUS
  <1> USE AccountsAssumption, DeploymentAssumption, ParameterAssumption DEF Init
  <1>1. TokenTypeOK /\ SupplyCapped
    BY TokenInitSafe
  <1>2. NoBatch \in AttestationBatch
    BY DEF NoBatch, AttestationBatch
  <1>3. batches \in [Epochs -> AttestationBatch]
    BY <1>2
  <1>4. roles \in [AttesterRole -> SUBSET Accounts]
    OBVIOUS
  <1>5. /\ voted \in [Epochs -> SUBSET Accounts]
        /\ voteCount \in [Epochs -> Nat]
        /\ slashEvidence \in [Accounts -> Evidence \cup {NoEvidence}]
    OBVIOUS
  <1>6. /\ paused \in BOOLEAN
        /\ tokenContract \in Tokens \cup {ZeroAddress}
        /\ claimed \subseteq Leaf
    BY Zenon
  <1>7. /\ challengeWindow \in 1 .. UINT64_MAX
        /\ threshold \in 1 .. UINT64_MAX
        /\ latestEpoch \in Nat
        /\ now \in Nat \ {0}
    OBVIOUS
  <1> QED BY <1>1, <1>3, <1>4, <1>5, <1>6, <1>7 DEF TypeOK

(* Both contracts keep their types and the cap of every token instance holds
   in the composed system, where the attester mints inside claim(). *)
THEOREM AttesterTypeSafety == Spec => [](TypeOK /\ SupplyCapped)
  <1>1. TypeOK /\ SupplyCapped /\ UNCHANGED vars => (TypeOK /\ SupplyCapped)'
    BY DEF vars, attesterVars, tokenVars, TypeOK, TokenTypeOK, SupplyCapped
  <1>2. TypeOK /\ SupplyCapped /\ [Next]_vars => (TypeOK /\ SupplyCapped)'
    BY <1>1, AttesterTypeStep
  <1> QED BY <1>2, AttesterTypeInit, PTL DEF Spec

-----------------------------------------------------------------------------
(* The inductive invariant. *)

(* proposeBatch on a blank epoch starts its books. *)
LEMMA ProposeSound ==
    ASSUME AttesterInv, NEW c \in Callers, NEW e \in Epochs, NEW root \in Roots,
           NEW kwh \in TotalKwhs, ProposeBatch(c, e, root, kwh)
    PROVE  EpochSound(e)'
  <1> USE ParameterAssumption DEF AttesterInv
  <1>1. voted[e] = {} /\ ~Proposed(e)
    BY DEF EpochSound, ProposeBatch
  <1>2. Uint64(now) = now
    <2>1. now \in Nat /\ now <= UINT64_MAX
      BY DEF TypeOK, ProposeBatch
    <2> QED BY <2>1, Uint64Lossless
  <1>3. Uint64(threshold) = threshold /\ Uint64(challengeWindow) = challengeWindow
    BY Uint64Lossless DEF TypeOK
  <1>4. /\ voted'[e] = {c}
        /\ voteCount'[e] = 1
        /\ ~batches'[e].finalized
        /\ batches'[e].proposer = c
        /\ batches'[e].merkleRoot = root
        /\ batches'[e].thresholdAtPropose = threshold
        /\ batches'[e].challengeWindowAtPropose = challengeWindow
        /\ batches'[e].timestamp = now
    BY <1>1, <1>2, <1>3 DEF ProposeBatch, TypeOK
  <1>5. Cardinality({c}) = 1
    BY FS_Singleton
  <1>6. threshold >= 1 /\ challengeWindow >= 1 /\ now # 0
    BY DEF TypeOK
  <1> QED BY <1>4, <1>5, <1>6 DEF EpochSound, Proposed, Finalized

(* voteBatch keeps the tally and the flags in step. *)
LEMMA VoteSound ==
    ASSUME AttesterInv, NEW c \in Callers, NEW e \in Epochs, VoteBatch(c, e)
    PROVE  EpochSound(e)'
  <1> USE DEF AttesterInv
  <1>1. /\ voteCount[e] = Cardinality(voted[e])
        /\ Proposed(e) => /\ batches[e].merkleRoot \in Roots
                          /\ batches[e].thresholdAtPropose >= 1
                          /\ batches[e].challengeWindowAtPropose >= 1
                          /\ batches[e].proposer \in voted[e]
    BY DEF EpochSound
  <1>2. IsFiniteSet(voted[e])
    BY AccountsAssumption, FS_Subset DEF TypeOK
  <1>3. Cardinality(voted[e] \cup {c}) = Cardinality(voted[e]) + 1
    BY <1>2, FS_AddElement DEF VoteBatch
  <1>4. voted'[e] = voted[e] \cup {c} /\ voteCount'[e] = voteCount[e] + 1
    BY DEF VoteBatch, TypeOK
  <1>5. Proposed(e) /\ ~Finalized(e) /\ batches' = batches
    BY DEF VoteBatch
  <1> QED BY <1>1, <1>3, <1>4, <1>5 DEF EpochSound, Proposed, Finalized

(* finalizeBatch flips the flag of an epoch whose terms are met. *)
LEMMA FinalizeSound ==
    ASSUME AttesterInv, NEW e \in Epochs, FinalizeBatch(e)
    PROVE  EpochSound(e)'
  <1> USE DEF AttesterInv
  <1>1. batches'[e] = [batches[e] EXCEPT !.finalized = TRUE]
    BY DEF FinalizeBatch, TypeOK
  <1>2. /\ batches'[e].timestamp = batches[e].timestamp
        /\ batches'[e].proposer = batches[e].proposer
        /\ batches'[e].merkleRoot = batches[e].merkleRoot
        /\ batches'[e].thresholdAtPropose = batches[e].thresholdAtPropose
        /\ batches'[e].challengeWindowAtPropose = batches[e].challengeWindowAtPropose
    BY <1>1 DEF TypeOK, AttestationBatch
  <1>3. UNCHANGED <<voted, voteCount, now>>
    BY DEF FinalizeBatch
  <1>4. EpochSound(e)
    OBVIOUS
  <1> QED BY <1>2, <1>3, <1>4 DEF FinalizeBatch, EpochSound, Proposed, Finalized

(* A step that leaves an epoch's storage alone and lets time pass keeps the
   epoch sound. *)
LEMMA FrameSound ==
    ASSUME AttesterInv, NEW e \in Epochs, batches'[e] = batches[e],
           voted'[e] = voted[e], voteCount'[e] = voteCount[e],
           now' \in Nat, now' >= now
    PROVE  EpochSound(e)'
  <1>1. /\ batches[e].timestamp \in Nat
        /\ batches[e].challengeWindowAtPropose \in Nat
        /\ now \in Nat
    BY DEF AttesterInv, TypeOK, AttestationBatch
  <1>2. EpochSound(e)
    BY DEF AttesterInv
  <1> QED BY <1>1, <1>2 DEF EpochSound, Proposed, Finalized

(* Every transaction and every new block keeps every epoch sound. *)
LEMMA EpochsStaySound ==
    ASSUME AttesterInv, Next
    PROVE  \A e \in Epochs : EpochSound(e)'
  <1> TAKE e \in Epochs
  <1>n. now \in Nat
    BY DEF AttesterInv, TypeOK
  <1>1. ASSUME NEW c \in Callers, NEW x \in Epochs, NEW root \in Roots,
               NEW kwh \in TotalKwhs, ProposeBatch(c, x, root, kwh)
        PROVE  EpochSound(e)'
    <2>1. CASE x = e
      BY <1>1, <2>1, ProposeSound
    <2>2. CASE x # e
      BY <1>1, <1>n, <2>2, FrameSound DEF ProposeBatch, AttesterInv, TypeOK
    <2> QED BY <2>1, <2>2
  <1>2. ASSUME NEW c \in Callers, NEW x \in Epochs, VoteBatch(c, x)
        PROVE  EpochSound(e)'
    <2>1. CASE x = e
      BY <1>2, <2>1, VoteSound
    <2>2. CASE x # e
      BY <1>2, <1>n, <2>2, FrameSound DEF VoteBatch, AttesterInv, TypeOK
    <2> QED BY <2>1, <2>2
  <1>3. ASSUME NEW x \in Epochs, FinalizeBatch(x)
        PROVE  EpochSound(e)'
    <2>1. CASE x = e
      BY <1>3, <2>1, FinalizeSound
    <2>2. CASE x # e
      BY <1>3, <1>n, <2>2, FrameSound DEF FinalizeBatch, AttesterInv, TypeOK
    <2> QED BY <2>1, <2>2
  <1>4. ASSUME UNCHANGED <<batches, voted, voteCount>>, now' = now \/ now' = now + 1
        PROVE  EpochSound(e)'
    BY <1>4, <1>n, FrameSound
  <1>5. ASSUME NEW x, NEW b, NEW a, Claim(x, b, a)
        PROVE  EpochSound(e)'
    BY <1>5, <1>4 DEF Claim
  <1>6. ASSUME Tick
        PROVE  EpochSound(e)'
    BY <1>6, <1>4 DEF Tick, attesterVars
  <1> QED BY <1>1, <1>2, <1>3, <1>4, <1>5, <1>6, NextCases

(* What a step does to the batch of one epoch: nothing, the first proposal on
   the terms in force, or finalization. *)
LEMMA BatchStep ==
    ASSUME AttesterInv, Next, NEW e \in Epochs
    PROVE  \/ batches'[e] = batches[e]
           \/ ~Proposed(e) /\ ProposedOnTerms(e)
           \/ Proposed(e) /\ ~Finalized(e)
               /\ batches'[e] = [batches[e] EXCEPT !.finalized = TRUE]
  <1>0. /\ batches \in [Epochs -> AttestationBatch]
        /\ now \in Nat
        /\ threshold \in 1 .. UINT64_MAX
        /\ challengeWindow \in 1 .. UINT64_MAX
    BY DEF AttesterInv, TypeOK
  <1> USE <1>0
  <1>1. ASSUME NEW c \in Callers, NEW x \in Epochs, NEW root \in Roots,
               NEW kwh \in TotalKwhs, ProposeBatch(c, x, root, kwh)
        PROVE  batches'[e] = batches[e] \/ (~Proposed(e) /\ ProposedOnTerms(e))
    <2>1. CASE x # e
      <3>1. batches'[e] = batches[e]
        BY <1>1, <2>1 DEF ProposeBatch
      <3> QED BY <3>1 DEF ProposedOnTerms
    <2>2. CASE x = e
      <3>1. now \in Nat /\ now <= UINT64_MAX
        BY <1>1, ParameterAssumption DEF ProposeBatch
      <3>2. /\ Uint64(now) = now
            /\ Uint64(threshold) = threshold
            /\ Uint64(challengeWindow) = challengeWindow
        BY <3>1, Uint64Lossless, ParameterAssumption
      <3> QED BY <1>1, <2>2, <3>2 DEF ProposeBatch, ProposedOnTerms
    <2> QED BY <2>1, <2>2
  <1>2. ASSUME NEW x \in Epochs, FinalizeBatch(x)
        PROVE  \/ batches'[e] = batches[e]
               \/ Proposed(e) /\ ~Finalized(e)
                   /\ batches'[e] = [batches[e] EXCEPT !.finalized = TRUE]
    BY <1>2 DEF FinalizeBatch
  <1>3. ASSUME UNCHANGED batches
        PROVE  batches'[e] = batches[e]
    BY <1>3
  <1>4. ASSUME NEW c, NEW x, VoteBatch(c, x)
        PROVE  UNCHANGED batches
    BY <1>4 DEF VoteBatch
  <1>5. ASSUME NEW x, NEW b, NEW a, Claim(x, b, a)
        PROVE  UNCHANGED batches
    BY <1>5 DEF Claim
  <1>6. ASSUME Tick
        PROVE  UNCHANGED batches
    BY <1>6 DEF Tick, attesterVars
  <1> QED BY <1>1, <1>2, <1>3, <1>4, <1>5, <1>6, NextCases

(* A final batch stays final, with the root it was finalized with. *)
LEMMA FinalStaysFinal ==
    ASSUME AttesterInv, Next, NEW e \in Epochs, Finalized(e)
    PROVE  batches'[e] = batches[e]
  <1>1. Proposed(e)
    BY DEF AttesterInv, EpochSound
  <1> QED BY <1>1, BatchStep

(* latestEpoch follows the finalizations. *)
LEMMA LatestEpochStep ==
    ASSUME AttesterInv, Next
    PROVE  LatestEpochIsMax'
  <1> USE DeploymentAssumption DEF LatestEpochIsMax
  <1>0. /\ LatestEpochIsMax
        /\ latestEpoch \in Nat
        /\ batches \in [Epochs -> AttestationBatch]
    BY DEF AttesterInv, TypeOK
  <1>1. ASSUME NEW x \in Epochs, FinalizeBatch(x)
        PROVE  LatestEpochIsMax'
    <2>1. \A e \in Epochs : Finalized(e)' <=> Finalized(e) \/ e = x
      BY <1>0, <1>1 DEF FinalizeBatch, Finalized, AttestationBatch
    <2>2. latestEpoch' = IF x > latestEpoch THEN x ELSE latestEpoch
      BY <1>1 DEF FinalizeBatch
    <2>3. x \in Nat /\ \A e \in Epochs : e \in Nat
      OBVIOUS
    <2> QED BY <1>0, <2>1, <2>2, <2>3
  <1>2. ASSUME \A e \in Epochs : Finalized(e)' = Finalized(e),
               UNCHANGED latestEpoch
        PROVE  LatestEpochIsMax'
    BY <1>0, <1>2
  <1>3. ASSUME NEW c \in Callers, NEW x \in Epochs, NEW root \in Roots,
               NEW kwh \in TotalKwhs, ProposeBatch(c, x, root, kwh)
        PROVE  LatestEpochIsMax'
    <2>1. ~Finalized(x)
      BY <1>3 DEF AttesterInv, EpochSound, ProposeBatch
    <2>2. \A e \in Epochs : Finalized(e)' = Finalized(e)
      BY <1>0, <1>3, <2>1 DEF ProposeBatch, Finalized, AttestationBatch
    <2> QED BY <1>2, <1>3, <2>2 DEF ProposeBatch
  <1>4. ASSUME UNCHANGED <<batches, latestEpoch>>
        PROVE  LatestEpochIsMax'
    BY <1>2, <1>4 DEF Finalized
  <1>5. ASSUME NEW c, NEW x, VoteBatch(c, x)
        PROVE  UNCHANGED <<batches, latestEpoch>>
    BY <1>5 DEF VoteBatch
  <1>6. ASSUME NEW x, NEW b, NEW a, Claim(x, b, a)
        PROVE  UNCHANGED <<batches, latestEpoch>>
    BY <1>6 DEF Claim
  <1>7. ASSUME Tick
        PROVE  UNCHANGED <<batches, latestEpoch>>
    BY <1>7 DEF Tick, attesterVars
  <1> QED BY <1>1, <1>3, <1>4, <1>5, <1>6, <1>7, NextCases

(* A leaf that claim() records is committed, and stays so. *)
LEMMA ClaimedStep ==
    ASSUME AttesterInv, Next
    PROVE  ClaimedWasCommitted'
  <1>1. ASSUME NEW l \in claimed
        PROVE  /\ l.domain = ThisDomain
               /\ l.beneficiary # ZeroAddress
               /\ l.amount > 0
               /\ l.epoch \in Epochs
               /\ Finalized(l.epoch)'
               /\ l \in batches'[l.epoch].merkleRoot
    <2>1. /\ l.epoch \in Epochs
          /\ Finalized(l.epoch)
          /\ l \in batches[l.epoch].merkleRoot
          /\ l.domain = ThisDomain
          /\ l.beneficiary # ZeroAddress
          /\ l.amount > 0
      BY <1>1 DEF AttesterInv, ClaimedWasCommitted
    <2>2. batches'[l.epoch] = batches[l.epoch]
      BY <2>1, FinalStaysFinal
    <2> QED BY <2>1, <2>2 DEF Finalized
  <1>2. CASE claimed' = claimed
    BY <1>1, <1>2 DEF ClaimedWasCommitted
  <1>3. ASSUME NEW e \in Epochs, NEW b \in Accounts \cup {ZeroAddress},
               NEW a \in Amounts, Claim(e, b, a)
        PROVE  ClaimedWasCommitted'
    <2> DEFINE leaf == [domain |-> ThisDomain, beneficiary |-> b, amount |-> a, epoch |-> e]
    <2>1. claimed' = claimed \cup {leaf} /\ batches' = batches
      BY <1>3 DEF Claim
    <2>2. /\ leaf.domain = ThisDomain
          /\ leaf.beneficiary # ZeroAddress
          /\ leaf.amount > 0
          /\ leaf.epoch = e
      BY <1>3, TokenAssumption DEF Claim
    <2>3. Finalized(e)' /\ leaf \in batches'[e].merkleRoot
      BY <1>3, <2>1 DEF Claim, MerkleProofVerify, Finalized
    <2> HIDE DEF leaf
    <2> QED BY <1>1, <2>1, <2>2, <2>3 DEF ClaimedWasCommitted
  <1>4. ASSUME NEW c, NEW x, NEW root, NEW kwh,
               VoteBatch(c, x) \/ FinalizeBatch(x) \/ Tick \/ ProposeBatch(c, x, root, kwh)
        PROVE  claimed' = claimed
    BY <1>4 DEF VoteBatch, FinalizeBatch, Tick, ProposeBatch, attesterVars
  <1> QED BY <1>2, <1>3, <1>4, NextCases

(* The constructor's state. *)
LEMMA AttesterInvInit == Init => AttesterInv
  <1> SUFFICES ASSUME Init PROVE AttesterInv
    OBVIOUS
  <1>1. TypeOK /\ SupplyCapped
    BY AttesterTypeInit
  <1>2. \A e \in Epochs : EpochSound(e)
    BY FS_EmptySet DEF Init, EpochSound, Proposed, Finalized, NoBatch
  <1>3. LatestEpochIsMax /\ ClaimedWasCommitted
    BY DEF Init, LatestEpochIsMax, ClaimedWasCommitted, Finalized, NoBatch
  <1> QED BY <1>1, <1>2, <1>3 DEF AttesterInv

(* One transaction, or one block, keeps the invariant. *)
LEMMA AttesterInvStep ==
    ASSUME AttesterInv, [Next]_vars
    PROVE  AttesterInv'
  <1>1. CASE Next
    <2>1. TypeOK' /\ SupplyCapped'
      BY <1>1, AttesterTypeStep DEF AttesterInv
    <2>2. \A e \in Epochs : EpochSound(e)'
      BY <1>1, EpochsStaySound
    <2>3. LatestEpochIsMax' /\ ClaimedWasCommitted'
      BY <1>1, LatestEpochStep, ClaimedStep
    <2> QED BY <2>1, <2>2, <2>3 DEF AttesterInv
  <1>2. CASE UNCHANGED vars
    <2> USE <1>2 DEF vars, attesterVars, tokenVars
    <2>1. TypeOK' /\ SupplyCapped'
      BY DEF AttesterInv, TypeOK, TokenTypeOK, SupplyCapped
    <2>2. \A e \in Epochs : EpochSound(e)'
      BY DEF AttesterInv, EpochSound, Proposed, Finalized
    <2>3. LatestEpochIsMax' /\ ClaimedWasCommitted'
      BY DEF AttesterInv, LatestEpochIsMax, ClaimedWasCommitted, Finalized
    <2> QED BY <2>1, <2>2, <2>3 DEF AttesterInv
  <1> QED BY <1>1, <1>2

(* The invariant of the attester holds in every reachable state. *)
THEOREM AttesterInvariant == Spec => []AttesterInv
  BY AttesterInvInit, AttesterInvStep, PTL DEF Spec

-----------------------------------------------------------------------------
(* The safety properties. *)

(* The tally that finalizeBatch reads always equals the number of validators
   flagged as having voted. *)
THEOREM TallySafety == Spec => []VoteCountMatchesVoted
  <1>1. AttesterInv => VoteCountMatchesVoted
    BY DEF AttesterInv, VoteCountMatchesVoted, EpochSound
  <1> QED BY <1>1, AttesterInvariant, PTL

(* finalizeBatch never lets a batch through below the quorum of its proposal. *)
THEOREM QuorumSafety == Spec => []FinalizedHasQuorum
  <1>1. AttesterInv => FinalizedHasQuorum
    BY DEF AttesterInv, FinalizedHasQuorum, EpochSound
  <1> QED BY <1>1, AttesterInvariant, PTL

(* No batch is final before the window of its proposal has elapsed. *)
THEOREM WindowSafety == Spec => []FinalizedAfterWindow
  <1>1. AttesterInv => FinalizedAfterWindow
    BY DEF AttesterInv, FinalizedAfterWindow, EpochSound
  <1> QED BY <1>1, AttesterInvariant, PTL

(* latestEpoch is the highest finalized epoch in every order of finalization. *)
THEOREM LatestEpochSafety == Spec => []LatestEpochIsMax
  BY AttesterInvariant, PTL DEF AttesterInv

(* Everything ever paid out was committed for its own epoch and domain. *)
THEOREM ClaimSafety == Spec => []ClaimedWasCommitted
  BY AttesterInvariant, PTL DEF AttesterInv

(* Batches are written once, on the terms in force. *)
THEOREM BatchImmutability == Spec => BatchWrittenOnce
  <1> DEFINE Step == \A e \in Epochs :
          \/ batches'[e] = batches[e]
          \/ ~Proposed(e) /\ ProposedOnTerms(e)
          \/ Proposed(e) /\ ~Finalized(e)
              /\ batches'[e] = [batches[e] EXCEPT !.finalized = TRUE]
  <1>1. AttesterInv /\ [Next]_vars => [Step]_vars
    BY BatchStep
  <1> QED BY <1>1, AttesterInvariant, PTL DEF Spec, BatchWrittenOnce

(* Votes are cast by current validators on open batches and never lost. *)
THEOREM VotePermanence == Spec => VotesAreFinal
  <1> DEFINE Step == \A e \in Epochs :
          /\ voted[e] \subseteq voted'[e]
          /\ voted'[e] # voted[e] =>
                /\ voted'[e] \ voted[e] \subseteq roles[VALIDATOR_ROLE]
                /\ ~Finalized(e)
  <1>1. ASSUME AttesterInv, Next
        PROVE  Step
    <2> USE <1>1
    <2>0. voted \in [Epochs -> SUBSET Accounts]
      BY DEF AttesterInv, TypeOK
    <2>1. ASSUME NEW c \in Callers, NEW x \in Epochs, NEW root \in Roots,
                 NEW kwh \in TotalKwhs, ProposeBatch(c, x, root, kwh)
          PROVE  Step
      <3>1. ~Finalized(x)
        BY <2>1 DEF AttesterInv, EpochSound, ProposeBatch
      <3> QED BY <2>0, <2>1, <3>1 DEF ProposeBatch, HasRole
    <2>2. ASSUME NEW c \in Callers, NEW x \in Epochs, VoteBatch(c, x)
          PROVE  Step
      BY <2>0, <2>2 DEF VoteBatch, HasRole
    <2>3. ASSUME UNCHANGED voted
          PROVE  Step
      BY <2>3
    <2>4. ASSUME NEW x, NEW b, NEW a, FinalizeBatch(x) \/ Claim(x, b, a) \/ Tick
          PROVE  UNCHANGED voted
      BY <2>4 DEF FinalizeBatch, Claim, Tick, attesterVars
    <2> HIDE DEF Step
    <2> QED BY <2>1, <2>2, <2>3, <2>4, NextCases
  <1>2. AttesterInv /\ [Next]_vars => [Step]_vars
    BY <1>1
  <1> QED BY <1>2, AttesterInvariant, PTL DEF Spec, VotesAreFinal

(* While paused, nothing a batch or a claim depends on moves. *)
THEOREM PauseSafety == Spec => PauseFreezes
  <1>1. ASSUME Next, paused
        PROVE  UNCHANGED batchVars
    <2> USE <1>1 DEF batchVars
    <2>1. ASSUME NEW c, NEW x, NEW root, NEW kwh
          PROVE  ~ProposeBatch(c, x, root, kwh) /\ ~VoteBatch(c, x)
      BY DEF ProposeBatch, VoteBatch
    <2>2. ASSUME NEW x, NEW b, NEW a
          PROVE  ~FinalizeBatch(x) /\ ~Claim(x, b, a)
      BY DEF FinalizeBatch, Claim
    <2>3. Tick => UNCHANGED batchVars
      BY DEF Tick, attesterVars
    <2> QED BY <2>1, <2>2, <2>3, NextCases
  <1>2. [Next]_vars => [paused => UNCHANGED batchVars]_vars
    BY <1>1
  <1> QED BY <1>2, PTL DEF Spec, PauseFreezes

-----------------------------------------------------------------------------
(* Issuance. *)

(* What a transaction of the token does to the minters and to the supply, where
   only the attester is ever authorized: the attester is a contract and sends
   no transaction of its own, so none of them mints. *)
LEMMA TokenStepIssues ==
    ASSUME TypeOK, OnlyAttesterHolds, OnlyAttesterMints, TokenNext
    PROVE  OnlyAttesterHolds' /\ totalSupply' = totalSupply
  <1> USE DeploymentAssumption, TokenAssumption DEF OnlyAttesterMints
  <1>0. tokenRoles \in [Tokens -> [TokenRole -> SUBSET Accounts]]
    BY DEF TypeOK, TokenTypeOK
  <1> PICK t \in Tokens : TokenStep(t)
    BY DEF TokenNext
  <1>1. ASSUME NEW role \in TokenRole, NEW account,
               \/ /\ role = MINTER_ROLE => account = Attester
                  /\ tokenRoles' = [tokenRoles EXCEPT ![t] = WithRole(@, role, account)]
               \/ tokenRoles' = [tokenRoles EXCEPT ![t] = WithoutRole(@, role, account)]
        PROVE  OnlyAttesterHolds'
    <2>1. tokenRoles'[t][MINTER_ROLE] \subseteq {Attester}
      <3>1. CASE /\ role = MINTER_ROLE => account = Attester
                 /\ tokenRoles' = [tokenRoles EXCEPT ![t] = WithRole(@, role, account)]
        BY <1>0, <3>1 DEF WithRole, OnlyAttesterHolds, TokenRole
      <3>2. CASE tokenRoles' = [tokenRoles EXCEPT ![t] = WithoutRole(@, role, account)]
        BY <1>0, <3>2 DEF WithoutRole, OnlyAttesterHolds, TokenRole
      <3> QED BY <1>1, <3>1, <3>2
    <2>2. \A u \in Tokens \ {t} : tokenRoles'[u] = tokenRoles[u]
      BY <1>0, <1>1
    <2> QED BY <2>1, <2>2 DEF OnlyAttesterHolds
  <1>2. ASSUME NEW c \in Callers, NEW m \in Minters,
               AuthorizeMinter(t, c, m) \/ RevokeMinter(t, c, m)
        PROVE  OnlyAttesterHolds' /\ totalSupply' = totalSupply
    <2>1. m = Attester
      OBVIOUS
    <2> QED BY <1>1, <1>2, <2>1 DEF AuthorizeMinter, RevokeMinter, TokenRole
  <1>3. ASSUME NEW c \in Callers, NEW to, NEW amt, Mint(t, c, to, amt)
        PROVE  FALSE
    BY <1>3 DEF Mint, MayMint, HasRole, OnlyAttesterHolds
  <1>4. ASSUME NEW op \in TokenRoleOps,
               \/ \E c \in Callers : TokenGrantRole(t, c, op[1], op[2])
               \/ \E c \in Callers : TokenRevokeRole(t, c, op[1], op[2])
               \/ TokenRenounceRole(t, op[1], op[2])
        PROVE  OnlyAttesterHolds' /\ totalSupply' = totalSupply
    <2>1. op[1] \in TokenRole /\ (op[1] = MINTER_ROLE => op[2] = Attester)
      OBVIOUS
    <2> QED BY <1>4, <2>1, <1>1 DEF TokenGrantRole, TokenRevokeRole, TokenRenounceRole
  <1>5. ASSUME NEW from, NEW to, NEW amt, Transfer(t, from, to, amt)
        PROVE  OnlyAttesterHolds' /\ totalSupply' = totalSupply
    BY <1>5 DEF Transfer, OnlyAttesterHolds
  <1> QED BY <1>2, <1>3, <1>4, <1>5 DEF TokenStep

(* The transactions of the attester other than claim(), and a new block, leave
   the token and the claims alone. *)
LEMMA OnlyClaimIssues ==
    ASSUME Next
    PROVE  \/ \E e \in Epochs, b \in Accounts \cup {ZeroAddress}, a \in Amounts :
                 Claim(e, b, a)
           \/ TokenNext /\ UNCHANGED <<attesterVars, now>>
           \/ UNCHANGED <<claimed, tokenVars>>
  <1> USE DEF batchVars, attesterVars
  <1>1. ASSUME NEW c \in Callers, AdminStep(c)
        PROVE  UNCHANGED <<claimed, tokenVars>>
    BY <1>1 DEF AdminStep, SetTokenContract, SetChallengeWindow, SetThreshold,
                Slash, Pause, Unpause
  <1>2. ASSUME RoleStep
        PROVE  UNCHANGED <<claimed, tokenVars>>
    BY <1>2 DEF RoleStep, GrantRole, RevokeRole, RenounceRole
  <1>3. ASSUME NEW c, ValidatorStep(c)
        PROVE  UNCHANGED <<claimed, tokenVars>>
    BY <1>3 DEF ValidatorStep, ProposeBatch, VoteBatch
  <1>4. ASSUME NEW e, FinalizeBatch(e)
        PROVE  UNCHANGED <<claimed, tokenVars>>
    BY <1>4 DEF FinalizeBatch
  <1>5. Tick => UNCHANGED <<claimed, tokenVars>>
    BY DEF Tick
  <1> QED BY <1>1, <1>2, <1>3, <1>4, <1>5 DEF Next, AttesterNext, PublicStep

(* claim() records one leaf, and issues and credits its amount. *)
LEMMA ClaimIssues ==
    ASSUME TypeOK, NEW e \in Epochs, NEW b \in Accounts \cup {ZeroAddress},
           NEW a \in Amounts, Claim(e, b, a)
    PROVE  LET leaf == LeafHash(e, b, a)
           IN  /\ leaf \in Leaf /\ leaf \notin claimed /\ claimed' = claimed \cup {leaf}
               /\ leaf.amount = a /\ leaf.beneficiary = b /\ a \in Nat
               /\ tokenContract \in Tokens
               /\ totalSupply' = [totalSupply EXCEPT ![tokenContract] = @ + a]
               /\ balanceOf' = [balanceOf EXCEPT ![tokenContract][b] = @ + a]
               /\ tokenRoles' = tokenRoles
  <1> USE DeploymentAssumption, TokenAssumption DEF Claim
  <1>1. tokenContract \in Tokens /\ a \in Nat /\ e \in Nat
    BY DEF TypeOK
  <1>2. LeafHash(e, b, a) \in Leaf
    BY <1>1 DEF Leaf
  <1>3. balanceOf' = [balanceOf EXCEPT ![tokenContract][b] = @ + a]
    BY DEF Mint, Credit, Moved
  <1>4. /\ totalSupply' = [totalSupply EXCEPT ![tokenContract] = @ + a]
        /\ tokenRoles' = tokenRoles
    BY DEF Mint
  <1>5. /\ LeafHash(e, b, a) \notin claimed
        /\ claimed' = claimed \cup {LeafHash(e, b, a)}
        /\ LeafHash(e, b, a).amount = a
        /\ LeafHash(e, b, a).beneficiary = b
    OBVIOUS
  <1> QED BY <1>1, <1>2, <1>3, <1>4, <1>5

(* A step pays at most one leaf, in the current token, and where only the
   attester mints nothing else is issued. *)
LEMMA IssuanceStep ==
    ASSUME TypeOK, OnlyAttesterHolds, Next
    PROVE  /\ claimed' # claimed =>
                \E l \in claimed' \ claimed :
                    /\ claimed' = claimed \cup {l}
                    /\ tokenContract \in Tokens
                    /\ totalSupply' = [totalSupply EXCEPT ![tokenContract] = @ + l.amount]
                    /\ balanceOf' = [balanceOf EXCEPT
                                        ![tokenContract][l.beneficiary] = @ + l.amount]
           /\ OnlyAttesterMints /\ claimed' = claimed => totalSupply' = totalSupply
           /\ OnlyAttesterHolds'
  <1>1. ASSUME NEW e \in Epochs, NEW b \in Accounts \cup {ZeroAddress},
               NEW a \in Amounts, Claim(e, b, a)
        PROVE  /\ \E l \in claimed' \ claimed :
                    /\ claimed' = claimed \cup {l}
                    /\ tokenContract \in Tokens
                    /\ totalSupply' = [totalSupply EXCEPT ![tokenContract] = @ + l.amount]
                    /\ balanceOf' = [balanceOf EXCEPT
                                        ![tokenContract][l.beneficiary] = @ + l.amount]
               /\ claimed' # claimed
               /\ OnlyAttesterHolds'
    <2> DEFINE leaf == LeafHash(e, b, a)
    <2>1. /\ leaf \notin claimed /\ claimed' = claimed \cup {leaf}
          /\ leaf.amount = a /\ leaf.beneficiary = b
          /\ tokenContract \in Tokens
          /\ totalSupply' = [totalSupply EXCEPT ![tokenContract] = @ + a]
          /\ balanceOf' = [balanceOf EXCEPT ![tokenContract][b] = @ + a]
          /\ tokenRoles' = tokenRoles
      BY <1>1, ClaimIssues
    <2> HIDE DEF leaf
    <2>2. leaf \in claimed' \ claimed /\ claimed' # claimed
      BY <2>1
    <2>3. OnlyAttesterHolds'
      BY <2>1 DEF OnlyAttesterHolds
    <2>4. /\ totalSupply' = [totalSupply EXCEPT ![tokenContract] = @ + leaf.amount]
          /\ balanceOf' = [balanceOf EXCEPT ![tokenContract][leaf.beneficiary] = @ + leaf.amount]
      BY <2>1, Zenon
    <2> QED BY <2>1, <2>2, <2>3, <2>4, Zenon
  <1>2. ASSUME TokenNext, UNCHANGED <<attesterVars, now>>
        PROVE  /\ claimed' = claimed
               /\ OnlyAttesterMints => totalSupply' = totalSupply
               /\ OnlyAttesterHolds'
    BY <1>2, TokenStepIssues DEF attesterVars, OnlyAttesterHolds
  <1>3. ASSUME UNCHANGED <<claimed, tokenVars>>
        PROVE  /\ claimed' = claimed /\ totalSupply' = totalSupply
               /\ OnlyAttesterHolds'
    BY <1>3 DEF tokenVars, OnlyAttesterHolds
  <1> QED BY <1>1, <1>2, <1>3, OnlyClaimIssues, Zenon

(* One more leaf adds its amount to what the claimed leaves are worth. *)
LEMMA ClaimAddsAmount ==
    ASSUME NEW C, IsFiniteSet(C), NEW l, l \notin C, \A x \in C \cup {l} : x.amount \in Int
    PROVE  SumFunctionOnSet([x \in C \cup {l} |-> x.amount], C \cup {l})
               = SumFunctionOnSet([x \in C |-> x.amount], C) + l.amount
  <1> DEFINE f == [x \in C \cup {l} |-> x.amount]
             g == [x \in C |-> x.amount]
  <1>1. \A x \in C \cup {l} : f[x] \in Int
    OBVIOUS
  <1>2. f[l] = l.amount /\ \A x \in C : f[x] = g[x] /\ g[x] \in Int
    OBVIOUS
  <1> HIDE DEF f, g
  <1>3. SumFunctionOnSet(f, C \cup {l}) = f[l] + SumFunctionOnSet(f, C)
    BY <1>1, SumAdd
  <1>4. SumFunctionOnSet(f, C) = SumFunctionOnSet(g, C)
    BY <1>2, SumCongruence
  <1>5. SumFunctionOnSet(g, C) \in Int
    BY <1>2, SumInt
  <1>6. f[l] \in Int
    BY <1>1
  <1>7. SumFunctionOnSet(f, C \cup {l}) = SumFunctionOnSet(g, C) + l.amount
    BY <1>2, <1>3, <1>4, <1>5, <1>6
  <1> QED BY <1>7 DEF f, g

(* The books of the composed contracts stay balanced. *)
LEMMA IssuanceInvStep ==
    ASSUME TypeOK, TypeOK', IssuanceInv, Next
    PROVE  IssuanceInv'
  <1> USE DEF IssuanceInv
  <1>1. OnlyAttesterHolds'
    BY IssuanceStep
  <1>2. IsFiniteSet(claimed')
    <2>1. CASE claimed' = claimed
      BY <2>1
    <2>2. CASE claimed' # claimed
      <3>1. PICK l : claimed' = claimed \cup {l}
        BY <2>2, IssuanceStep
      <3> QED BY <3>1, FS_AddElement
    <2> QED BY <2>1, <2>2
  <1>3. SupplyMatchesClaims'
    <2> SUFFICES ASSUME OnlyAttesterMints
                 PROVE  SumFunctionOnSet(totalSupply', Tokens)
                            = SumFunctionOnSet([l \in claimed' |-> l.amount], claimed')
      BY DEF SupplyMatchesClaims
    <2>0. SumFunctionOnSet(totalSupply, Tokens)
              = SumFunctionOnSet([l \in claimed |-> l.amount], claimed)
      BY DEF SupplyMatchesClaims
    <2>1. CASE claimed' = claimed
      <3>1. totalSupply' = totalSupply
        BY <2>1, IssuanceStep
      <3> QED BY <2>0, <2>1, <3>1
    <2>2. CASE claimed' # claimed
      <3>1. PICK l \in claimed' \ claimed :
                /\ claimed' = claimed \cup {l}
                /\ tokenContract \in Tokens
                /\ totalSupply' = [totalSupply EXCEPT ![tokenContract] = @ + l.amount]
        BY <2>2, IssuanceStep
      <3>2. \A x \in claimed' : x.amount \in Int
        BY DEF TypeOK, Leaf
      <3>3. SumFunctionOnSet([x \in claimed' |-> x.amount], claimed')
                = SumFunctionOnSet([x \in claimed |-> x.amount], claimed) + l.amount
        BY <3>1, <3>2, ClaimAddsAmount
      <3>4. totalSupply \in [Tokens -> Int] /\ l.amount \in Int
        BY <3>1, <3>2 DEF TypeOK, TokenTypeOK
      <3>5. SumFunctionOnSet([totalSupply EXCEPT ![tokenContract] = @ + l.amount], Tokens)
                = SumFunctionOnSet(totalSupply, Tokens) + l.amount
        <4>1. PICK d \in Int : d = l.amount
          BY <3>4
        <4>2. IsFiniteSet(Tokens) /\ tokenContract \in Tokens
          BY <3>1, TokenAssumption
        <4>3. SumFunctionOnSet([totalSupply EXCEPT ![tokenContract] = @ + d], Tokens)
                = SumFunctionOnSet(totalSupply, Tokens) + d
          BY <3>4, <4>2, SumUpdate
        <4> QED BY <4>1, <4>3
      <3> QED BY <2>0, <3>1, <3>3, <3>5
    <2> QED BY <2>1, <2>2
  <1>4. SupplyIsHeld'
    <2>1. ASSUME NEW e \in Epochs, NEW b \in Accounts \cup {ZeroAddress},
                 NEW a \in Amounts, Claim(e, b, a)
          PROVE  SupplyIsHeld'
      <3>1. tokenContract \in Tokens /\ a \in Nat
        BY <2>1, TokenAssumption DEF Claim, TypeOK
      <3> QED BY <2>1, <3>1, MintHeld DEF Claim, TypeOK
    <2>2. TokenNext => SupplyIsHeld'
      BY TokenStepHeld DEF TypeOK
    <2>3. UNCHANGED tokenVars => SupplyIsHeld'
      BY DEF tokenVars, SupplyIsHeld
    <2> QED BY <2>1, <2>2, <2>3, OnlyClaimIssues
  <1> QED BY <1>1, <1>2, <1>3, <1>4

(* Nothing is claimed and nothing is issued at the start. *)
LEMMA IssuanceInvInit == Init => IssuanceInv
  <1> SUFFICES ASSUME Init PROVE IssuanceInv
    OBVIOUS
  <1> USE TokenAssumption DEF Init
  <1>1. claimed = {} /\ IsFiniteSet(claimed)
    BY FS_EmptySet
  <1>2. SumFunctionOnSet([l \in claimed |-> l.amount], claimed) = 0
    BY <1>1, SumZero
  <1>3. SumFunctionOnSet(totalSupply, Tokens) = 0
    <2>1. \A t \in Tokens : totalSupply[t] = 0
      BY DEF TokenInit
    <2> QED BY <2>1, SumZero
  <1>4. OnlyAttesterHolds
    BY DEF TokenInit, OnlyAttesterHolds, TokenRole
  <1> QED BY <1>1, <1>2, <1>3, <1>4, TokenInitHeld DEF IssuanceInv, SupplyMatchesClaims

(* The books of the composed contracts are balanced in every reachable state. *)
THEOREM IssuanceInvariant == Spec => []IssuanceInv
  <1>1. IssuanceInv /\ TypeOK /\ TypeOK' /\ [Next]_vars => IssuanceInv'
    <2>1. ASSUME IssuanceInv, UNCHANGED vars
          PROVE  IssuanceInv'
      BY <2>1 DEF vars, attesterVars, tokenVars, IssuanceInv, OnlyAttesterHolds,
                  SupplyMatchesClaims, SupplyIsHeld
    <2> QED BY <2>1, IssuanceInvStep
  <1> QED BY <1>1, IssuanceInvInit, AttesterTypeSafety, PTL DEF Spec

(* The supply of all the tokens the attester ever paid in is what the claimed
   leaves are worth: no leaf is paid twice across a setTokenContract and none is
   marked claimed unpaid, for any number of leaves and tokens. *)
THEOREM SupplyIsClaimed == Spec => []SupplyMatchesClaims
  BY IssuanceInvariant, PTL DEF IssuanceInv

(* In the composed system the balances still add up to the supplies, the mints
   made by claim() included. *)
THEOREM ComposedSupplyIsHeld == Spec => []SupplyIsHeld
  BY IssuanceInvariant, PTL DEF IssuanceInv

(* A claim and the attester's mint happen together. *)
THEOREM ClaimIsOnePayment == Spec => ClaimPaysOneLeaf
  <1> DEFINE Step ==
          /\ claimed' # claimed =>
                \E l \in claimed' \ claimed :
                    /\ claimed' = claimed \cup {l}
                    /\ tokenContract \in Tokens
                    /\ totalSupply' = [totalSupply EXCEPT ![tokenContract] = @ + l.amount]
                    /\ balanceOf' = [balanceOf EXCEPT
                                        ![tokenContract][l.beneficiary] = @ + l.amount]
          /\ OnlyAttesterMints /\ claimed' = claimed => totalSupply' = totalSupply
  <1>1. TypeOK /\ IssuanceInv /\ [Next]_vars => [Step]_vars
    BY IssuanceStep, Zenon DEF IssuanceInv
  <1> QED BY <1>1, IssuanceInvariant, AttesterTypeSafety, PTL DEF Spec, ClaimPaysOneLeaf

-----------------------------------------------------------------------------
(* The contracts implement the ledger.  Every step of the contracts is one step
   of AttestationLedger under the mapping of Ledger, or changes nothing the
   ledger shows. *)

(* The register of the ledger: the finalized roots. *)
Register == [e \in FinalizedEpochs |-> batches[e].merkleRoot]

(* A step that finalizes nothing leaves the register alone. *)
LEMMA RegisterKept ==
    ASSUME AttesterInv, Next, \A e \in Epochs : Finalized(e)' <=> Finalized(e)
    PROVE  Register' = Register
  <1>1. FinalizedEpochs' = FinalizedEpochs
    BY DEF FinalizedEpochs
  <1>2. \A e \in FinalizedEpochs : batches'[e].merkleRoot = batches[e].merkleRoot
    BY FinalStaysFinal DEF FinalizedEpochs
  <1> QED BY <1>1, <1>2 DEF Register

(* finalizeBatch adds the epoch and its root. *)
LEMMA FinalizeCommits ==
    ASSUME AttesterInv, Next, NEW e \in Epochs, FinalizeBatch(e)
    PROVE  \E root \in Roots : Ledger!Commit(e, root)
  <1>1. /\ batches \in [Epochs -> AttestationBatch]
        /\ batches[e].merkleRoot \in Roots
    BY DEF AttesterInv, TypeOK, EpochSound, FinalizeBatch
  <1>2. /\ ~Finalized(e) /\ ~paused
        /\ batches' = [batches EXCEPT ![e].finalized = TRUE]
        /\ UNCHANGED <<claimed, totalSupply, paused>>
    BY DEF FinalizeBatch, gateVars, tokenVars
  <1>3. \A x \in Epochs : batches'[x].merkleRoot = batches[x].merkleRoot
    BY <1>1, <1>2 DEF AttestationBatch
  <1>4. FinalizedEpochs' = FinalizedEpochs \cup {e}
    BY <1>1, <1>2 DEF FinalizedEpochs, Finalized, AttestationBatch
  <1>5. e \notin DOMAIN Register /\ DOMAIN Register = FinalizedEpochs
    BY <1>2 DEF Register, FinalizedEpochs
  <1>6. FinalizedEpochs \subseteq Epochs
    BY DEF FinalizedEpochs
  <1>7. Register' = [x \in DOMAIN Register \cup {e} |->
                        IF x = e THEN batches[e].merkleRoot ELSE Register[x]]
    BY <1>3, <1>4, <1>5, <1>6 DEF Register
  <1>8. PICK root \in Roots : root = batches[e].merkleRoot
    BY <1>1
  <1>9. Ledger!Commit(e, root)
    BY <1>2, <1>5, <1>7, <1>8 DEF Ledger!Commit, Register
  <1> QED BY <1>9, Zenon

(* claim() redeems its leaf. *)
LEMMA ClaimRedeems ==
    ASSUME AttesterInv, Next, NEW e \in Epochs, NEW b \in Accounts \cup {ZeroAddress},
           NEW a \in Amounts, Claim(e, b, a)
    PROVE  \E root \in Roots : \E leaf \in root, t \in Tokens : Ledger!Redeem(leaf, t)
  <1> DEFINE leaf == LeafHash(e, b, a)
             root == batches[e].merkleRoot
  <1>1. /\ leaf \notin claimed /\ claimed' = claimed \cup {leaf}
        /\ leaf.amount = a
        /\ tokenContract \in Tokens
        /\ totalSupply' = [totalSupply EXCEPT ![tokenContract] = @ + a]
    BY ClaimIssues DEF AttesterInv
  <1>2. leaf.domain = ThisDomain /\ leaf.epoch = e
    OBVIOUS
  <1>3. leaf \in root /\ Proposed(e) /\ Finalized(e) /\ ~paused
    BY DEF Claim, MerkleProofVerify
  <1>4. UNCHANGED <<batches, paused>>
    BY DEF Claim, gateVars
  <1>5. totalSupply[tokenContract] + a <= MAX_SUPPLY
    BY DEF Claim, Mint, WithinCap
  <1> HIDE DEF leaf
  <1>6. root \in Roots
    BY <1>3 DEF AttesterInv, EpochSound
  <1>7. e \in DOMAIN Register /\ Register[e] = root
    BY <1>3 DEF Register, FinalizedEpochs
  <1>8. Register' = Register
    BY <1>4, RegisterKept DEF Finalized
  <1>9. totalSupply' = [totalSupply EXCEPT ![tokenContract] = @ + leaf.amount]
    BY <1>1, Zenon
  <1>10. totalSupply[tokenContract] + leaf.amount <= MAX_SUPPLY
    BY <1>1, <1>5
  <1>11. leaf.epoch \in DOMAIN Register /\ leaf \in Register[leaf.epoch]
    BY <1>2, <1>3, <1>7
  <1>12. Ledger!Redeem(leaf, tokenContract)
    BY <1>1, <1>2, <1>3, <1>4, <1>8, <1>9, <1>10, <1>11 DEF Ledger!Redeem, Register
  <1> QED BY <1>1, <1>3, <1>6, <1>12

(* The token's own transactions issue elsewhere, or show nothing. *)
LEMMA TokenIssuesElsewhere ==
    ASSUME AttesterInv, OnlyAttesterHolds, Next, TokenNext, UNCHANGED <<attesterVars, now>>
    PROVE  \/ \E t \in Tokens : \E amount \in 1 .. MAX_SUPPLY : Ledger!IssueElsewhere(t, amount)
           \/ UNCHANGED <<Register, claimed, totalSupply, paused>>
  <1>1. UNCHANGED <<batches, claimed, paused>>
    BY DEF attesterVars
  <1>2. Register' = Register
    BY <1>1, RegisterKept DEF Finalized
  <1>3. CASE OnlyAttesterMints
    BY <1>1, <1>2, <1>3, TokenStepIssues DEF AttesterInv
  <1>4. CASE ~OnlyAttesterMints
    <2> PICK t \in Tokens : TokenStep(t)
      BY DEF TokenNext
    <2>1. ASSUME NEW c, NEW to, NEW amt \in Amounts, Mint(t, c, to, amt)
          PROVE  \E amount \in 1 .. MAX_SUPPLY : Ledger!IssueElsewhere(t, amount)
      <3>1. /\ totalSupply[t] + amt <= MAX_SUPPLY
            /\ amt # 0
            /\ totalSupply' = [totalSupply EXCEPT ![t] = @ + amt]
        BY <2>1 DEF Mint, WithinCap
      <3>2. amt \in Nat /\ totalSupply[t] \in Nat /\ MAX_SUPPLY \in Nat
        BY TokenAssumption DEF AttesterInv, TypeOK, TokenTypeOK
      <3>3. amt \in 1 .. MAX_SUPPLY
        BY <3>1, <3>2
      <3>4. Ledger!IssueElsewhere(t, amt)
        BY <1>1, <1>2, <1>4, <3>1 DEF Ledger!IssueElsewhere, Register
      <3> QED BY <3>3, <3>4
    <2>2. ASSUME NEW c, NEW m, NEW r, NEW a,
                 \/ AuthorizeMinter(t, c, m) \/ RevokeMinter(t, c, m)
                 \/ TokenGrantRole(t, c, r, a) \/ TokenRevokeRole(t, c, r, a)
                 \/ TokenRenounceRole(t, r, a)
          PROVE  totalSupply' = totalSupply
      BY <2>2 DEF AuthorizeMinter, RevokeMinter, TokenGrantRole, TokenRevokeRole,
                  TokenRenounceRole
    <2>3. ASSUME NEW from, NEW to, NEW amt, Transfer(t, from, to, amt)
          PROVE  totalSupply' = totalSupply
      BY <2>3 DEF Transfer
    <2>4. totalSupply' = totalSupply
          \/ \E amount \in 1 .. MAX_SUPPLY : Ledger!IssueElsewhere(t, amount)
      BY <2>1, <2>2, <2>3 DEF TokenStep
    <2> QED BY <1>1, <1>2, <2>4
  <1> QED BY <1>3, <1>4

(* The remaining transactions freeze or unfreeze, or show nothing. *)
LEMMA RestShowsFrozenOnly ==
    ASSUME AttesterInv, Next,
           ~\E e \in Epochs : FinalizeBatch(e),
           ~\E e \in Epochs, b \in Accounts \cup {ZeroAddress}, a \in Amounts : Claim(e, b, a),
           ~(TokenNext /\ UNCHANGED <<attesterVars, now>>)
    PROVE  UNCHANGED <<Register, claimed, totalSupply>> /\ paused' \in BOOLEAN
  <1>1. UNCHANGED <<claimed, totalSupply>>
    BY OnlyClaimIssues DEF tokenVars
  <1>2. paused' \in BOOLEAN
    BY AttesterTypeStep, Zenon DEF AttesterInv, TypeOK
  <1>3. \A e \in Epochs : Finalized(e)' <=> Finalized(e)
    <2>1. ASSUME NEW c \in Callers, NEW x \in Epochs, NEW root, NEW kwh,
                 ProposeBatch(c, x, root, kwh), NEW e \in Epochs
          PROVE  Finalized(e)' <=> Finalized(e)
      <3>1. ~Finalized(x) /\ batches \in [Epochs -> AttestationBatch]
        BY <2>1 DEF AttesterInv, TypeOK, EpochSound, ProposeBatch
      <3> QED BY <2>1, <3>1 DEF ProposeBatch, Finalized
    <2>2. ASSUME NEW c, NEW x, VoteBatch(c, x) \/ Tick
          PROVE  UNCHANGED batches
      BY <2>2 DEF VoteBatch, Tick, attesterVars
    <2>3. UNCHANGED batches => \A e \in Epochs : Finalized(e)' <=> Finalized(e)
      BY DEF Finalized
    <2> QED BY <2>1, <2>2, <2>3, NextCases
  <1>4. Register' = Register
    BY <1>3, RegisterKept
  <1> QED BY <1>1, <1>2, <1>4

(* The contracts implement the abstract ledger: proposing, voting, slashing and
   role changes are invisible, finalizeBatch commits, claim redeems. *)
THEOREM LedgerRefinement == Spec => ImplementsLedger
  <1>1. Init => Ledger!LedgerInit
    <2> SUFFICES ASSUME Init PROVE Ledger!LedgerInit
      OBVIOUS
    <2>1. FinalizedEpochs = {}
      BY DEF Init, FinalizedEpochs, Finalized, NoBatch
    <2> QED BY <2>1 DEF Init, TokenInit, Ledger!LedgerInit
  <1>2. AttesterInv /\ IssuanceInv /\ [Next]_vars
        => [Ledger!LedgerNext]_(Ledger!ledgerVars)
    <2> SUFFICES ASSUME AttesterInv, IssuanceInv, [Next]_vars
                 PROVE  Ledger!LedgerNext \/ UNCHANGED Ledger!ledgerVars
      OBVIOUS
    <2>0. UNCHANGED <<Register, claimed, totalSupply, paused>> => UNCHANGED Ledger!ledgerVars
      BY DEF Ledger!ledgerVars, Register
    <2>1. CASE UNCHANGED vars
      BY <2>0, <2>1 DEF vars, attesterVars, tokenVars, Register, FinalizedEpochs, Finalized
    <2>2. CASE Next
      <3> USE <2>2
      <3>1. CASE \E e \in Epochs : FinalizeBatch(e)
        BY <3>1, FinalizeCommits DEF Ledger!LedgerNext
      <3>2. CASE \E e \in Epochs, b \in Accounts \cup {ZeroAddress}, a \in Amounts :
                    Claim(e, b, a)
        BY <3>2, ClaimRedeems DEF Ledger!LedgerNext
      <3>3. CASE TokenNext /\ UNCHANGED <<attesterVars, now>>
        BY <2>0, <3>3, TokenIssuesElsewhere DEF Ledger!LedgerNext, IssuanceInv
      <3>4. CASE /\ ~\E e \in Epochs : FinalizeBatch(e)
                 /\ ~\E e \in Epochs, b \in Accounts \cup {ZeroAddress}, a \in Amounts :
                        Claim(e, b, a)
                 /\ ~(TokenNext /\ UNCHANGED <<attesterVars, now>>)
        <4>1. UNCHANGED <<Register, claimed, totalSupply>> /\ paused' \in BOOLEAN
          BY <3>4, RestShowsFrozenOnly
        <4>2. Ledger!SetFrozen(paused')
          BY <4>1 DEF Ledger!SetFrozen, Register
        <4> QED BY <4>1, <4>2 DEF Ledger!LedgerNext
      <3> QED BY <3>1, <3>2, <3>3, <3>4
    <2> QED BY <2>1, <2>2
  <1> QED BY <1>1, <1>2, AttesterInvariant, IssuanceInvariant, PTL
      DEF Spec, ImplementsLedger, Ledger!LedgerSpec
=============================================================================
