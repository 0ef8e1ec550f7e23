------------------------- MODULE VerifierNodeProofs -------------------------
(***************************************************************************)
(* What the verdicts of the verifiers are worth, and what the daemon does  *)
(* with them, for any commitments, files, epochs and setups.               *)
(*                                                                         *)
(* The daemon's properties rest on NodeInv: the view of the chain that a   *)
(* check started from is still true of the chain, because the contract     *)
(* neither rewrites a commitment nor takes a finalization back, and a      *)
(* batch that got past Reconcile is reconciled with that view.             *)
(***************************************************************************)
EXTENDS VerifierNode, WellFoundedInduction, TLAPS

-----------------------------------------------------------------------------
(* The invariants. *)

(* What batches(epoch) can return. *)
Committed(c, final) ==
    [proposed |-> TRUE, merkleRoot |-> c.merkleRoot, totalKwh |-> c.totalKwh,
     finalized |-> final]
Views == {NotProposed} \cup UNION {{Committed(c, FALSE), Committed(c, TRUE)} : c \in Commitments}

Directories ==
    [named : [ViewedEpochs -> NamedFiles \cup {AbsentFile}],
     generic : GenericFiles \cup {AbsentFile},
     att : Attestations \cup {"absent"},
     pub : Keys \cup {"absent"}]

WorldInv ==
    /\ batches \in [ViewedEpochs -> Views]
    /\ ~batches[MaxEpoch + 1].finalized
    /\ reachable \in BOOLEAN
    /\ dir \in Directories

Checking   == {"named", "open", "generic", "reconcile", "att", "pub", "openAtt", "openPub"}
Reconciled == {"att", "pub", "openAtt", "openPub"}

(* The node's view is true of the chain as it is now. *)
ViewHolds ==
    /\ view.finalized /\ batches[epoch].finalized
    /\ view.merkleRoot = batches[epoch].merkleRoot
    /\ view.totalKwh = batches[epoch].totalKwh

(* A batch is loaded, and it is for the epoch. *)
Loaded ==
    /\ batch.epoch = epoch
    /\ batch.leaves \in Seq(Range(batch.leaves))

NodeTypes ==
    /\ setup \in Setups
    /\ pc \in Steps
    /\ epoch \in StartEpoch..(MaxEpoch + 1)
    /\ view \in Views
    /\ batch = NoBatchFile \/ batch.epoch = epoch
    /\ attSeen \in BOOLEAN
    /\ att \in Attestations \cup {"absent"}
    /\ status \in {"OK", "ALARM", "SKIP", "ERROR"}
    /\ alarmed \in BOOLEAN
    /\ exit \in {Running, 0, 1, 2}

(* What the node knows at each step of a check. *)
CheckSound ==
    /\ pc \in Checking \/ (pc = "conclude" /\ status = "OK") => ViewHolds
    /\ pc = "reconcile" \/ pc \in Reconciled \/ (pc = "conclude" /\ status = "OK") => Loaded
    /\ pc \in Reconciled \/ (pc = "conclude" /\ status = "OK") =>
           BatchVerdict(Impl, batch, epoch, view) = "OK"
    /\ pc \in {"open", "openAtt", "openPub"} => Impl = "python"
    /\ pc = "connect" => ~alarmed

(* On a finalized epoch Go has no third answer. *)
GoNeverErrs == Impl = "go" => FailClosed

NodeInv == WorldInv /\ NodeTypes /\ CheckSound /\ ExitCodeHonest /\ GoNeverErrs

(* What an honest directory holds for one epoch: a correct file, or nothing yet
   and then the epoch is not final. *)
HonestEpoch(e) ==
    /\ dir.named[e] # AbsentFile =>
           /\ HoldsEpoch(Impl, dir.named[e], e)
           /\ BatchVerdict(Impl, dir.named[e].batch, e, batches[e]) = "OK"
           /\ batches[e].proposed
    /\ batches[e].finalized => dir.named[e] # AbsentFile

(* What the node of an honest operator has seen. *)
HonestNode ==
    /\ ~attSeen /\ att = "absent"
    /\ pc \notin {"generic", "openAtt", "openPub"}
    /\ status # "ALARM" /\ ~alarmed
    /\ pc = "reconcile" => BatchVerdict(Impl, batch, epoch, view) = "OK"

HonestInv ==
    setup.honest =>
        /\ dir.att = "absent" /\ dir.pub = "absent"
        /\ HonestNode
        /\ \A e \in 1..MaxEpoch : HonestEpoch(e)

-----------------------------------------------------------------------------
(* The verdict operators. *)

(* A non-empty set of naturals has a least element, which Min returns. *)
LEMMA MinIsMember ==
    ASSUME NEW S \in SUBSET Nat, S # {}
    PROVE  Min(S) \in S
  <1> DEFINE R == {ss \in Nat \X Nat : ss[1] < ss[2]}
  <1>1. IsWellFoundedOn(R, Nat)
    BY NatLessThanWellFounded, Zenon DEF OpToRel
  <1> HIDE DEF R
  <1>2. PICK x \in S : \A y \in S : ~(<<y, x>> \in R)
    BY <1>1, WFMin
  <1>3. ASSUME NEW y \in S PROVE x <= y
    <2>1. <<y, x>> \in Nat \X Nat /\ <<y, x>>[1] = y /\ <<y, x>>[2] = x
      OBVIOUS
    <2>2. y < x => <<y, x>> \in R
      BY <2>1 DEF R
    <2> QED BY <1>2, <2>2
  <1> QED BY <1>3 DEF Min

(* The positions of a list are naturals, and a list that is not empty has one. *)
LEMMA PositionsAreNat ==
    ASSUME NEW leaves, leaves \in Seq(Range(leaves))
    PROVE  DOMAIN leaves \subseteq Nat /\ (leaves # <<>> => DOMAIN leaves # {})
  <1>1. PICK T : T = Range(leaves)
    OBVIOUS
  <1>2. leaves \in Seq(T)
    BY <1>1
  <1>3. DOMAIN leaves = 1..Len(leaves) /\ Len(leaves) \in Nat
    BY <1>2
  <1>4. leaves # <<>> => Len(leaves) # 0
    BY <1>2
  <1>5. DOMAIN leaves \subseteq Nat
    BY <1>3
  <1>6. leaves # <<>> => 1 \in DOMAIN leaves
    BY <1>3, <1>4
  <1> QED BY <1>5, <1>6

(* The verdict on a leaf is one of three. *)
LEMMA LeafVerdictRange ==
    ASSUME NEW impl, NEW record, NEW e, NEW root
    PROVE  LeafVerdict(impl, record, e, root) \in {"OK", "ALARM", "ERROR"}
  BY DEF LeafVerdict

(* So is the verdict on a batch. *)
LEMMA BatchVerdictRange ==
    ASSUME NEW impl, NEW b, NEW e, NEW v
    PROVE  BatchVerdict(impl, b, e, v) \in {"OK", "ALARM", "ERROR"}
  BY LeafVerdictRange DEF BatchVerdict

(* Only the encoder of the Python node turns a finalized epoch into an error. *)
LEMMA OthersNeverErr ==
    ASSUME NEW impl, impl # "python", NEW b, NEW e, NEW v
    PROVE  BatchVerdict(impl, b, e, v) \in {"OK", "ALARM"}
  <1>1. \A r, root : LeafVerdict(impl, r, e, root) \in {"OK", "ALARM"}
    BY DEF LeafVerdict, EncodingFails
  <1> QED BY <1>1 DEF BatchVerdict

(* A batch is judged by the root and the total of the view alone. *)
LEMMA VerdictOfView ==
    ASSUME NEW impl, NEW b, NEW e, NEW v, NEW w,
           v.merkleRoot = w.merkleRoot, v.totalKwh = w.totalKwh
    PROVE  BatchVerdict(impl, b, e, v) = BatchVerdict(impl, b, e, w)
  BY DEF BatchVerdict, TotalMatches

(* An OK for a batch means that every leaf is in order, and the total matches. *)
LEMMA OkMeansAllLeaves ==
    ASSUME NEW impl, NEW b, NEW e, NEW v,
           b.leaves \in Seq(Range(b.leaves)),
           BatchVerdict(impl, b, e, v) = "OK"
    PROVE  /\ DOMAIN b.leaves # {}
           /\ \A i \in DOMAIN b.leaves : LeafCommitted(b.leaves[i], e, v.merkleRoot)
           /\ SumAmounts(b.leaves) = v.totalKwh
  <1> DEFINE leaf(i) == LeafVerdict(impl, b.leaves[i], e, v.merkleRoot)
             bad     == {i \in DOMAIN b.leaves : leaf(i) # "OK"}
  <1>1. /\ b.leaves # <<>>
        /\ bad # {} => leaf(Min(bad)) = "OK"
        /\ bad = {} => TotalMatches(b.leaves, v)
    BY DEF BatchVerdict
  <1>2. bad # {} => Min(bad) \in bad
    <2>1. bad \in SUBSET Nat
      BY PositionsAreNat
    <2> HIDE DEF bad
    <2> QED BY <2>1, MinIsMember
  <1>3. bad = {}
    BY <1>1, <1>2
  <1>4. \A i \in DOMAIN b.leaves : leaf(i) = "OK"
    BY <1>3
  <1>5. \A i \in DOMAIN b.leaves : LeafCommitted(b.leaves[i], e, v.merkleRoot)
    BY <1>4 DEF LeafVerdict
  <1> QED BY <1>1, <1>3, <1>5, PositionsAreNat DEF TotalMatches

(* What it is worth: the file is backed by the commitment. *)
LEMMA OkBacksFile ==
    ASSUME NEW impl, NEW f, NEW e, NEW v,
           f.kind = "batch", f.batch.epoch = e,
           f.batch.leaves \in Seq(Range(f.batch.leaves)),
           v.merkleRoot = batches[e].merkleRoot, v.totalKwh = batches[e].totalKwh,
           BatchVerdict(impl, f.batch, e, v) = "OK"
    PROVE  Backed(f, e)
  <1>1. /\ DOMAIN f.batch.leaves # {}
        /\ \A i \in DOMAIN f.batch.leaves : LeafCommitted(f.batch.leaves[i], e, v.merkleRoot)
        /\ SumAmounts(f.batch.leaves) = v.totalKwh
    BY OkMeansAllLeaves
  <1>2. \A i \in DOMAIN f.batch.leaves :
           ComputeLeaf(f.batch.leaves[i].beneficiary, f.batch.leaves[i].amount, e)
               \in batches[e].merkleRoot
    BY <1>1 DEF LeafCommitted, VerifyMerkle
  <1>3. ClaimedLeaves(f.batch) # {} /\ ClaimedLeaves(f.batch) \subseteq batches[e].merkleRoot
    BY <1>1, <1>2 DEF ClaimedLeaves
  <1>4. SumAmounts(f.batch.leaves) =
           SumFunction([i \in DOMAIN f.batch.leaves |-> f.batch.leaves[i].amount])
    BY DEF SumAmounts, SumFunction, SumFunctionOnSet, FoldFunction
  <1> QED BY <1>1, <1>3, <1>4 DEF Backed

(* The verdict on the signature material is one of three, and never an error for
   the Go node. *)
LEMMA SignatureRange ==
    /\ \A impl, a, k : SignatureVerdict(impl, a, k) \in {"OK", "ALARM"}
    /\ \A as, ks, a, k : PythonSignatureVerdict(as, ks, a, k) \in {"OK", "ALARM", "ERROR"}
  BY DEF SignatureVerdict, PythonSignatureVerdict, Checked

(* Where the parsers agree the two nodes judge a batch alike. *)
LEMMA PlainBatchAlike ==
    ASSUME NEW f, NEW e, NEW v, PlainFile(f), f.kind = "batch",
           f.batch.leaves \in Seq(Range(f.batch.leaves)),
           \A i \in DOMAIN f.batch.leaves : f.batch.leaves[i].amount \in Int
    PROVE  BatchVerdict("python", f.batch, e, v) = BatchVerdict("go", f.batch, e, v)
  <1> DEFINE leaves == f.batch.leaves
             py(i) == LeafVerdict("python", leaves[i], e, v.merkleRoot)
             go(i) == LeafVerdict("go", leaves[i], e, v.merkleRoot)
             bad   == {i \in DOMAIN leaves : go(i) # "OK"}
  <1>1. \A i \in DOMAIN leaves : py(i) = go(i)
    BY UINT128Assumption
       DEF PlainFile, LeafVerdict, FieldsUsable, AmountParses, EncodingFails
  <1>2. {i \in DOMAIN leaves : py(i) # "OK"} = bad
    BY <1>1
  <1>3. bad # {} => py(Min(bad)) = go(Min(bad))
    <2>1. bad \in SUBSET Nat /\ bad \subseteq DOMAIN leaves
      BY PositionsAreNat
    <2> HIDE DEF bad
    <2>2. bad # {} => Min(bad) \in bad
      BY <2>1, MinIsMember
    <2> QED BY <1>1, <2>1, <2>2
  <1> HIDE DEF py, go
  <1>4. BatchVerdict("python", f.batch, e, v) =
          IF f.batch.root # v.merkleRoot \/ leaves = <<>> THEN "ALARM"
          ELSE IF bad # {} THEN py(Min(bad))
          ELSE IF TotalMatches(leaves, v) THEN "OK" ELSE "ALARM"
    BY <1>2 DEF BatchVerdict, py
  <1>5. BatchVerdict("go", f.batch, e, v) =
          IF f.batch.root # v.merkleRoot \/ leaves = <<>> THEN "ALARM"
          ELSE IF bad # {} THEN go(Min(bad))
          ELSE IF TotalMatches(leaves, v) THEN "OK" ELSE "ALARM"
    BY DEF BatchVerdict, go
  <1> HIDE DEF bad, leaves
  <1> QED BY <1>3, <1>4, <1>5

(* And the signature material, where neither looks at what the other does not. *)
LEMMA PlainSignatureAlike ==
    ASSUME NEW a, NEW k, a \notin {"unreadable", "empty", "prefixed"}, k # "unreadable"
    PROVE  PythonSignatureVerdict(a # "absent", k # "absent", a, k)
             = SignatureVerdict("go", a, k)
  BY DEF PythonSignatureVerdict, SignatureVerdict, Missing, Checked, Refuses, Validates

-----------------------------------------------------------------------------
(* The world. *)

(* What a step of the chain and the operator does to the commitments: what is
   proposed stays as it is, and what is final stays final. *)
CommitmentsKept ==
    \A e \in ViewedEpochs :
        /\ batches[e].proposed => /\ batches'[e].proposed
                                  /\ batches'[e].merkleRoot = batches[e].merkleRoot
                                  /\ batches'[e].totalKwh = batches[e].totalKwh
        /\ batches[e].finalized => batches'[e].finalized

(* The views, one by one. *)
LEMMA ViewCases ==
    ASSUME NEW v
    PROVE  v \in Views <=>
             \/ v = NotProposed
             \/ \E c \in Commitments : v = Committed(c, FALSE) \/ v = Committed(c, TRUE)
  BY DEF Views

(* Their fields. *)
LEMMA ViewFields ==
    /\ NotProposed.proposed = FALSE /\ NotProposed.finalized = FALSE
    /\ \A c, final : /\ Committed(c, final).proposed = TRUE
                     /\ Committed(c, final).finalized = final
                     /\ Committed(c, final).merkleRoot = c.merkleRoot
                     /\ Committed(c, final).totalKwh = c.totalKwh
  BY DEF NotProposed, Committed

(* Finalizing a committed batch. *)
LEMMA FinalizedView ==
    ASSUME NEW c, NEW v, v = Committed(c, FALSE) \/ v = Committed(c, TRUE)
    PROVE  [v EXCEPT !.finalized = TRUE] = Committed(c, TRUE)
  <1> DEFINE S == [proposed : BOOLEAN, merkleRoot : {c.merkleRoot}, totalKwh : {c.totalKwh},
                   finalized : BOOLEAN]
  <1>1. v \in S /\ v.proposed = TRUE
    <2>1. CASE v = Committed(c, FALSE)
      BY <2>1 DEF Committed
    <2>2. CASE v = Committed(c, TRUE)
      BY <2>2 DEF Committed
    <2> QED BY <2>1, <2>2
  <1>2. PICK w : w = Committed(c, TRUE)
    OBVIOUS
  <1>3. w \in S /\ w.finalized = TRUE /\ w.proposed = TRUE
    BY <1>2 DEF Committed
  <1>4. [v EXCEPT !.finalized = TRUE] = w
    BY <1>1, <1>3
  <1> QED BY <1>2, <1>4

(* Final batches were proposed. *)
LEMMA FinalWasProposed ==
    ASSUME NEW v \in Views
    PROVE  /\ v.proposed \in BOOLEAN /\ v.finalized \in BOOLEAN
           /\ v.finalized => v.proposed
           /\ ~v.proposed => v = NotProposed
  <1>1. CASE v = NotProposed
    BY <1>1, ViewFields, Zenon
  <1>2. CASE \E c \in Commitments : v = Committed(c, FALSE) \/ v = Committed(c, TRUE)
    <2>1. PICK c \in Commitments : v = Committed(c, FALSE) \/ v = Committed(c, TRUE)
      BY <1>2
    <2>2. CASE v = Committed(c, FALSE)
      BY <2>2, ViewFields, Zenon
    <2>3. CASE v = Committed(c, TRUE)
      BY <2>3, ViewFields, Zenon
    <2> QED BY <2>1, <2>2, <2>3
  <1> QED BY <1>1, <1>2, ViewCases

(* proposeBatch writes an epoch that had nothing. *)
LEMMA ProposeWorld ==
    ASSUME WorldInv, NEW c \in Commitments, Propose(c)
    PROVE  WorldInv' /\ CommitmentsKept /\ UNCHANGED <<reachable, dir>>
  <1>1. PICK v : v = Committed(c, FALSE)
    OBVIOUS
  <1>2. v \in Views /\ ~v.finalized
    BY <1>1, ViewCases DEF Committed
  <1>3. /\ batches' = [batches EXCEPT ![c.epoch] = v] /\ ~batches[c.epoch].proposed
        /\ UNCHANGED <<reachable, dir>>
    BY <1>1 DEF Propose, Committed
  <1>4. batches \in [ViewedEpochs -> Views]
    BY DEF WorldInv
  <1>5. batches' \in [ViewedEpochs -> Views]
        /\ \A e \in ViewedEpochs : batches'[e] = IF e = c.epoch THEN v ELSE batches[e]
    BY <1>2, <1>3, <1>4
  <1>6. MaxEpoch + 1 \in ViewedEpochs
    BY MaxEpochAssumption DEF ViewedEpochs
  <1>7. WorldInv'
    BY <1>2, <1>3, <1>5, <1>6 DEF WorldInv
  <1>8. CommitmentsKept
    BY <1>3, <1>4, <1>5, FinalWasProposed DEF CommitmentsKept
  <1> QED BY <1>3, <1>7, <1>8

(* finalizeBatch changes nothing but the flag. *)
LEMMA FinalizeWorld ==
    ASSUME WorldInv, NEW e \in 1..MaxEpoch, Finalize(e)
    PROVE  /\ WorldInv' /\ CommitmentsKept /\ UNCHANGED <<reachable, dir>>
           /\ \A x \in ViewedEpochs \ {e} : batches'[x] = batches[x]
  <1>1. /\ batches' = [batches EXCEPT ![e].finalized = TRUE] /\ batches[e].proposed
        /\ UNCHANGED <<reachable, dir>>
    BY DEF Finalize
  <1>2. /\ batches \in [ViewedEpochs -> Views] /\ batches[e] \in Views
        /\ e \in ViewedEpochs /\ e # MaxEpoch + 1
        /\ MaxEpoch + 1 \in ViewedEpochs
    BY MaxEpochAssumption DEF WorldInv, ViewedEpochs
  <1>3. PICK c \in Commitments : batches[e] = Committed(c, FALSE) \/ batches[e] = Committed(c, TRUE)
    BY <1>1, <1>2, ViewCases, ViewFields, Zenon
  <1>4. PICK v : v = Committed(c, TRUE)
    OBVIOUS
  <1>5. v \in Views /\ v = [batches[e] EXCEPT !.finalized = TRUE]
    BY <1>3, <1>4, ViewCases, FinalizedView
  <1>6. batches' = [batches EXCEPT ![e] = v]
    BY <1>1, <1>2, <1>5
  <1>7. /\ batches' \in [ViewedEpochs -> Views]
        /\ batches'[e] = v
        /\ \A x \in ViewedEpochs \ {e} : batches'[x] = batches[x]
    BY <1>2, <1>5, <1>6
  <1>8. WorldInv'
    BY <1>1, <1>2, <1>7 DEF WorldInv
  <1>9. CommitmentsKept
    BY <1>3, <1>4, <1>7 DEF CommitmentsKept, Committed
  <1> QED BY <1>1, <1>7, <1>8, <1>9

(* Files and the RPC endpoint come and go beside the chain. *)
LEMMA OperatorWorld ==
    ASSUME WorldInv, OperatorStep \/ RpcChange
    PROVE  WorldInv' /\ CommitmentsKept /\ UNCHANGED batches
  <1>1. UNCHANGED batches
    BY DEF OperatorStep, RpcChange, PublishNamed, PublishGeneric, PublishAttestation, PublishKey
  <1>2. dir' \in Directories /\ reachable' \in BOOLEAN
    <2>1. CASE RpcChange
      BY <2>1 DEF RpcChange, WorldInv
    <2>2. CASE \E e \in 1..MaxEpoch, f \in NamedFiles \cup {AbsentFile} : PublishNamed(e, f)
      <3>1. PICK e \in 1..MaxEpoch, f \in NamedFiles \cup {AbsentFile} : PublishNamed(e, f)
        BY <2>2
      <3>2. PICK names : names = [dir.named EXCEPT ![e] = f]
        OBVIOUS
      <3>3. names \in [ViewedEpochs -> NamedFiles \cup {AbsentFile}]
        BY <3>2 DEF WorldInv, Directories
      <3>4. dir' = [dir EXCEPT !.named = names] /\ UNCHANGED reachable
        BY <3>1, <3>2 DEF PublishNamed
      <3> QED BY <3>3, <3>4 DEF WorldInv, Directories
    <2>3. CASE \E f \in GenericFiles \cup {AbsentFile} : PublishGeneric(f)
      BY <2>3 DEF PublishGeneric, WorldInv, Directories
    <2>4. CASE \E a \in Attestations \cup {"absent"} : PublishAttestation(a)
      BY <2>4 DEF PublishAttestation, WorldInv, Directories
    <2>5. CASE \E k \in Keys \cup {"absent"} : PublishKey(k)
      BY <2>5 DEF PublishKey, WorldInv, Directories
    <2> QED BY <2>1, <2>2, <2>3, <2>4, <2>5 DEF OperatorStep
  <1> QED BY <1>1, <1>2 DEF WorldInv, CommitmentsKept

(* A step of the world. *)
LEMMA WorldStep ==
    ASSUME WorldInv, WorldNext
    PROVE  WorldInv' /\ CommitmentsKept
  BY ProposeWorld, FinalizeWorld, OperatorWorld DEF WorldNext, ChainStep

(* The world starts empty. *)
LEMMA WorldStart == WorldInit => WorldInv
  <1> SUFFICES ASSUME WorldInit PROVE WorldInv
    OBVIOUS
  <1>1. NotProposed \in Views /\ ~NotProposed.finalized
    BY ViewCases, ViewFields, Zenon
  <1>3. MaxEpoch + 1 \in ViewedEpochs
    BY MaxEpochAssumption DEF ViewedEpochs
  <1>2. dir \in Directories
    BY DEF WorldInit, Directories
  <1> QED BY <1>1, <1>2, <1>3 DEF WorldInit, WorldInv

(* The chain and the directory keep their types. *)
THEOREM WorldInvariant == WorldSpec => []WorldInv
  <1>1. WorldInv /\ [WorldNext]_world => WorldInv'
    BY WorldStep DEF world, WorldInv
  <1> QED BY <1>1, WorldStart, PTL DEF WorldSpec

(* A batch that was loaded from a file of the directory. *)
LEMMA FileParsed ==
    ASSUME WorldInv, NEW f, NEW e \in ViewedEpochs,
           f = dir.named[e] \/ f = dir.generic, f.kind = "batch"
    PROVE  /\ f.batch.leaves \in Seq(Range(f.batch.leaves))
           /\ \A i \in DOMAIN f.batch.leaves : f.batch.leaves[i].amount \in Int
  <1>1. f \in NamedFiles \cup GenericFiles \cup {AbsentFile}
    BY DEF WorldInv, Directories
  <1>2. f # AbsentFile
    BY DEF AbsentFile
  <1> QED BY <1>1, <1>2, FilesAssumption

-----------------------------------------------------------------------------
(* The verdicts on a directory nobody touches meanwhile. *)

(* No verifier says OK to data that does not reconcile with a final commitment. *)
THEOREM OkSafety == WorldSpec => []OkIsBacked
  <1>1. WorldInv => OkIsBacked
    <2> SUFFICES ASSUME WorldInv, NEW impl \in {"python", "go", "wasm"}, NEW e \in ViewedEpochs,
                        Answer(impl, e) = "OK"
                 PROVE  batches[e].finalized /\ \E f \in FilesOf(impl, e) : Backed(f, e)
      BY DEF OkIsBacked
    <2>1. Verdict(impl, e, batches[e], dir) = "OK"
      BY DEF Answer, RpcFailureVerdict
    <2>2. batches[e].finalized
      BY <2>1 DEF Verdict
    <2>3. PICK f \in FilesOf(impl, e) : HoldsEpoch(impl, f, e)
                                        /\ FilesVerdict(impl, f.batch, e, batches[e], dir) = "OK"
      BY <2>1, <2>2 DEF Verdict, FilesOf
    <2>4. f.kind = "batch" /\ f.batch.epoch = e /\ (f = dir.named[e] \/ f = dir.generic)
      BY <2>3 DEF HoldsEpoch, Unmarshals, FilesOf
    <2>5. BatchVerdict(impl, f.batch, e, batches[e]) = "OK"
      BY <2>3 DEF FilesVerdict
    <2>6. f.batch.leaves \in Seq(Range(f.batch.leaves))
      BY <2>4, FileParsed
    <2>7. Backed(f, e)
      BY <2>4, <2>5, <2>6, OkBacksFile
    <2> QED BY <2>2, <2>3, <2>7
  <1> QED BY <1>1, WorldInvariant, PTL

(* The nodes say OK only over no signature material at all or over a genuine pair;
   for Go, material none of which it can read counts as none. *)
THEOREM SignatureSafety == WorldSpec => []OkIsSignedOrUnsigned
  <1>1. OkIsSignedOrUnsigned
    <2> SUFFICES ASSUME NEW impl \in {"python", "go"}, NEW e \in ViewedEpochs,
                        Answer(impl, e) = "OK"
                 PROVE  \/ dir.att = "absent" /\ dir.pub = "absent"
                        \/ GenuinePair(dir.att, dir.pub)
                        \/ impl = "go" /\ OnlyUnreadable(dir.att, dir.pub)
      BY DEF OkIsSignedOrUnsigned
    <2>1. Verdict(impl, e, batches[e], dir) = "OK"
      BY DEF Answer, RpcFailureVerdict
    <2>2. \E b : FilesVerdict(impl, b, e, batches[e], dir) = "OK"
      BY <2>1 DEF Verdict
    <2>3. CASE impl = "python"
      <3>1. PythonSignatureVerdict(dir.att # "absent", dir.pub # "absent", dir.att, dir.pub) = "OK"
        BY <2>2, <2>3 DEF FilesVerdict
      <3> QED BY <3>1 DEF PythonSignatureVerdict, Missing, Checked, Refuses, Validates, GenuinePair
    <2>4. CASE impl = "go"
      <3>1. SignatureVerdict("go", dir.att, dir.pub) = "OK"
        BY <2>2, <2>4 DEF FilesVerdict
      <3> QED BY <2>4, <3>1 DEF SignatureVerdict, Missing, Checked, Refuses, Validates,
                                GenuinePair, OnlyUnreadable
    <2> QED BY <2>3, <2>4
  <1> QED BY <1>1, PTL

(* A file that only Python loads holds text for an amount, which is an alarm for
   Python too. *)
LEMMA TextAlarms ==
    ASSUME NEW f, NEW e, NEW v, NEW d, PlainFile(f), HoldsEpoch("python", f, e),
           ~HoldsEpoch("go", f, e),
           f.batch.leaves \in Seq(Range(f.batch.leaves)),
           \A i \in DOMAIN f.batch.leaves : f.batch.leaves[i].amount \in Int
    PROVE  FilesVerdict("python", f.batch, e, v, d) = "ALARM"
  <1> DEFINE leaves == f.batch.leaves
             leaf(i) == LeafVerdict("python", leaves[i], e, v.merkleRoot)
             bad == {i \in DOMAIN leaves : leaf(i) # "OK"}
  <1>1. f.kind = "batch"
    BY DEF HoldsEpoch, Unmarshals
  <1>2. PICK i \in DOMAIN leaves : leaves[i].literal = "text"
    BY DEF HoldsEpoch, Unmarshals
  <1>3. i \in bad
    BY <1>2 DEF LeafVerdict, FieldsUsable, AmountParses
  <1>4. \A j \in DOMAIN leaves : leaf(j) \in {"OK", "ALARM"}
    BY <1>1, UINT128Assumption DEF PlainFile, LeafVerdict, EncodingFails
  <1>5. bad \in SUBSET Nat /\ bad \subseteq DOMAIN leaves /\ \A j \in bad : leaf(j) # "OK"
    BY PositionsAreNat
  <1>6. bad # {}
    BY <1>3
  <1>7. BatchVerdict("python", f.batch, e, v) =
          IF f.batch.root # v.merkleRoot \/ leaves = <<>> THEN "ALARM"
          ELSE IF bad # {} THEN leaf(Min(bad))
          ELSE IF TotalMatches(leaves, v) THEN "OK" ELSE "ALARM"
    BY DEF BatchVerdict
  <1> HIDE DEF bad, leaf, leaves
  <1>8. Min(bad) \in bad
    BY <1>5, <1>6, MinIsMember
  <1>9. leaf(Min(bad)) = "ALARM"
    BY <1>4, <1>5, <1>8
  <1>10. BatchVerdict("python", f.batch, e, v) = "ALARM"
    BY <1>6, <1>7, <1>9
  <1> QED BY <1>10 DEF FilesVerdict

(* The parity of the Python and the Go node, where it holds. *)
THEOREM ParitySafety == WorldSpec => []NodesAgreeOnPlainFiles
  <1>1. WorldInv => NodesAgreeOnPlainFiles
    <2> SUFFICES ASSUME WorldInv, NEW e \in ViewedEpochs,
                        PlainFile(dir.named[e]), PlainFile(dir.generic), ~GoFallsBack(e),
                        dir.att \notin {"unreadable", "empty", "prefixed"},
                        dir.pub # "unreadable"
                 PROVE  Answer("python", e) = Answer("go", e)
      BY DEF NodesAgreeOnPlainFiles
    <2> DEFINE py(f) == FilesVerdict("python", f.batch, e, batches[e], dir)
               go(f) == FilesVerdict("go", f.batch, e, batches[e], dir)
    <2>1. ASSUME NEW f, f = dir.named[e] \/ f = dir.generic, HoldsEpoch("go", f, e)
          PROVE  py(f) = go(f) /\ HoldsEpoch("python", f, e)
      <3>1. f.kind = "batch" /\ PlainFile(f) /\ HoldsEpoch("python", f, e)
        BY <2>1 DEF HoldsEpoch, Unmarshals
      <3>2. BatchVerdict("python", f.batch, e, batches[e]) = BatchVerdict("go", f.batch, e, batches[e])
        BY <2>1, <3>1, FileParsed, PlainBatchAlike
      <3>3. PythonSignatureVerdict(dir.att # "absent", dir.pub # "absent", dir.att, dir.pub)
              = SignatureVerdict("go", dir.att, dir.pub)
        BY PlainSignatureAlike
      <3> QED BY <3>1, <3>2, <3>3 DEF FilesVerdict
    <2>2. ASSUME NEW f, f = dir.named[e] \/ f = dir.generic,
                 HoldsEpoch("python", f, e), ~HoldsEpoch("go", f, e)
          PROVE  py(f) = "ALARM"
      <3>1. f.kind = "batch" /\ PlainFile(f)
        BY <2>2 DEF HoldsEpoch, Unmarshals
      <3> QED BY <2>2, <3>1, FileParsed, TextAlarms
    <2>3. dir.named[e].kind = "absent" => /\ ~HoldsEpoch("python", dir.named[e], e)
                                          /\ ~HoldsEpoch("go", dir.named[e], e)
      BY DEF HoldsEpoch, Unmarshals
    <2> HIDE DEF py, go
    <2>4. Verdict("python", e, batches[e], dir) =
            IF ~batches[e].finalized THEN "SKIP"
            ELSE IF HoldsEpoch("python", dir.named[e], e) THEN py(dir.named[e])
            ELSE IF dir.named[e].kind = "absent" /\ HoldsEpoch("python", dir.generic, e)
                 THEN py(dir.generic)
            ELSE "ALARM"
      BY DEF Verdict, StopsAtNamed, py
    <2>5. Verdict("go", e, batches[e], dir) =
            IF ~batches[e].finalized THEN "SKIP"
            ELSE IF HoldsEpoch("go", dir.named[e], e) THEN go(dir.named[e])
            ELSE IF HoldsEpoch("go", dir.generic, e) THEN go(dir.generic)
            ELSE "ALARM"
      BY DEF Verdict, StopsAtNamed, go
    <2>6. Verdict("python", e, batches[e], dir) = Verdict("go", e, batches[e], dir)
      <3>1. CASE HoldsEpoch("go", dir.named[e], e)
        BY <2>1, <2>4, <2>5, <3>1
      <3>2. CASE ~HoldsEpoch("go", dir.named[e], e) /\ dir.named[e].kind = "absent"
        BY <2>1, <2>2, <2>3, <2>4, <2>5, <3>2
      <3>3. CASE ~HoldsEpoch("go", dir.named[e], e) /\ dir.named[e].kind # "absent"
        <4>1. ~HoldsEpoch("go", dir.generic, e)
          BY <3>3 DEF GoFallsBack
        <4> QED BY <2>2, <2>4, <2>5, <3>3, <4>1
      <3> QED BY <3>1, <3>2, <3>3
    <2> QED BY <2>6 DEF Answer, RpcFailureVerdict
  <1> QED BY <1>1, WorldInvariant, PTL

-----------------------------------------------------------------------------
(* The daemon. *)

(* The epochs the node looks at are epochs of the world; the one beyond the last
   is never final. *)
LEMMA EpochsViewed ==
    ASSUME WorldInv, NodeTypes
    PROVE  /\ epoch \in ViewedEpochs /\ epoch \in Nat
           /\ batches[epoch] \in Views
           /\ batches[epoch].finalized => epoch \in 1..MaxEpoch /\ epoch + 1 \in StartEpoch..(MaxEpoch + 1)
  <1>1. epoch \in ViewedEpochs /\ epoch \in Nat
    BY MaxEpochAssumption, NodeAssumption DEF NodeTypes, ViewedEpochs
  <1>2. batches[epoch] \in Views
    BY <1>1 DEF WorldInv
  <1>3. batches[epoch].finalized => epoch # MaxEpoch + 1
    BY DEF WorldInv
  <1>4. epoch # MaxEpoch + 1 => epoch \in 1..MaxEpoch /\ epoch + 1 \in StartEpoch..(MaxEpoch + 1)
    BY MaxEpochAssumption, NodeAssumption DEF NodeTypes
  <1> QED BY <1>1, <1>2, <1>3, <1>4

(* What the setups say. *)
LEMMA SetupCases ==
    ASSUME NodeTypes
    PROVE  Impl \in {"python", "go"} /\ Once \in BOOLEAN /\ setup.honest \in BOOLEAN
  BY NodeAssumption DEF NodeTypes, Impl, Once

(* The step names differ. *)
LEMMA StepNames ==
    /\ Reconciled \subseteq Checking /\ Checking \subseteq Steps
    /\ "conclude" \in Steps /\ "conclude" \notin Checking
    /\ "done" \notin Checking /\ "connect" \notin Checking
    /\ "reconcile" \in Checking /\ "reconcile" \notin Reconciled
  BY DEF Reconciled, Checking, Steps

(* A step of a check, which goes on or ends in a verdict. *)
LEMMA CheckStep ==
    ASSUME NodeInv, pc \in Checking,
           UNCHANGED <<world, setup, epoch, view, alarmed, exit>>,
           attSeen' \in BOOLEAN, att' \in Attestations \cup {"absent"},
           status' \in {"OK", "ALARM", "SKIP", "ERROR"},
           batch' = batch \/ Loaded',
           pc' \in Checking \/ pc' = "conclude",
           pc' = "reconcile" => Loaded',
           pc' \in Reconciled \/ (pc' = "conclude" /\ status' = "OK") =>
               Loaded' /\ BatchVerdict(Impl, batch', epoch, view) = "OK",
           pc' \in {"open", "openAtt", "openPub"} => Impl = "python",
           pc' = "conclude" /\ Impl = "go" => status' # "ERROR"
    PROVE  NodeInv'
  <1>1. WorldInv'
    BY DEF NodeInv, WorldInv, world
  <1>2. ViewHolds /\ ViewHolds'
    BY DEF NodeInv, CheckSound, ViewHolds, world
  <1>3. Impl' = Impl /\ Once' = Once
    BY DEF Impl, Once
  <1>4. NodeTypes'
    BY StepNames DEF NodeInv, NodeTypes, Loaded
  <1>5. CheckSound'
    BY <1>2, <1>3, StepNames DEF CheckSound
  <1>6. pc' # "done"
    BY StepNames
  <1>7. ExitCodeHonest'
    BY <1>6 DEF NodeInv, ExitCodeHonest, world
  <1>8. GoNeverErrs'
    BY <1>3 DEF GoNeverErrs, FailClosed
  <1> QED BY <1>1, <1>4, <1>5, <1>7, <1>8 DEF NodeInv

(* Loading a file that holds the epoch. *)
LEMMA LoadStep ==
    ASSUME NodeInv, NEW f, f = dir.named[epoch] \/ f = dir.generic, HoldsEpoch(Impl, f, epoch),
           Load(f.batch), UNCHANGED epoch
    PROVE  Loaded' /\ pc' = "reconcile" /\ status' = status
  <1>1. f.kind = "batch" /\ f.batch.epoch = epoch
    BY DEF HoldsEpoch, Unmarshals
  <1>2. f.batch.leaves \in Seq(Range(f.batch.leaves))
    BY <1>1, EpochsViewed, FileParsed DEF NodeInv
  <1>3. batch' = f.batch /\ pc' = "reconcile" /\ status' = status
    BY DEF Load, GoOn
  <1> QED BY <1>1, <1>2, <1>3 DEF Loaded

(* Looking for and opening the batch file. *)
LEMMA ReadStep ==
    ASSUME NodeInv, ReadNamed \/ OpenNamed \/ ReadGeneric
    PROVE  NodeInv'
  <1>1. pc \in Checking
    BY DEF ReadNamed, OpenNamed, ReadGeneric, Checking
  <1>2. UNCHANGED <<world, setup, epoch, view, attSeen, att, alarmed, exit>>
    BY DEF ReadNamed, OpenNamed, ReadGeneric
  <1>3. /\ attSeen' \in BOOLEAN /\ att' \in Attestations \cup {"absent"}
        /\ status \in {"OK", "ALARM", "SKIP", "ERROR"} /\ Impl \in {"python", "go"}
    BY <1>2, SetupCases DEF NodeInv, NodeTypes
  <1>4. \/ pc' = "reconcile" /\ status' = status /\ Loaded'
        \/ pc' = "generic" /\ status' = status /\ batch' = batch
        \/ pc' = "open" /\ status' = status /\ batch' = batch /\ Impl = "python"
        \/ pc' = "conclude" /\ status' = "ALARM" /\ batch' = batch
    <2>1. CASE ReadNamed
      <3>1. CASE Impl = "python" /\ dir.named[epoch].kind # "absent"
        BY <2>1, <3>1 DEF ReadNamed, LookAtNamed, GoOn
      <3>2. CASE Impl = "go" /\ HoldsEpoch(Impl, dir.named[epoch], epoch)
        <4>1. Load(dir.named[epoch].batch)
          BY <2>1, <3>2 DEF ReadNamed, LookAtNamed
        <4> QED BY <1>2, <3>2, <4>1, LoadStep
      <3>3. CASE /\ ~(Impl = "python" /\ dir.named[epoch].kind # "absent")
                 /\ ~(Impl = "go" /\ HoldsEpoch(Impl, dir.named[epoch], epoch))
        BY <2>1, <3>3 DEF ReadNamed, LookAtNamed, GoOn
      <3> QED BY <3>1, <3>2, <3>3
    <2>2. CASE OpenNamed
      BY <1>2, <2>2, LoadStep DEF OpenNamed, Say
    <2>3. CASE ReadGeneric
      BY <1>2, <2>3, LoadStep DEF ReadGeneric, Say
    <2> QED BY <2>1, <2>2, <2>3
  <1>5. "generic" \notin Reconciled /\ "open" \notin Reconciled /\ "generic" \in Checking
        /\ "open" \in Checking /\ "conclude" \notin Reconciled
    BY DEF Reconciled, Checking
  <1> QED BY <1>1, <1>2, <1>3, <1>4, <1>5, StepNames, CheckStep

(* Root, leaves and total. *)
LEMMA ReconcileStep ==
    ASSUME NodeInv, Reconcile
    PROVE  NodeInv'
  <1>1. /\ pc = "reconcile" /\ pc \in Checking
        /\ UNCHANGED <<world, setup, epoch, view, batch, attSeen, att, alarmed, exit>>
    BY DEF Reconcile, Checking
  <1>2. Loaded /\ Loaded'
    BY <1>1 DEF NodeInv, CheckSound, Loaded
  <1>3. /\ attSeen' \in BOOLEAN /\ att' \in Attestations \cup {"absent"}
        /\ status \in {"OK", "ALARM", "SKIP", "ERROR"}
    BY <1>1 DEF NodeInv, NodeTypes
  <1>4. PICK verdict : verdict = BatchVerdict(Impl, batch, epoch, view)
    OBVIOUS
  <1>5. /\ verdict \in {"OK", "ALARM", "ERROR"}
        /\ Impl = "go" => verdict # "ERROR"
    BY <1>4, BatchVerdictRange, OthersNeverErr
  <1>6. \/ verdict = "OK" /\ pc' = "att" /\ status' = status
        \/ verdict # "OK" /\ pc' = "conclude" /\ status' = verdict
    BY <1>4 DEF Reconcile, GoOn, Say
  <1>7. "att" \in Reconciled /\ "conclude" \notin Reconciled
    BY DEF Reconciled
  <1> QED BY <1>1, <1>2, <1>3, <1>4, <1>5, <1>6, <1>7, StepNames, CheckStep

(* The signature material. *)
LEMMA SignatureStep ==
    ASSUME NodeInv, LookAtAttestation \/ LookAtKey \/ OpenAttestation \/ OpenKey
    PROVE  NodeInv'
  <1>1. /\ pc \in Reconciled
        /\ UNCHANGED <<world, setup, epoch, view, batch, alarmed, exit>>
    BY DEF LookAtAttestation, LookAtKey, OpenAttestation, OpenKey, Reconciled
  <1>2. pc \in Checking
    BY <1>1, StepNames
  <1>3. Loaded /\ Loaded' /\ BatchVerdict(Impl, batch', epoch, view) = "OK"
    BY <1>1 DEF NodeInv, CheckSound, Loaded
  <1>4. /\ attSeen' \in BOOLEAN /\ att' \in Attestations \cup {"absent"}
        /\ status \in {"OK", "ALARM", "SKIP", "ERROR"} /\ Impl \in {"python", "go"}
    <2>1. /\ attSeen \in BOOLEAN /\ att \in Attestations \cup {"absent"}
          /\ status \in {"OK", "ALARM", "SKIP", "ERROR"} /\ Impl \in {"python", "go"}
          /\ dir.att \in Attestations \cup {"absent"}
      BY SetupCases DEF NodeInv, NodeTypes, WorldInv, Directories
    <2> QED BY <2>1, Zenon DEF LookAtAttestation, LookAtKey, OpenAttestation, OpenKey
  <1>5. pc \in {"openAtt", "openPub"} => Impl = "python"
    BY DEF NodeInv, CheckSound
  <1>6. \/ pc' = "pub" /\ status' = status
        \/ pc' \in {"openAtt", "openPub"} /\ status' = status /\ Impl = "python"
        \/ pc' = "conclude" /\ status' \in {"OK", "ALARM"}
        \/ pc' = "conclude" /\ status' = "ERROR" /\ Impl = "python"
    <2>1. CASE LookAtAttestation
      BY <2>1 DEF LookAtAttestation, GoOn
    <2>2. CASE LookAtKey
      BY <1>4, <2>2, SignatureRange DEF LookAtKey, GoOn, Say
    <2>3. CASE OpenAttestation
      BY <1>5, <2>3, SignatureRange DEF OpenAttestation, GoOn, Say
    <2>4. CASE OpenKey
      BY <1>5, <2>4, SignatureRange DEF OpenKey, Say
    <2> QED BY <2>1, <2>2, <2>3, <2>4
  <1>7. /\ "pub" \in Reconciled /\ "openAtt" \in Reconciled /\ "openPub" \in Reconciled
        /\ "conclude" \notin Reconciled
    BY DEF Reconciled
  <1> QED BY <1>1, <1>2, <1>3, <1>4, <1>6, <1>7, StepNames, CheckStep

(* The eth_call: the view that the check starts from is the chain's. *)
LEMMA CallStep ==
    ASSUME NodeInv, CallBatches
    PROVE  NodeInv'
  <1>1. /\ pc = "call" /\ UNCHANGED <<world, setup, epoch, alarmed, exit>>
        /\ batch' = NoBatchFile /\ attSeen' = FALSE /\ att' = "absent"
    BY DEF CallBatches
  <1>2. epoch \in ViewedEpochs /\ batches[epoch] \in Views /\ NotProposed \in Views
    BY EpochsViewed, ViewCases DEF NodeInv
  <1>3. \/ pc' = "conclude" /\ status' = "ERROR" /\ view' = NotProposed
        \/ pc' = "conclude" /\ status' = "SKIP" /\ view' = batches[epoch]
        \/ /\ pc' = "named" /\ status' = status /\ view' = batches[epoch]
           /\ batches[epoch].finalized
    <2>1. CASE ~reachable
      BY <2>1 DEF CallBatches, Say
    <2>2. CASE reachable /\ NothingToVerify(batches[epoch])
      BY <2>2 DEF CallBatches, Say
    <2>3. CASE reachable /\ ~NothingToVerify(batches[epoch])
      BY <2>3 DEF CallBatches, GoOn, NothingToVerify
    <2> QED BY <2>1, <2>2, <2>3
  <1>4. WorldInv' /\ Impl' = Impl
    BY <1>1 DEF NodeInv, WorldInv, world, Impl
  <1>5. /\ "named" \in Steps /\ "conclude" \in Steps
        /\ pc' \notin {"reconcile", "open", "openAtt", "openPub", "connect", "done"}
        /\ pc' \notin Reconciled
    BY <1>3 DEF Steps, Reconciled
  <1>6. NodeTypes'
    BY <1>1, <1>2, <1>3, <1>5 DEF NodeInv, NodeTypes
  <1>7. pc' = "named" => ViewHolds'
    BY <1>1, <1>3 DEF ViewHolds, world
  <1>8. CheckSound'
    BY <1>3, <1>5, <1>7, StepNames DEF CheckSound
  <1>9. ExitCodeHonest'
    BY <1>1, <1>5 DEF NodeInv, ExitCodeHonest, world
  <1>10. GoNeverErrs'
    BY <1>3, ViewFields DEF GoNeverErrs, FailClosed
  <1> QED BY <1>4, <1>6, <1>8, <1>9, <1>10 DEF NodeInv

(* The end of a pass: an OK moves on to the next epoch, everything else ends the
   node or puts it to sleep. *)
LEMMA ConcludeStep ==
    ASSUME NodeInv, Conclude
    PROVE  /\ NodeInv'
           /\ epoch' # epoch => epoch' = epoch + 1 /\ status = "OK"
  <1>1. /\ pc = "conclude" /\ UNCHANGED <<world, setup, view, attSeen, att, status>>
        /\ alarmed' = AlarmedNow
    BY DEF Conclude
  <1>2. /\ alarmed \in BOOLEAN /\ alarmed' \in BOOLEAN /\ Once \in BOOLEAN
        /\ status \in {"OK", "ALARM", "SKIP", "ERROR"}
    BY <1>1, SetupCases, Zenon DEF NodeInv, NodeTypes, AlarmedNow
  <1>3. \/ /\ status = "OK" /\ epoch' = epoch + 1 /\ pc' = "call"
           /\ batch' = NoBatchFile /\ exit' = exit
        \/ /\ status # "OK" /\ UNCHANGED <<epoch, batch>>
           /\ \/ pc' = "done" /\ exit' = OnceCode
              \/ pc' = "sleep" /\ exit' = exit
    BY DEF Conclude, Advances, Exit
  <1>4. WorldInv'
    BY <1>1 DEF NodeInv, WorldInv, world
  <1>5. status = "OK" => ViewHolds
    BY <1>1 DEF NodeInv, CheckSound
  <1>6. status = "OK" => epoch + 1 \in StartEpoch..(MaxEpoch + 1)
    BY <1>5, EpochsViewed DEF NodeInv, ViewHolds
  <1>7. epoch \in Nat /\ epoch \in StartEpoch..(MaxEpoch + 1)
    BY EpochsViewed DEF NodeInv, NodeTypes
  <1>8. OnceCode \in {0, 1, 2}
    BY DEF OnceCode
  <1>9. NodeTypes'
    BY <1>1, <1>2, <1>3, <1>6, <1>7, <1>8 DEF NodeInv, NodeTypes, Steps
  <1>10. pc' \in {"call", "done", "sleep"}
    BY <1>3
  <1>11. CheckSound'
    BY <1>10 DEF CheckSound, Checking, Reconciled
  <1>12. ExitCodeHonest'
    <2>1. \A e \in StartEpoch..(epoch' - 1) : batches'[e].finalized
      <3>1. CASE status # "OK"
        BY <1>1, <1>3, <3>1 DEF NodeInv, ExitCodeHonest, world
      <3>2. CASE status = "OK"
        <4>1. StartEpoch \in Nat
          BY NodeAssumption, MaxEpochAssumption
        <4>2. \A e \in StartEpoch..(epoch' - 1) : e \in StartEpoch..(epoch - 1) \/ e = epoch
          BY <1>3, <1>7, <3>2, <4>1
        <4> QED BY <1>1, <1>5, <3>2, <4>2 DEF NodeInv, ExitCodeHonest, ViewHolds, world
      <3> QED BY <3>1, <3>2
    <2>2. pc' = "done" => exit' = OnceCode /\ status # "OK"
      BY <1>3
    <2>3. OnceCode = 1 <=> AlarmedNow
      BY DEF OnceCode
    <2>4. status # "OK" /\ OnceCode = 0 => status = "SKIP"
      BY <1>2 DEF OnceCode, AlarmedNow
    <2> QED BY <1>1, <2>1, <2>2, <2>3, <2>4 DEF ExitCodeHonest
  <1>13. GoNeverErrs'
    BY <1>10 DEF GoNeverErrs, FailClosed
  <1>14. epoch' # epoch => epoch' = epoch + 1 /\ status = "OK"
    BY <1>3
  <1> QED BY <1>4, <1>9, <1>11, <1>12, <1>13, <1>14 DEF NodeInv

(* Starting up, waking up and Ctrl-C. *)
LEMMA AroundStep ==
    ASSUME NodeInv, Connect \/ Wake \/ Interrupt
    PROVE  NodeInv'
  <1>1. UNCHANGED <<world, setup, epoch, view, batch, attSeen, att, status, alarmed>>
    BY DEF Connect, Wake, Interrupt
  <1>2. \/ pc = "connect" /\ pc' = "done" /\ exit' = 2
        \/ pc' = "call" /\ exit' = exit
        \/ pc' = "interrupted" /\ exit' = 0
    BY DEF Connect, Wake, Interrupt, Exit
  <1>3. WorldInv'
    BY <1>1 DEF NodeInv, WorldInv, world
  <1>4. NodeTypes'
    BY <1>1, <1>2 DEF NodeInv, NodeTypes, Steps
  <1>5. CheckSound'
    BY <1>2 DEF CheckSound, Checking, Reconciled
  <1>6. ExitCodeHonest'
    BY <1>1, <1>2 DEF NodeInv, CheckSound, ExitCodeHonest, world
  <1>7. GoNeverErrs'
    BY <1>2 DEF GoNeverErrs, FailClosed
  <1> QED BY <1>3, <1>4, <1>5, <1>6, <1>7 DEF NodeInv

(* The honest operator is one of the operators. *)
LEMMA HonestIsWorld ==
    ASSUME WorldInv, HonestNext
    PROVE  WorldInv' /\ CommitmentsKept
  <1>1. CASE \E c \in Commitments : Propose(c)
    BY <1>1, ProposeWorld
  <1>2. CASE \E e \in 1..MaxEpoch : HonestPublish(e)
    BY <1>2, OperatorWorld DEF HonestPublish, OperatorStep
  <1>3. CASE \E e \in 1..MaxEpoch : HonestFinalize(e)
    BY <1>3, FinalizeWorld DEF HonestFinalize
  <1>4. CASE \E f \in GenericFiles : PublishGeneric(f)
    BY <1>4, OperatorWorld DEF OperatorStep
  <1>5. CASE RpcChange
    BY <1>5, OperatorWorld
  <1> QED BY <1>1, <1>2, <1>3, <1>4, <1>5 DEF HonestNext

(* The world moves on under the node: what its view says stays true. *)
LEMMA WorldUnderNode ==
    ASSUME NodeInv, WorldInv', CommitmentsKept, UNCHANGED <<setup, node>>
    PROVE  NodeInv'
  <1>1. UNCHANGED <<setup, pc, epoch, view, batch, attSeen, att, status, alarmed, exit>>
    BY DEF node
  <1>2. epoch \in ViewedEpochs /\ batches[epoch] \in Views
    BY EpochsViewed DEF NodeInv
  <1>3. batches[epoch].finalized => batches[epoch].proposed
    BY <1>2, FinalWasProposed
  <1>4. ViewHolds => ViewHolds'
    BY <1>1, <1>2, <1>3 DEF CommitmentsKept, ViewHolds
  <1>5. NodeTypes' /\ Impl' = Impl /\ (Loaded => Loaded')
    BY <1>1 DEF NodeInv, NodeTypes, Impl, Loaded
  <1>6. CheckSound'
    BY <1>1, <1>4, <1>5 DEF NodeInv, CheckSound
  <1>7. ExitCodeHonest'
    <2>1. \A e \in StartEpoch..(epoch - 1) : e \in ViewedEpochs
      BY MaxEpochAssumption, NodeAssumption DEF NodeInv, NodeTypes, ViewedEpochs
    <2> QED BY <1>1, <2>1 DEF NodeInv, ExitCodeHonest, CommitmentsKept
  <1>8. GoNeverErrs'
    BY <1>1, <1>5 DEF NodeInv, GoNeverErrs, FailClosed
  <1> QED BY <1>5, <1>6, <1>7, <1>8 DEF NodeInv

(* The node starts in order. *)
LEMMA NodeStart == Init => NodeInv
  <1> SUFFICES ASSUME Init PROVE NodeInv
    OBVIOUS
  <1>1. WorldInv
    BY WorldStart DEF Init
  <1>2. NodeTypes
    <2>1. StartEpoch \in StartEpoch..(MaxEpoch + 1)
      BY MaxEpochAssumption, NodeAssumption
    <2>2. NotProposed \in Views
      BY ViewCases
    <2> QED BY <2>1, <2>2 DEF Init, NodeInit, NodeTypes, Steps
  <1>3. CheckSound
    BY DEF Init, NodeInit, CheckSound, Checking, Reconciled
  <1>4. ExitCodeHonest
    BY MaxEpochAssumption, NodeAssumption DEF Init, NodeInit, ExitCodeHonest
  <1>5. GoNeverErrs
    BY DEF Init, NodeInit, GoNeverErrs, FailClosed
  <1> QED BY <1>1, <1>2, <1>3, <1>4, <1>5 DEF NodeInv

(* Every step of the node and of the world keeps the invariant, and the node moves
   to another epoch in Conclude only. *)
LEMMA NodeInvStep ==
    ASSUME NodeInv, [Next]_vars
    PROVE  /\ NodeInv'
           /\ epoch' # epoch => pc = "conclude" /\ status = "OK" /\ epoch' = epoch + 1
  <1>1. CASE UNCHANGED vars
    <2>1. UNCHANGED <<setup, node>> /\ WorldInv' /\ CommitmentsKept
      BY <1>1 DEF vars, NodeInv, WorldInv, world, CommitmentsKept
    <2> QED BY <2>1, WorldUnderNode DEF node
  <1>2. CASE ReadNamed \/ OpenNamed \/ ReadGeneric
    BY <1>2, ReadStep DEF ReadNamed, OpenNamed, ReadGeneric
  <1>3. CASE Reconcile
    BY <1>3, ReconcileStep DEF Reconcile
  <1>4. CASE LookAtAttestation \/ LookAtKey \/ OpenAttestation \/ OpenKey
    BY <1>4, SignatureStep DEF LookAtAttestation, LookAtKey, OpenAttestation, OpenKey
  <1>5. CASE CallBatches
    BY <1>5, CallStep DEF CallBatches
  <1>6. CASE Connect \/ Wake \/ Interrupt
    BY <1>6, AroundStep DEF Connect, Wake, Interrupt
  <1>7. CASE Conclude
    BY <1>7, ConcludeStep DEF Conclude
  <1>8. CASE HonestNext /\ UNCHANGED <<setup, node>>
    BY <1>8, HonestIsWorld, WorldUnderNode DEF NodeInv, node
  <1>9. CASE WorldNext /\ UNCHANGED <<setup, node>>
    BY <1>9, WorldStep, WorldUnderNode DEF NodeInv, node
  <1> QED BY <1>1, <1>2, <1>3, <1>4, <1>5, <1>6, <1>7, <1>8, <1>9 DEF Next, NodeStep

(* The invariant of the daemon. *)
THEOREM NodeInvariant == Spec => []NodeInv
  BY NodeStart, NodeInvStep, PTL DEF Spec

(* Type correctness of the daemon and its world. *)
THEOREM NodeTypeSafety == Spec => []NodeTypeOK
  <1>1. NodeInv => NodeTypeOK
    <2> SUFFICES ASSUME NodeInv PROVE NodeTypeOK
      OBVIOUS
    <2>1. WorldTypeOK
      <3>1. ASSUME NEW e \in ViewedEpochs
            PROVE  \/ batches[e] = NotProposed
                   \/ \E c \in Commitments : \E f \in BOOLEAN :
                          batches[e] = [proposed |-> TRUE, merkleRoot |-> c.merkleRoot,
                                        totalKwh |-> c.totalKwh, finalized |-> f]
        <4>1. batches[e] \in Views
          BY DEF NodeInv, WorldInv
        <4> QED BY <4>1, ViewCases, Zenon DEF Committed
      <3>2. /\ reachable \in BOOLEAN
            /\ dir.named \in [ViewedEpochs -> NamedFiles \cup {AbsentFile}]
            /\ dir.generic \in GenericFiles \cup {AbsentFile}
            /\ dir.att \in Attestations \cup {"absent"}
            /\ dir.pub \in Keys \cup {"absent"}
        BY DEF NodeInv, WorldInv, Directories
      <3> QED BY <3>1, <3>2 DEF WorldTypeOK
    <2>2. view = NotProposed \/ (view.proposed /\ view.finalized \in BOOLEAN)
      BY FinalWasProposed DEF NodeInv, NodeTypes
    <2> QED BY <2>1, <2>2 DEF NodeInv, NodeTypes, NodeTypeOK
  <1> QED BY <1>1, NodeInvariant, PTL

(* The exit code of --once, and the epochs it vouches for. *)
THEOREM ExitCodeSafety == Spec => []ExitCodeHonest
  <1>1. NodeInv => ExitCodeHonest
    BY DEF NodeInv
  <1> QED BY <1>1, NodeInvariant, PTL

(* The node leaves an epoch behind only when the chain, as it is at that moment,
   has finalized it and backs the file that was loaded. *)
THEOREM AdvanceSafety == Spec => AdvanceOnlyOnProof
  <1> DEFINE Proven ==
        epoch' # epoch =>
            /\ epoch' = epoch + 1
            /\ batches[epoch].finalized
            /\ Backed([kind |-> "batch", batch |-> batch], epoch)
  <1>1. NodeInv /\ [Next]_vars => [Proven]_vars
    <2> SUFFICES ASSUME NodeInv, [Next]_vars, epoch' # epoch
                 PROVE  /\ epoch' = epoch + 1
                        /\ batches[epoch].finalized
                        /\ Backed([kind |-> "batch", batch |-> batch], epoch)
      OBVIOUS
    <2>1. pc = "conclude" /\ status = "OK" /\ epoch' = epoch + 1
      BY NodeInvStep
    <2>2. ViewHolds /\ Loaded /\ BatchVerdict(Impl, batch, epoch, view) = "OK"
      BY <2>1 DEF NodeInv, CheckSound
    <2>3. PICK f : f = [kind |-> "batch", batch |-> batch]
      OBVIOUS
    <2>4. f.kind = "batch" /\ f.batch = batch
      BY <2>3
    <2>5. Backed(f, epoch)
      BY <2>2, <2>4, OkBacksFile DEF ViewHolds, Loaded
    <2> QED BY <2>1, <2>2, <2>3, <2>5 DEF ViewHolds
  <1> QED BY <1>1, NodeInvariant, PTL DEF Spec, AdvanceOnlyOnProof

(* What an OK of either node stands for, and that Go knows no third answer, with
   the chain and the directory changing between the steps of the check. *)
THEOREM FailClosedSafety == Spec => ConcludesFailClosed
  <1> DEFINE Sound ==
        pc # "conclude" /\ pc' = "conclude" /\ view'.finalized =>
            /\ Impl = "go" => status' \in {"OK", "ALARM"}
            /\ status' = "OK" =>
                  /\ Backed([kind |-> "batch", batch |-> batch], epoch)
                  /\ \/ SawNoAttestation /\ dir.pub = "absent"
                     \/ GenuinePair(att, dir.pub)
                     \/ Impl = "go" /\ OnlyUnreadable(att, dir.pub)
  <1>1. NodeInv /\ [Next]_vars => [Sound]_vars
    <2> SUFFICES ASSUME NodeInv, [Next]_vars, pc # "conclude", pc' = "conclude",
                        view'.finalized
                 PROVE  /\ Impl = "go" => status' \in {"OK", "ALARM"}
                        /\ status' = "OK" =>
                              /\ Backed([kind |-> "batch", batch |-> batch], epoch)
                              /\ \/ SawNoAttestation /\ dir.pub = "absent"
                                 \/ GenuinePair(att, dir.pub)
                                 \/ Impl = "go" /\ OnlyUnreadable(att, dir.pub)
      OBVIOUS
    <2>1. Impl \in {"python", "go"}
      BY SetupCases DEF NodeInv
    <2>2. epoch \in ViewedEpochs /\ (batches[epoch].finalized => batches[epoch].proposed)
      BY EpochsViewed, FinalWasProposed DEF NodeInv
    <2>3. CASE ReadNamed \/ OpenNamed \/ ReadGeneric
      <3>1. status' = "ALARM"
        BY <2>3 DEF ReadNamed, OpenNamed, ReadGeneric, LookAtNamed, Load, GoOn, Say
      <3> QED BY <3>1
    <2>4. CASE CallBatches
      <3>1. CASE ~reachable
        BY <2>4, <3>1, ViewFields DEF CallBatches
      <3>2. CASE reachable /\ NothingToVerify(batches[epoch])
        BY <2>2, <2>4, <3>2 DEF CallBatches, NothingToVerify
      <3>3. CASE reachable /\ ~NothingToVerify(batches[epoch])
        BY <2>4, <3>3 DEF CallBatches, GoOn
      <3> QED BY <3>1, <3>2, <3>3
    <2>5. CASE Reconcile
      <3>1. PICK verdict : verdict = BatchVerdict(Impl, batch, epoch, view)
        OBVIOUS
      <3>2. verdict \in {"OK", "ALARM", "ERROR"} /\ (Impl = "go" => verdict # "ERROR")
        BY <3>1, BatchVerdictRange, OthersNeverErr
      <3>3. verdict # "OK" /\ status' = verdict
        BY <2>5, <3>1 DEF Reconcile, GoOn, Say
      <3> QED BY <3>2, <3>3
    <2>6. CASE LookAtKey \/ OpenAttestation \/ OpenKey
      <3>1. pc \in Reconciled /\ (pc \in {"openAtt", "openPub"} => Impl = "python")
        BY <2>6 DEF LookAtKey, OpenAttestation, OpenKey, Reconciled, NodeInv, CheckSound
      <3>2. ViewHolds /\ Loaded /\ BatchVerdict(Impl, batch, epoch, view) = "OK"
        BY <3>1, StepNames DEF NodeInv, CheckSound
      <3>3. PICK f : f = [kind |-> "batch", batch |-> batch]
        OBVIOUS
      <3>4. f.kind = "batch" /\ f.batch = batch
        BY <3>3
      <3>5. Backed(f, epoch)
        BY <3>2, <3>4, OkBacksFile DEF ViewHolds, Loaded
      <3>6. CASE LookAtKey /\ Impl = "go"
        <4>1. status' = SignatureVerdict("go", att, dir.pub)
          BY <3>6 DEF LookAtKey, Say
        <4>2. status' \in {"OK", "ALARM"}
          BY <4>1, SignatureRange
        <4>3. status' = "OK" => \/ att = "absent" /\ dir.pub = "absent"
                                \/ GenuinePair(att, dir.pub)
                                \/ OnlyUnreadable(att, dir.pub)
          BY <4>1 DEF SignatureVerdict, Missing, Checked, Refuses, Validates, GenuinePair,
                      OnlyUnreadable
        <4> QED BY <3>3, <3>5, <3>6, <4>2, <4>3 DEF SawNoAttestation
      <3>7. CASE LookAtKey /\ Impl = "python"
        <4>1. /\ ~(attSeen /\ dir.pub # "absent")
              /\ status' = PythonSignatureVerdict(attSeen, dir.pub # "absent", att, dir.pub)
          BY <3>7 DEF LookAtKey, Say, GoOn
        <4>2. attSeen \in BOOLEAN
          BY DEF NodeInv, NodeTypes
        <4>3. status' = "OK" => ~attSeen /\ dir.pub = "absent"
          BY <4>1, <4>2 DEF PythonSignatureVerdict
        <4> QED BY <3>3, <3>5, <3>7, <4>3 DEF SawNoAttestation
      <3>8. CASE OpenAttestation
        <4>1. /\ Missing(dir.att) \/ dir.att \in Refuses("python")
              /\ status' = PythonSignatureVerdict(TRUE, TRUE, dir.att, dir.pub)
          BY <3>8 DEF OpenAttestation, Say, GoOn
        <4>2. status' # "OK"
          BY <4>1 DEF PythonSignatureVerdict
        <4>3. Impl = "python"
          BY <3>1, <3>8 DEF OpenAttestation
        <4> QED BY <4>2, <4>3
      <3>9. CASE OpenKey
        <4>1. status' = PythonSignatureVerdict(TRUE, TRUE, att, dir.pub)
          BY <3>9 DEF OpenKey, Say
        <4>2. status' = "OK" => GenuinePair(att, dir.pub)
          BY <4>1 DEF PythonSignatureVerdict, Missing, Checked, Refuses, Validates, GenuinePair
        <4>3. Impl = "python"
          BY <3>1, <3>9 DEF OpenKey
        <4> QED BY <3>3, <3>5, <4>2, <4>3
      <3> QED BY <2>1, <2>6, <3>6, <3>7, <3>8, <3>9
    <2>7. CASE LookAtAttestation \/ Conclude \/ Connect \/ Wake \/ Interrupt
      BY <2>7 DEF LookAtAttestation, Conclude, Connect, Wake, Interrupt, GoOn, Exit
    <2>8. CASE UNCHANGED vars \/ UNCHANGED <<setup, node>>
      BY <2>8 DEF vars, node
    <2> QED BY <2>3, <2>4, <2>5, <2>6, <2>7, <2>8 DEF Next, NodeStep
  <1> QED BY <1>1, NodeInvariant, PTL DEF Spec, ConcludesFailClosed

-----------------------------------------------------------------------------
(* The honest operator. *)

(* The honest operator keeps every epoch in order: a proposal falls on an epoch
   that has no file yet, a file is written once, and before the finalization. *)
LEMMA HonestWorldStep ==
    ASSUME WorldInv, WorldInv', CommitmentsKept, HonestNext, UNCHANGED setup,
           \A e \in 1..MaxEpoch : HonestEpoch(e)
    PROVE  /\ \A e \in 1..MaxEpoch : HonestEpoch(e)'
           /\ dir'.att = dir.att /\ dir'.pub = dir.pub
  <1>1. Impl' = Impl /\ 1..MaxEpoch \subseteq ViewedEpochs
    BY MaxEpochAssumption DEF Impl, ViewedEpochs
  <1>2. /\ batches \in [ViewedEpochs -> Views] /\ batches' \in [ViewedEpochs -> Views]
        /\ dir \in Directories /\ dir' \in Directories
    BY DEF WorldInv
  <1>3. ASSUME UNCHANGED dir, NEW e \in 1..MaxEpoch,
               batches'[e].finalized => batches[e].finalized \/ dir.named[e] # AbsentFile
        PROVE  HonestEpoch(e)'
    <2>1. e \in ViewedEpochs /\ HonestEpoch(e)
      BY <1>1
    <2>2. batches'[e].finalized => dir'.named[e] # AbsentFile
      BY <1>3, <2>1 DEF HonestEpoch
    <2>3. ASSUME dir'.named[e] # AbsentFile
          PROVE  /\ HoldsEpoch(Impl, dir'.named[e], e)
                 /\ BatchVerdict(Impl, dir'.named[e].batch, e, batches'[e]) = "OK"
                 /\ batches'[e].proposed
      <3>1. /\ HoldsEpoch(Impl, dir.named[e], e)
            /\ BatchVerdict(Impl, dir.named[e].batch, e, batches[e]) = "OK"
            /\ batches[e].proposed
        BY <1>3, <2>1, <2>3 DEF HonestEpoch
      <3>2. /\ batches'[e].proposed
            /\ batches[e].merkleRoot = batches'[e].merkleRoot
            /\ batches[e].totalKwh = batches'[e].totalKwh
        BY <2>1, <3>1 DEF CommitmentsKept
      <3> QED BY <1>3, <3>1, <3>2, VerdictOfView
    <2> QED BY <1>1, <2>2, <2>3 DEF HonestEpoch
  <1>4. CASE \E c \in Commitments : Propose(c)
    <2>1. PICK c \in Commitments : Propose(c)
      BY <1>4
    <2>2. UNCHANGED dir
      BY <2>1 DEF Propose
    <2>3. PICK v : v = Committed(c, FALSE)
      OBVIOUS
    <2>4. batches' = [batches EXCEPT ![c.epoch] = v] /\ v.finalized = FALSE
      BY <2>1, <2>3, ViewFields DEF Propose, Committed
    <2>5. \A e \in 1..MaxEpoch : batches'[e].finalized => batches[e].finalized
      BY <1>1, <1>2, <2>4
    <2> QED BY <1>3, <2>2, <2>5
  <1>5. CASE \E e \in 1..MaxEpoch : HonestFinalize(e)
    <2>1. PICK e \in 1..MaxEpoch : HonestFinalize(e)
      BY <1>5
    <2>2. UNCHANGED dir /\ dir.named[e] # AbsentFile
          /\ \A x \in ViewedEpochs \ {e} : batches'[x] = batches[x]
      BY <2>1, FinalizeWorld DEF HonestFinalize
    <2> QED BY <1>1, <1>3, <2>2
  <1>6. CASE \E e \in 1..MaxEpoch : HonestPublish(e)
    <2>1. PICK e \in 1..MaxEpoch : HonestPublish(e)
      BY <1>6
    <2>2. PICK f \in NamedFiles : /\ batches[e].proposed
                                  /\ HoldsEpoch(Impl, f, e)
                                  /\ BatchVerdict(Impl, f.batch, e, batches[e]) = "OK"
                                  /\ PublishNamed(e, f)
      BY <2>1 DEF HonestPublish
    <2>3. PICK names : names = [dir.named EXCEPT ![e] = f]
      OBVIOUS
    <2>4. dir' = [dir EXCEPT !.named = names] /\ UNCHANGED batches
      BY <2>2, <2>3 DEF PublishNamed
    <2>5. dir'.named = names /\ dir'.att = dir.att /\ dir'.pub = dir.pub
      BY <1>2, <2>4 DEF Directories
    <2>6. f # AbsentFile
      BY <2>2 DEF HoldsEpoch, Unmarshals, AbsentFile
    <2>7. names[e] = f /\ \A x \in 1..MaxEpoch : x # e => names[x] = dir.named[x]
      BY <1>1, <1>2, <2>3 DEF Directories
    <2> QED BY <1>1, <2>2, <2>4, <2>5, <2>6, <2>7 DEF HonestEpoch
  <1>7. CASE \E f \in GenericFiles : PublishGeneric(f)
    <2>1. PICK f : dir' = [dir EXCEPT !.generic = f] /\ UNCHANGED batches
      BY <1>7 DEF PublishGeneric
    <2>2. dir'.named = dir.named /\ dir'.att = dir.att /\ dir'.pub = dir.pub
      BY <1>2, <2>1 DEF Directories
    <2> QED BY <1>1, <2>1, <2>2 DEF HonestEpoch
  <1>8. CASE RpcChange
    BY <1>3, <1>8 DEF RpcChange
  <1> QED BY <1>4, <1>5, <1>6, <1>7, <1>8 DEF HonestNext

(* A check of an honest directory finds nothing to complain of. *)
LEMMA HonestNodeStep ==
    ASSUME NodeInv, NodeStep \/ Interrupt,
           dir.att = "absent", dir.pub = "absent", HonestNode,
           \A e \in 1..MaxEpoch : HonestEpoch(e)
    PROVE  HonestNode' /\ UNCHANGED <<setup, dir, batches>>
  <1>1. UNCHANGED <<setup, dir, batches>> /\ Impl' = Impl
    BY DEF NodeStep, Interrupt, Connect, CallBatches, ReadNamed, OpenNamed, ReadGeneric,
           Reconcile, LookAtAttestation, LookAtKey, OpenAttestation, OpenKey, Conclude, Wake,
           world, Impl
  <1> SUFFICES HonestNode'
    BY <1>1
  <1>2. Impl \in {"python", "go"}
    BY SetupCases DEF NodeInv
  <1>3. ASSUME pc \in Checking
        PROVE  /\ HoldsEpoch(Impl, dir.named[epoch], epoch)
               /\ dir.named[epoch].kind # "absent"
               /\ BatchVerdict(Impl, dir.named[epoch].batch, epoch, view) = "OK"
    <2>1. ViewHolds
      BY <1>3 DEF NodeInv, CheckSound
    <2>2. epoch \in 1..MaxEpoch
      BY <2>1, EpochsViewed DEF NodeInv, ViewHolds
    <2>3. /\ HoldsEpoch(Impl, dir.named[epoch], epoch)
          /\ BatchVerdict(Impl, dir.named[epoch].batch, epoch, batches[epoch]) = "OK"
      BY <2>1, <2>2 DEF HonestEpoch, ViewHolds
    <2>4. BatchVerdict(Impl, dir.named[epoch].batch, epoch, view) = "OK"
      BY <2>1, <2>3, VerdictOfView DEF ViewHolds
    <2> QED BY <2>3, <2>4 DEF HoldsEpoch, Unmarshals
  <1>4. CASE ReadNamed
    <2>1. pc \in Checking /\ UNCHANGED <<epoch, view, attSeen, att, alarmed>>
      BY <1>4 DEF ReadNamed, Checking
    <2>2. \/ pc' = "open" /\ status' = status
          \/ pc' = "reconcile" /\ status' = status /\ batch' = dir.named[epoch].batch
      BY <1>2, <1>3, <1>4, <2>1 DEF ReadNamed, LookAtNamed, GoOn, Load
    <2> QED BY <1>1, <1>3, <2>1, <2>2 DEF HonestNode
  <1>5. CASE OpenNamed
    <2>1. pc \in Checking /\ UNCHANGED <<epoch, view, attSeen, att, alarmed>>
      BY <1>5 DEF OpenNamed, Checking
    <2>2. pc' = "reconcile" /\ status' = status /\ batch' = dir.named[epoch].batch
      BY <1>3, <1>5, <2>1 DEF OpenNamed, GoOn, Load
    <2> QED BY <1>1, <1>3, <2>1, <2>2 DEF HonestNode
  <1>6. CASE ReadGeneric
    BY <1>6 DEF ReadGeneric, HonestNode
  <1>7. CASE Reconcile
    BY <1>1, <1>7 DEF Reconcile, HonestNode, GoOn
  <1>8. CASE LookAtAttestation
    BY <1>8 DEF LookAtAttestation, HonestNode, GoOn
  <1>9. CASE LookAtKey
    <2>1. SignatureVerdict("go", att, dir.pub) = "OK"
      BY DEF HonestNode, SignatureVerdict, Missing
    <2>2. PythonSignatureVerdict(attSeen, dir.pub # "absent", att, dir.pub) = "OK"
      BY DEF HonestNode, PythonSignatureVerdict
    <2>3. pc' = "conclude" /\ status' = "OK" /\ UNCHANGED <<attSeen, att, alarmed>>
      BY <1>2, <1>9, <2>1, <2>2 DEF LookAtKey, Say, HonestNode
    <2> QED BY <2>3 DEF HonestNode
  <1>10. CASE OpenAttestation \/ OpenKey
    BY <1>10 DEF OpenAttestation, OpenKey, HonestNode
  <1>11. CASE CallBatches
    <2>1. /\ attSeen' = FALSE /\ att' = "absent" /\ alarmed' = alarmed
          /\ \/ pc' = "conclude" /\ status' \in {"ERROR", "SKIP"}
             \/ pc' = "named" /\ status' = status
      <3>1. CASE ~reachable
        BY <1>11, <3>1 DEF CallBatches, Say
      <3>2. CASE reachable /\ NothingToVerify(batches[epoch])
        BY <1>11, <3>2 DEF CallBatches, Say
      <3>3. CASE reachable /\ ~NothingToVerify(batches[epoch])
        BY <1>11, <3>3 DEF CallBatches, GoOn
      <3> QED BY <3>1, <3>2, <3>3
    <2> QED BY <2>1 DEF HonestNode
  <1>12. CASE Conclude
    <2>1. alarmed' = AlarmedNow /\ pc' \in {"call", "done", "sleep"}
          /\ UNCHANGED <<attSeen, att, status>>
      BY <1>12 DEF Conclude, Exit
    <2> QED BY <2>1 DEF HonestNode, AlarmedNow
  <1>13. CASE Connect \/ Wake \/ Interrupt
    <2>1. pc' \in {"call", "done", "interrupted"} /\ UNCHANGED <<attSeen, att, status, alarmed>>
      BY <1>13 DEF Connect, Wake, Interrupt, Exit
    <2> QED BY <2>1 DEF HonestNode
  <1> QED BY <1>1, <1>4, <1>5, <1>6, <1>7, <1>8, <1>9, <1>10, <1>11, <1>12, <1>13 DEF NodeStep

(* The honest operator's invariant. *)
THEOREM HonestInvariant == Spec => []HonestInv
  <1>1. Init => HonestInv
    <2> SUFFICES ASSUME Init PROVE HonestInv
      OBVIOUS
    <2>1. dir.att = "absent" /\ dir.pub = "absent" /\ HonestNode
      BY DEF Init, WorldInit, NodeInit, HonestNode
    <2>2. ASSUME NEW e \in 1..MaxEpoch PROVE HonestEpoch(e)
      <3>1. e \in ViewedEpochs
        BY MaxEpochAssumption DEF ViewedEpochs
      <3>2. dir.named[e] = AbsentFile /\ batches[e] = NotProposed
        BY <3>1 DEF Init, WorldInit
      <3> QED BY <3>2, ViewFields DEF HonestEpoch
    <2> QED BY <2>1, <2>2 DEF HonestInv
  <1>2. NodeInv /\ NodeInv' /\ HonestInv /\ [Next]_vars => HonestInv'
    <2> SUFFICES ASSUME NodeInv, NodeInv', HonestInv, [Next]_vars, setup'.honest
                 PROVE  /\ dir'.att = "absent" /\ dir'.pub = "absent"
                        /\ HonestNode'
                        /\ \A e \in 1..MaxEpoch : HonestEpoch(e)'
      BY DEF HonestInv
    <2>1. setup' = setup
      BY DEF Next, NodeStep, Interrupt, Connect, CallBatches, ReadNamed, OpenNamed,
             ReadGeneric, Reconcile, LookAtAttestation, LookAtKey, OpenAttestation, OpenKey,
             Conclude, Wake, vars
    <2>2. /\ dir.att = "absent" /\ dir.pub = "absent" /\ HonestNode
          /\ \A e \in 1..MaxEpoch : HonestEpoch(e)
      BY <2>1 DEF HonestInv
    <2>3. ASSUME UNCHANGED <<setup, dir, batches>>
          PROVE  \A e \in 1..MaxEpoch : HonestEpoch(e)'
      BY <2>2, <2>3 DEF HonestEpoch, Impl
    <2>4. CASE NodeStep \/ Interrupt
      BY <2>2, <2>3, <2>4, HonestNodeStep
    <2>5. CASE HonestNext /\ UNCHANGED <<setup, node>>
      <3>1. HonestNode'
        BY <2>2, <2>5 DEF HonestNode, node, Impl
      <3>2. WorldInv /\ WorldInv' /\ CommitmentsKept
        BY <2>5, HonestIsWorld DEF NodeInv
      <3> QED BY <2>2, <2>5, <3>1, <3>2, HonestWorldStep
    <2>6. CASE UNCHANGED vars
      <3>1. UNCHANGED <<setup, dir, batches, node>>
        BY <2>6 DEF vars, world
      <3>2. HonestNode'
        BY <2>2, <3>1 DEF HonestNode, node, Impl
      <3> QED BY <2>2, <2>3, <3>1, <3>2
    <2> QED BY <2>1, <2>4, <2>5, <2>6 DEF Next
  <1> QED BY <1>1, <1>2, NodeInvariant, PTL DEF Spec

(* An honest operator is never accused, whatever batch.json holds meanwhile. *)
THEOREM NoFalseAlarmSafety == Spec => []NoFalseAlarm
  <1>1. HonestInv => NoFalseAlarm
    BY DEF HonestInv, HonestNode, NoFalseAlarm
  <1> QED BY <1>1, HonestInvariant, PTL
=============================================================================
