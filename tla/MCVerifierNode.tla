---------------------------- MODULE MCVerifierNode ----------------------------
(***************************************************************************)
(* Instances of VerifierNode for TLC: one leaf per epoch, and the files    *)
(* that make the steps of a check go their different ways.                 *)
(***************************************************************************)
EXTENDS VerifierNode

CONSTANTS alice

LeafOf(e) == ComputeLeaf(alice, 1, e)

TwoEpochs == {[epoch |-> e, merkleRoot |-> {LeafOf(e)}, totalKwh |-> 1] : e \in {1, 2}}

GoodFile(e) ==
    [kind |-> "batch",
     batch |-> [epoch |-> e, root |-> {LeafOf(e)},
                leaves |-> <<[beneficiary |-> alice, amount |-> 1, literal |-> "integer",
                              hash |-> LeafOf(e), proof |-> "intact"]>>]]

(* The amount was changed after the tree was built. *)
TamperedFile(e) == [GoodFile(e) EXCEPT !.batch.leaves[1].amount = 2]

GoodFiles   == {GoodFile(1), GoodFile(2)}
FirstFile   == {GoodFile(1)}
(* batch.json: a tampered first epoch, or already the second one. *)
LatestFiles == {TamperedFile(1), GoodFile(2)}

Start(i, o, h) == [impl |-> i, once |-> o, honest |-> h]
OnePass      == {Start("python", TRUE, FALSE), Start("go", TRUE, FALSE)}
PythonOnce   == {Start("python", TRUE, FALSE)}
PythonDaemon == {Start("python", FALSE, FALSE)}
Daemons      == PythonDaemon \cup {Start("python", FALSE, TRUE), Start("go", FALSE, TRUE)}
AllSetups    == OnePass \cup Daemons

GoDaemon     == {Start("go", FALSE, FALSE)}
NoFiles     == {}
OneEpoch    == {[epoch |-> 1, merkleRoot |-> {LeafOf(1)}, totalKwh |-> 1]}
=============================================================================
