---------------------------- MODULE VerifierNode ----------------------------
(***************************************************************************)
(* The verifier daemon: run() of node/verifier_node.py and main() of       *)
(* node/go/main.go.  It asks the chain about one epoch after the other and *)
(* reads the operator's files one at a time, while the chain and the       *)
(* operator go on changing them.  A setup says which implementation is     *)
(* started, whether with --once, and whether the operator is honest.       *)
(***************************************************************************)
EXTENDS PublishedData

CONSTANTS Setups, StartEpoch

ASSUME NodeAssumption ==
    /\ Setups \subseteq [impl : {"python", "go"}, once : BOOLEAN, honest : BOOLEAN]
    /\ StartEpoch \in 1..MaxEpoch

VARIABLES
    setup,      \* the member of Setups this behaviour is about
    pc,         \* what the node does next
    epoch,      \* the epoch being verified
    view,       \* the last answer of batches(epoch)
    batch,      \* the batch file loaded for it
    attSeen,    \* att_present: attestation.json existed when looked for (python)
    att,        \* attestation.json as it was read
    status,     \* the verdict
    alarmed,    \* alarms > 0
    exit        \* the exit code

node == <<pc, epoch, view, batch, attSeen, att, status, alarmed, exit>>
vars == <<world, setup, node>>

Impl == setup.impl
Once == setup.once

Running == -1
NoBatchFile == [kind |-> "none"]

Steps == {"connect", "call", "named", "open", "generic", "reconcile", "att", "pub",
          "openAtt", "openPub", "conclude", "sleep", "done", "interrupted"}

(* Type correctness; epoch never runs past the first epoch nobody proposed. *)
NodeTypeOK ==
    /\ WorldTypeOK
    /\ setup \in Setups
    /\ pc \in Steps
    /\ epoch \in StartEpoch..(MaxEpoch + 1)
    /\ \/ view = NotProposed
       \/ view.proposed /\ view.finalized \in BOOLEAN
    /\ batch = NoBatchFile \/ batch.epoch = epoch
    /\ attSeen \in BOOLEAN
    /\ att \in Attestations \cup {"absent"}
    /\ status \in {"OK", "ALARM", "SKIP", "ERROR"}
    /\ alarmed \in BOOLEAN
    /\ exit \in {Running, 0, 1, 2}

NodeInit ==
    /\ setup \in Setups
    /\ pc = "connect"
    /\ epoch = StartEpoch
    /\ view = NotProposed
    /\ batch = NoBatchFile
    /\ attSeen = FALSE
    /\ att = "absent"
    /\ status = "SKIP"
    /\ alarmed = FALSE
    /\ exit = Running

-----------------------------------------------------------------------------
(* What the steps of one check end in: a verdict, or a next step. *)
Say(verdict) == pc' = "conclude" /\ status' = verdict
GoOn(step)   == pc' = step /\ UNCHANGED status

Exit(code)   == pc' = "done" /\ exit' = code

(* is_connected() asks the endpoint; ethclient.DialContext on an http URL does not. *)
Connect ==
    /\ pc = "connect"
    /\ IF Impl = "python" /\ ~reachable
       THEN Exit(2)
       ELSE pc' = "call" /\ UNCHANGED exit
    /\ UNCHANGED <<world, setup, epoch, view, batch, attSeen, att, status, alarmed>>

BugProposedIsFinal(v) == ~v.proposed

(* timestamp == 0, or not finalized. *)
NothingToVerify(v) == ~v.proposed \/ ~v.finalized

(* The eth_call of batches(epoch); a failed one is neither SKIP nor ALARM. *)
CallBatches ==
    /\ pc = "call"
    /\ view' = IF reachable THEN batches[epoch] ELSE NotProposed
    /\ CASE ~reachable                              -> Say("ERROR")
         [] reachable /\ NothingToVerify(batches[epoch]) -> Say("SKIP")
         [] OTHER                                   -> GoOn("named")
    /\ batch' = NoBatchFile
    /\ attSeen' = FALSE
    /\ att' = "absent"
    /\ UNCHANGED <<world, setup, epoch, alarmed, exit>>

Load(b) == batch' = b /\ GoOn("reconcile")

BugGenericOnly(f) == GoOn("generic") /\ UNCHANGED batch

(* batch-<epoch>.json: python tests for it and opens it in a later step. *)
LookAtNamed(f) ==
    CASE Impl = "python" /\ f.kind # "absent"     -> GoOn("open") /\ UNCHANGED batch
      [] Impl = "go" /\ HoldsEpoch(Impl, f, epoch) -> Load(f.batch)
      [] OTHER                                    -> GoOn("generic") /\ UNCHANGED batch

ReadNamed ==
    /\ pc = "named"
    /\ LookAtNamed(dir.named[epoch])
    /\ UNCHANGED <<world, setup, epoch, view, attSeen, att, alarmed, exit>>

(* A file that does not hold the epoch, or is gone by now: MalformedBatch. *)
OpenNamed ==
    /\ pc = "open"
    /\ IF HoldsEpoch(Impl, dir.named[epoch], epoch)
       THEN Load(dir.named[epoch].batch)
       ELSE Say("ALARM") /\ UNCHANGED batch
    /\ UNCHANGED <<world, setup, epoch, view, attSeen, att, alarmed, exit>>

(* batch.json.  Absent, for another epoch or unusable are all alarms, so the
   test for existence needs no step of its own. *)
ReadGeneric ==
    /\ pc = "generic"
    /\ IF HoldsEpoch(Impl, dir.generic, epoch)
       THEN Load(dir.generic.batch)
       ELSE Say("ALARM") /\ UNCHANGED batch
    /\ UNCHANGED <<world, setup, epoch, view, attSeen, att, alarmed, exit>>

(* Root, leaves and total against the view taken earlier. *)
Reconcile ==
    /\ pc = "reconcile"
    /\ LET verdict == BatchVerdict(Impl, batch, epoch, view)
       IN  IF verdict = "OK" THEN GoOn("att") ELSE Say(verdict)
    /\ UNCHANGED <<world, setup, epoch, view, batch, attSeen, att, alarmed, exit>>

(* Python looks whether attestation.json exists, Go reads it. *)
LookAtAttestation ==
    /\ pc = "att"
    /\ IF Impl = "python"
       THEN attSeen' = (dir.att # "absent") /\ UNCHANGED att
       ELSE att' = dir.att /\ UNCHANGED attSeen
    /\ GoOn("pub")
    /\ UNCHANGED <<world, setup, epoch, view, batch, alarmed, exit>>

(* Then attester.key.pub; Go has what it needs, python opens the pair. *)
LookAtKey ==
    /\ pc = "pub"
    /\ CASE Impl = "go" -> Say(SignatureVerdict("go", att, dir.pub))
         [] Impl = "python" /\ attSeen /\ dir.pub # "absent" -> GoOn("openAtt")
         [] OTHER -> Say(PythonSignatureVerdict(attSeen, dir.pub # "absent", att, dir.pub))
    /\ UNCHANGED <<world, setup, epoch, view, batch, attSeen, att, alarmed, exit>>

(* _load_attestation. *)
OpenAttestation ==
    /\ pc = "openAtt"
    /\ att' = dir.att
    /\ IF Missing(dir.att) \/ dir.att \in Refuses("python")
       THEN Say(PythonSignatureVerdict(TRUE, TRUE, dir.att, dir.pub))
       ELSE GoOn("openPub")
    /\ UNCHANGED <<world, setup, epoch, view, batch, attSeen, alarmed, exit>>

(* _load_pubkey and _verify_signature. *)
OpenKey ==
    /\ pc = "openPub"
    /\ Say(PythonSignatureVerdict(TRUE, TRUE, att, dir.pub))
    /\ UNCHANGED <<world, setup, epoch, view, batch, attSeen, att, alarmed, exit>>

-----------------------------------------------------------------------------
(* Only an OK moves on to the next epoch. *)
Advances == status = "OK"

BugAlarmNotCounted == alarmed

(* alarms > 0 after this verdict. *)
AlarmedNow == alarmed \/ status = "ALARM"

(* The exit code of --once: an alarm outweighs everything else. *)
OnceCode == IF AlarmedNow THEN 1 ELSE IF status = "ERROR" THEN 2 ELSE 0

BugAlarmStopsDaemon == Once \/ status = "ALARM"

(* After anything but an OK: --once returns, the daemon waits for its next tick. *)
StopsNow == Once

(* The body of the loop once the verdict is there. *)
Conclude ==
    /\ pc = "conclude"
    /\ alarmed' = AlarmedNow
    /\ IF Advances
       THEN epoch' = epoch + 1 /\ pc' = "call" /\ batch' = NoBatchFile /\ UNCHANGED exit
       ELSE /\ UNCHANGED <<epoch, batch>>
            /\ IF StopsNow THEN Exit(OnceCode) ELSE pc' = "sleep" /\ UNCHANGED exit
    /\ UNCHANGED <<world, setup, view, attSeen, att, status>>

(* time.sleep(interval) is over. *)
Wake ==
    /\ pc = "sleep"
    /\ pc' = "call"
    /\ UNCHANGED <<world, setup, epoch, view, batch, attSeen, att, status, alarmed, exit>>

(* Ctrl-C: main() of the Python node returns 0. *)
Interrupt ==
    /\ Impl = "python"
    /\ pc \notin {"done", "interrupted"}
    /\ pc' = "interrupted"
    /\ exit' = 0
    /\ UNCHANGED <<world, setup, epoch, view, batch, attSeen, att, status, alarmed>>

NodeStep ==
    \/ Connect \/ CallBatches \/ ReadNamed \/ OpenNamed \/ ReadGeneric \/ Reconcile
    \/ LookAtAttestation \/ LookAtKey \/ OpenAttestation \/ OpenKey \/ Conclude \/ Wake

(* An honest operator publishes a correct batch-<epoch>.json before the epoch is
   finalized and leaves it alone from then on.  batch.json is rewritten for every
   epoch, and no signature material is published. *)
HonestPublish(e) ==
    \E f \in NamedFiles :
        /\ batches[e].proposed
        /\ dir.named[e] = AbsentFile
        /\ HoldsEpoch(Impl, f, e)
        /\ BatchVerdict(Impl, f.batch, e, batches[e]) = "OK"
        /\ PublishNamed(e, f)

HonestFinalize(e) == dir.named[e] # AbsentFile /\ Finalize(e)

HonestNext ==
    \/ \E c \in Commitments : Propose(c)
    \/ \E e \in 1..MaxEpoch : HonestPublish(e) \/ HonestFinalize(e)
    \/ \E f \in GenericFiles : PublishGeneric(f)
    \/ RpcChange

Init == WorldInit /\ NodeInit

Next ==
    \/ NodeStep
    \/ Interrupt
    \/ /\ setup.honest
       /\ HonestNext
       /\ UNCHANGED <<setup, node>>
    \/ /\ ~setup.honest
       /\ WorldNext
       /\ UNCHANGED <<setup, node>>

Spec == Init /\ [][Next]_vars

(* The process is scheduled; the world owes it nothing. *)
FairSpec == Spec /\ WF_vars(NodeStep)

-----------------------------------------------------------------------------
(* The node moves past an epoch only when that epoch is finalized on the chain
   as it is NOW, not only in the view taken before the files were read, and the
   file it loaded is backed by that commitment. *)
AdvanceOnlyOnProof ==
    [][epoch' # epoch =>
           /\ epoch' = epoch + 1
           /\ batches[epoch].finalized
           /\ Backed([kind |-> "batch", batch |-> batch], epoch)]_vars

(* Everything below the node's epoch is finalized: an exit code of 0 or 1 at
   epoch n vouches for the epochs before n.  1 means an alarm was raised, and
   no alarm ever ends in 0 or 2. *)
ExitCodeHonest ==
    /\ \A e \in StartEpoch..(epoch - 1) : batches[e].finalized
    /\ pc = "done" => (exit = 1 <=> alarmed)
    /\ pc = "done" /\ exit = 0 => status = "SKIP"

(* Once an epoch is finalized, a problem with the published data is an alarm and
   not a transient error: the contract in verify_epoch's docstring. *)
FailClosed == pc = "conclude" /\ view.finalized => status # "ERROR"

(* attestation.json was not there when the node looked. *)
SawNoAttestation == IF Impl = "python" THEN ~attSeen ELSE att = "absent"

(* The contract as the two nodes keep it, the files and the chain changing under
   them.  An OK about a finalized epoch means that the batch the node loaded is
   backed by what the chain holds now, and that of the signature files, each as it
   was when the node read it, neither was there or both make a genuine pair; Go
   answers with OK or ALARM and never with an error.  Python's errors are the
   subject of FailClosed, files Go cannot read that of UnreadableIsNotAbsent. *)
ConcludesFailClosed ==
    [][pc # "conclude" /\ pc' = "conclude" /\ view'.finalized =>
          /\ Impl = "go" => status' \in {"OK", "ALARM"}
          /\ status' = "OK" =>
                /\ Backed([kind |-> "batch", batch |-> batch], epoch)
                /\ \/ SawNoAttestation /\ dir.pub = "absent"
                   \/ GenuinePair(att, dir.pub)
                   \/ Impl = "go" /\ OnlyUnreadable(att, dir.pub)]_vars

(* "Genuinely absent on BOTH sides [...] is the only legitimate skip": no OK of the
   Go node when attestation.json was there and could not be read. *)
UnreadableIsNotAbsent ==
    pc = "conclude" /\ status = "OK" /\ Impl = "go" => att # "unreadable"

(* An honest operator is never accused, whatever batch.json holds meanwhile. *)
NoFalseAlarm == setup.honest => ~alarmed

(* A daemon nobody stopped, and that did reach the endpoint when it started. *)
Alive == ~Once /\ pc # "interrupted" /\ exit # 2

(* The operator stops touching the directory.  A file that is replaced again and
   again can be missed between the test for it and its opening every time. *)
Settles == <>[][dir' = dir]_dir

(* When the chain answers and the files of all epochs up to e are in order for
   good, the daemon gets past e, whatever alarms and errors came before. *)
EventuallyVerified ==
    Settles =>
        \A e \in StartEpoch..MaxEpoch :
            <>[](Alive /\ \A k \in StartEpoch..e : Answer(Impl, k) = "OK") => <>(epoch > e)

(* As long as the epoch the daemon is at does not reconcile, it raises the alarm
   again and again. *)
KeepsAlarming ==
    Settles =>
        \A e \in StartEpoch..MaxEpoch :
            <>[](Alive /\ epoch = e /\ Answer(Impl, e) = "ALARM") =>
                []<>(pc = "conclude" /\ status = "ALARM")

(* The documented meaning of exit code 0, "all verified": when the pass of --once
   ends because the epoch it is at is not finalized, no later epoch is. *)
ExitZeroAllVerified ==
    [][Once /\ pc = "call" /\ pc' = "conclude" /\ status' = "SKIP" =>
           \A e \in epoch..MaxEpoch : ~batches[e].finalized]_vars
=============================================================================
