-------------------------- MODULE KeyProvisioning --------------------------
(***************************************************************************)
(* tools/provision_atecc.py (generate-key, sign-test, export-onchain) and  *)
(* the signature checks of tools/verify_attestation.py and of the Python   *)
(* integrator library, over the files they share: attester.key,            *)
(* attester.key.pub and attestation.json.                                  *)
(*                                                                         *)
(* There is no lock, a file is emptied before it is written, and every     *)
(* invocation is a process of its own that can be killed anywhere: two     *)
(* runs can interleave, and a rotation (generate-key --force) can fall     *)
(* between any two steps of a signature or a check.  A key pair is a       *)
(* number, a signature is by a key over what it signed.                    *)
(***************************************************************************)
EXTENDS Integers, FiniteSets

CONSTANTS Procs,     \* invocations that may run at the same time
          MaxKeys    \* bound on the keys generated

ASSUME ProvisioningAssumption == IsFiniteSet(Procs) /\ MaxKeys \in Nat

VARIABLES
    priv, mode,   \* attester.key: its content and its permissions
    pub,          \* attester.key.pub
    att,          \* attestation.json
    bound,        \* the key a NoethrionVerifier instance was constructed with
    lastKey,      \* the keys generated so far
    torn,         \* a generate-key was killed or overlapped since the last clean one
    proc          \* the invocations

files == <<priv, mode, pub, att>>
vars == <<files, bound, lastKey, torn, proc>>

Absent == 0 - 1     \* no file
Empty  == 0         \* a file just opened for writing
KeyIds == 1..MaxKeys
IsKey(content) == content \in KeyIds

(* attestation.json is a record; form says whether somebody changed it after
   sign-test: the payload, the hex of the signature or the algorithm label. *)
NoAttestation(content) == [signer |-> content, form |-> "none"]
Edits == {"payload", "badhex", "wrongalg"}
AttForms == {"signed"} \cup Edits

(* What a check is asked besides the signature.  hash: the --hash option of the CLI;
   tree: the pair hash under which the siblings lead from the leaf to the root;
   wide: the amount is from 2^128 up, below 2^256. *)
Hashes   == {"keccak256", "sha256"}
Requests == [hash : Hashes, tree : Hashes \cup {"none"}, wide : BOOLEAN]
NoRequest == [hash |-> "keccak256", tree |-> "none", wide |-> FALSE]

Idle == [pc |-> "idle", key |-> Absent, goodId |-> FALSE, request |-> NoRequest,
         alone |-> FALSE, seen |-> NoAttestation(Absent)]

GenerateSteps == {"open", "write", "chmod", "openPub", "writePub"}
Generating == {p \in Procs : proc[p].pc \in GenerateSteps}

Init ==
    /\ priv = Absent /\ pub = Absent /\ mode = "none"
    /\ att = NoAttestation(Absent)
    /\ bound = Absent
    /\ lastKey = 0
    /\ torn = FALSE
    /\ proc = [p \in Procs |-> Idle]

GoTo(p, step) == proc' = [proc EXCEPT ![p].pc = step]
Ends(p)       == proc' = [proc EXCEPT ![p] = Idle]

-----------------------------------------------------------------------------
(* out.exists() and not args.force refuses. *)
MayGenerate(force) == priv = Absent \/ force

(* cmd_generate_key up to the first write; the test is not repeated later. *)
GenerateKey(p, force) ==
    /\ proc[p] = Idle
    /\ MayGenerate(force)
    /\ lastKey < MaxKeys
    /\ lastKey' = lastKey + 1
    /\ torn' = (torn \/ Generating # {})
    /\ proc' = [q \in Procs |->
                  IF q = p THEN [Idle EXCEPT !.pc = "open", !.key = lastKey + 1,
                                             !.alone = (Generating = {})]
                  ELSE [proc[q] EXCEPT !.alone = FALSE]]
    /\ UNCHANGED <<files, bound>>

(* out.write_bytes: open truncates, a new file has the default permissions. *)
OpenPrivate(p) ==
    /\ proc[p].pc = "open"
    /\ priv' = Empty
    /\ mode' = IF mode = "none" THEN "umask" ELSE mode
    /\ GoTo(p, "write")
    /\ UNCHANGED <<pub, att, bound, lastKey, torn>>

WritePrivate(p) ==
    /\ proc[p].pc = "write"
    /\ priv' = proc[p].key
    /\ GoTo(p, "chmod")
    /\ UNCHANGED <<mode, pub, att, bound, lastKey, torn>>

BugChmodMissing(p) ==
    /\ proc[p].pc = "chmod"
    /\ GoTo(p, "openPub")
    /\ UNCHANGED <<files, bound, lastKey, torn>>

(* os.chmod(out, 0o600). *)
Chmod(p) ==
    /\ proc[p].pc = "chmod"
    /\ mode' = "0600"
    /\ GoTo(p, "openPub")
    /\ UNCHANGED <<priv, pub, att, bound, lastKey, torn>>

(* _write_public_key. *)
OpenPublic(p) ==
    /\ proc[p].pc = "openPub"
    /\ pub' = Empty
    /\ GoTo(p, "writePub")
    /\ UNCHANGED <<priv, mode, att, bound, lastKey, torn>>

WritePublic(p) ==
    /\ proc[p].pc = "writePub"
    /\ pub' = proc[p].key
    /\ torn' = (torn /\ ~proc[p].alone)
    /\ Ends(p)
    /\ UNCHANGED <<priv, mode, att, bound, lastKey>>

(* An invocation is killed. *)
Kill(p) ==
    /\ proc[p] # Idle
    /\ torn' = (torn \/ p \in Generating)
    /\ Ends(p)
    /\ UNCHANGED <<files, bound, lastKey>>

-----------------------------------------------------------------------------
(* 02_sign_attestation.sh: the key file must exist; the shell empties
   attestation.json before sign-test starts.  goodId: the --device-id is usable. *)
SignTest(p, goodId) ==
    /\ proc[p] = Idle
    /\ priv # Absent
    /\ att' = NoAttestation(Empty)
    /\ proc' = [proc EXCEPT ![p] = [Idle EXCEPT !.pc = "load", !.goodId = goodId]]
    /\ UNCHANGED <<priv, mode, pub, bound, lastKey, torn>>

(* _load_private_key, then the length of the device id. *)
LoadPrivate(p) ==
    /\ proc[p].pc = "load"
    /\ IF IsKey(priv) /\ proc[p].goodId
       THEN proc' = [proc EXCEPT ![p].pc = "emit", ![p].key = priv]
       ELSE Ends(p)
    /\ UNCHANGED <<files, bound, lastKey, torn>>

(* json.dump to stdout. *)
Emit(p) ==
    /\ proc[p].pc = "emit"
    /\ att' = [signer |-> proc[p].key, form |-> "signed"]
    /\ Ends(p)
    /\ UNCHANGED <<priv, mode, pub, bound, lastKey, torn>>

(* Somebody edits the published attestation. *)
EditAttestation(form) ==
    /\ att.form = "signed"
    /\ att' = [att EXCEPT !.form = form]
    /\ UNCHANGED <<priv, mode, pub, bound, lastKey, torn, proc>>

(* cmd_export_onchain and cmd_show_pubkey read one of the two files; the key an
   export from `source` prints, Absent when it fails. *)
ExportOnchain(source) ==
    LET content == IF source = "pub" THEN pub ELSE priv
    IN  IF IsKey(content) THEN content ELSE Absent

-----------------------------------------------------------------------------
(* _load_attestation: a file that is missing, empty or not labelled ES256 ends
   the program, with exit code 1 like a signature that does not validate. *)
LoadsAttestation(a) == a.form \in AttForms \ {"wrongalg"}

(* verify-signature and verify-full read attestation.json first; verify-signature
   ends like a verify-full whose proof replays. *)
VerifyAttestation(p, request) ==
    /\ proc[p] = Idle
    /\ LoadsAttestation(att)
    /\ proc' = [proc EXCEPT ![p] = [Idle EXCEPT !.pc = "pub", !.request = request, !.seen = att]]
    /\ UNCHANGED <<files, bound, lastKey, torn>>

(* _verify_signature of the CLI, for a loaded P-256 key. *)
SignatureValid(a, key) == a.form \notin {"none", "badhex", "payload"} /\ a.signer = key

(* compute-leaf, which refuses an amount beyond uint128, and the replay of
   verify-merkle under the hash the caller chose. *)
ProofReplays(request) == ~request.wide /\ request.tree = request.hash

BugProofIgnored(a, key, request) == IF IsKey(key) /\ SignatureValid(a, key) THEN 0 ELSE 1

(* cmd_verify_full: the signature first, the Merkle proof only after it. *)
ExitCode(a, key, request) ==
    IF IsKey(key) /\ SignatureValid(a, key) /\ ProofReplays(request) THEN 0 ELSE 1

(* _load_pubkey and the verdict. *)
Conclude(p) ==
    /\ proc[p].pc = "pub"
    /\ Ends(p)
    /\ UNCHANGED <<files, bound, lastKey, torn>>

(* NoethrionVerifier.__init__; a file that is not a key raises. *)
Construct ==
    /\ IsKey(pub)
    /\ bound' = pub
    /\ UNCHANGED <<files, lastKey, torn, proc>>

BugPayloadNotHashed(a) == IsKey(bound) /\ a.signer = bound /\ a.form # "badhex"

(* verify_signature of the library is ok; it does not look at the algorithm. *)
LibraryOk(a) == IsKey(bound) /\ a.form \in {"signed", "wrongalg"} /\ a.signer = bound

(* verify_merkle of the library: always keccak256, and any amount that fits the
   32 bytes of the encoding. *)
LibraryMerkle(request) == request.tree = "keccak256"

(* verify of the library. *)
LibraryVerify(a, request) == LibraryOk(a) /\ LibraryMerkle(request)

-----------------------------------------------------------------------------
ProvisionStep(p) ==
    \/ \E force \in BOOLEAN : GenerateKey(p, force)
    \/ OpenPrivate(p) \/ WritePrivate(p) \/ Chmod(p) \/ OpenPublic(p) \/ WritePublic(p)
    \/ \E goodId \in BOOLEAN : SignTest(p, goodId)
    \/ LoadPrivate(p) \/ Emit(p)

Next ==
    \/ \E p \in Procs : ProvisionStep(p) \/ Kill(p) \/ Conclude(p)
    \/ \E p \in Procs, request \in Requests : VerifyAttestation(p, request)
    \/ \E form \in Edits : EditAttestation(form)
    \/ Construct

Spec == Init /\ [][Next]_vars

-----------------------------------------------------------------------------
(* No generate-key is running, and none was killed or overlapped since the last
   one that ran alone to its end. *)
Quiet == Generating = {} /\ ~torn

(* Whatever was rotated, refused or killed before: the two key files of a quiet
   directory are halves of one pair and exports from either agree, so a clean --force
   run repairs what earlier ones left; and others can read the private key only while
   a generate-key is about to chmod it, or after one was killed or overlapped. *)
PairMatches ==
    /\ Quiet => pub = priv /\ ExportOnchain("pub") = ExportOnchain("priv")
    /\ IsKey(priv) /\ mode # "0600" => torn \/ \E p \in Procs : proc[p].pc = "chmod"

(* A check that ends while the directory is quiet says exactly whether the
   attestation it read is by the key in attester.key and unchanged, and whether the
   proof replays under the hash it was told to use, although it read attestation.json
   and attester.key.pub at different times and rotations may lie between. *)
QuietVerdictIsExact ==
    [][\A p \in Procs :
          proc[p].pc = "pub" /\ proc'[p] = Idle /\ Quiet =>
              (ExitCode(proc[p].seen, pub, proc[p].request) = 0 <=>
                  /\ proc[p].seen.form = "signed"
                  /\ proc[p].seen.signer = priv
                  /\ ~proc[p].request.wide
                  /\ proc[p].request.hash = proc[p].request.tree)]_vars

(* The key of a library instance is as old as the instance.  In a quiet directory an
   instance that holds the published key accepts what the device signed, whatever the
   algorithm label says, with a keccak256 proof; and where the CLI accepts as well the
   instance is not a stale one, and the claim is one the contract can be sent: a
   keccak256 proof of a uint128 amount, though either program alone takes others. *)
LibraryExactUntilRotation ==
    Quiet => \A request \in Requests :
        /\ bound = pub =>
              (LibraryVerify(att, request) <=>
                  /\ IsKey(priv) /\ att.signer = priv
                  /\ att.form \notin {"none", "payload", "badhex"}
                  /\ request.tree = "keccak256")
        /\ LibraryVerify(att, request) /\ ExitCode(att, pub, request) = 0 =>
              /\ bound = priv
              /\ request.hash = "keccak256" /\ request.tree = "keccak256" /\ ~request.wide
=============================================================================
