----------------------- MODULE KeyProvisioningProofs -----------------------
(***************************************************************************)
(* The key files for any number of concurrent invocations and of keys.     *)
(*                                                                         *)
(* PairMatches speaks of quiet directories only, so it is not inductive:   *)
(* PairInv adds what a generate-key that has run alone so far knows of the *)
(* files it has written, and that every generate-key under way is alone    *)
(* unless the directory is marked torn.                                    *)
(***************************************************************************)
EXTENDS KeyProvisioning, TLAPS

Contents == {Absent, Empty} \cup KeyIds
Forms    == {"none"} \cup AttForms
Pcs      == {"idle", "load", "emit", "pub"} \cup GenerateSteps

(* What attestation.json can hold: an empty or missing file, or a record that
   some key signed. *)
Attestations ==
    {a \in [signer : Contents, form : Forms] : a.form # "none" => a.signer \in KeyIds}

Invocations == [pc : Pcs, key : Contents, goodId : BOOLEAN, request : Requests,
                alone : BOOLEAN, seen : Attestations]

ProvTypeOK ==
    /\ priv \in Contents /\ pub \in Contents
    /\ att \in Attestations
    /\ bound \in {Absent} \cup KeyIds
    /\ lastKey \in 0..MaxKeys
    /\ torn \in BOOLEAN
    /\ proc \in [Procs -> Invocations]

(* What an invocation carries from one of its steps to the next. *)
LocalSound(p) ==
    /\ proc[p].pc = "idle" => proc[p] = Idle
    /\ proc[p].pc \in GenerateSteps \cup {"emit"} => proc[p].key \in KeyIds
    /\ proc[p].pc = "pub" => LoadsAttestation(proc[p].seen)

(* A generate-key that nobody overlapped is the only one, and finds the private
   key as it left it. *)
AloneSound(p) ==
    proc[p].alone =>
        /\ Generating = {p}
        /\ proc[p].pc \in {"chmod", "openPub", "writePub"} => priv = proc[p].key
        /\ proc[p].pc \in {"openPub", "writePub"} => mode = "0600"

(* The private key is unprotected for the time it takes to get to the chmod. *)
PrivateSound ==
    IsKey(priv) /\ mode # "0600" => torn \/ \E p \in Procs : proc[p].pc = "chmod"

PairInv ==
    /\ ProvTypeOK /\ PrivateSound
    /\ \A p \in Procs : LocalSound(p) /\ AloneSound(p)
    /\ ~torn => \A p \in Generating : proc[p].alone
    /\ Quiet => pub = priv

-----------------------------------------------------------------------------
(* The steps of one invocation, seen through the variable proc. *)

(* An invocation that has not started is one of the possible ones. *)
LEMMA IdleIsInvocation ==
    /\ Idle \in Invocations /\ Idle.pc = "idle" /\ ~Idle.alone
    /\ NoAttestation(Absent) \in Attestations /\ NoAttestation(Empty) \in Attestations
  <1>1. NoAttestation(Absent) \in Attestations /\ NoAttestation(Empty) \in Attestations
    BY DEF NoAttestation, Attestations, Contents, Forms
  <1>2. NoRequest \in Requests
    BY DEF NoRequest, Requests, Hashes
  <1> QED BY <1>1, <1>2 DEF Idle, Invocations, Pcs, Contents

(* A step of sign-test or of a verifier, which writes no key file: it begins and
   ends outside generate-key. *)
LEMMA ReaderStep ==
    ASSUME PairInv, NEW p \in Procs, NEW r \in Invocations,
           proc' = [proc EXCEPT ![p] = r],
           proc[p].pc \notin GenerateSteps, r.pc \notin GenerateSteps, ~r.alone,
           r.pc = "idle" => r = Idle,
           r.pc = "emit" => r.key \in KeyIds,
           r.pc = "pub" => LoadsAttestation(r.seen),
           UNCHANGED <<priv, mode, pub, bound, lastKey, torn>>,
           att' \in Attestations
    PROVE  PairInv'
  <1>1. proc \in [Procs -> Invocations]
    BY DEF PairInv, ProvTypeOK
  <1>2. /\ proc' \in [Procs -> Invocations]
        /\ proc'[p] = r /\ \A q \in Procs \ {p} : proc'[q] = proc[q]
    BY <1>1
  <1>3. Generating' = Generating
    BY <1>2 DEF Generating
  <1>4. ProvTypeOK'
    BY <1>2 DEF PairInv, ProvTypeOK
  <1>5. \A q \in Procs : LocalSound(q)'
    BY <1>2 DEF PairInv, LocalSound
  <1>6. \A q \in Procs : AloneSound(q)'
    BY <1>2, <1>3 DEF PairInv, AloneSound
  <1>7. (~torn => \A q \in Generating : proc[q].alone)'
    BY <1>2, <1>3 DEF PairInv, Generating
  <1>8. (Quiet => pub = priv)'
    BY <1>3 DEF PairInv, Quiet
  <1>9. PrivateSound'
    BY <1>2 DEF PairInv, PrivateSound, IsKey, GenerateSteps
  <1> QED BY <1>4, <1>5, <1>6, <1>7, <1>8, <1>9 DEF PairInv

(* A step within generate-key goes on to the next one and changes nothing else
   of the invocation. *)
LEMMA Advance ==
    ASSUME PairInv, NEW p \in Procs, NEW step \in GenerateSteps,
           proc[p].pc \in GenerateSteps, GoTo(p, step)
    PROVE  /\ proc' \in [Procs -> Invocations]
           /\ proc'[p].pc = step /\ proc'[p].key = proc[p].key
           /\ proc'[p].alone = proc[p].alone
           /\ \A q \in Procs \ {p} : proc'[q] = proc[q]
           /\ Generating' = Generating /\ p \in Generating
           /\ proc[p].key \in KeyIds
           /\ \A q \in Procs : LocalSound(q)'
  <1>1. proc \in [Procs -> Invocations] /\ proc[p] \in Invocations
    BY DEF PairInv, ProvTypeOK
  <1>2. /\ [proc[p] EXCEPT !.pc = step] \in Invocations
        /\ proc' = [proc EXCEPT ![p] = [proc[p] EXCEPT !.pc = step]]
    BY <1>1 DEF GoTo, Invocations, Pcs
  <1>3. /\ proc' \in [Procs -> Invocations]
        /\ proc'[p] = [proc[p] EXCEPT !.pc = step]
        /\ \A q \in Procs \ {p} : proc'[q] = proc[q]
    BY <1>1, <1>2
  <1>4. /\ proc'[p].pc = step /\ proc'[p].key = proc[p].key
        /\ proc'[p].alone = proc[p].alone
    BY <1>1, <1>3 DEF Invocations
  <1>5. Generating' = Generating /\ p \in Generating
    BY <1>3, <1>4 DEF Generating
  <1>6. proc[p].key \in KeyIds
    BY DEF PairInv, LocalSound
  <1>7. step # "idle" /\ step # "pub"
    BY DEF GenerateSteps
  <1>8. \A q \in Procs : LocalSound(q)'
    BY <1>3, <1>4, <1>6, <1>7 DEF PairInv, LocalSound
  <1> QED BY <1>3, <1>4, <1>5, <1>6, <1>8

(* An invocation that ends, or is killed, is out of the way. *)
LEMMA Ending ==
    ASSUME PairInv, NEW p \in Procs, Ends(p)
    PROVE  /\ proc' \in [Procs -> Invocations]
           /\ proc'[p] = Idle /\ \A q \in Procs \ {p} : proc'[q] = proc[q]
           /\ Generating' = Generating \ {p}
           /\ \A q \in Procs : LocalSound(q)'
  <1>1. proc \in [Procs -> Invocations]
    BY DEF PairInv, ProvTypeOK
  <1>2. /\ proc' \in [Procs -> Invocations]
        /\ proc'[p] = Idle /\ \A q \in Procs \ {p} : proc'[q] = proc[q]
    BY <1>1, IdleIsInvocation DEF Ends
  <1>3. Generating' = Generating \ {p}
    BY <1>2, IdleIsInvocation DEF Generating, GenerateSteps
  <1>4. \A q \in Procs : LocalSound(q)'
    BY <1>2, IdleIsInvocation DEF PairInv, LocalSound, GenerateSteps
  <1> QED BY <1>2, <1>3, <1>4

-----------------------------------------------------------------------------
(* generate-key, step by step. *)

(* A generate-key that starts beside another one marks the directory torn, and
   neither is alone any more. *)
LEMMA GenerateKeyStep ==
    ASSUME PairInv, NEW p \in Procs, NEW force \in BOOLEAN, GenerateKey(p, force)
    PROVE  PairInv'
  <1> DEFINE r == [Idle EXCEPT !.pc = "open", !.key = lastKey + 1,
                               !.alone = (Generating = {})]
  <1>1. /\ proc \in [Procs -> Invocations] /\ MaxKeys \in Nat /\ lastKey \in 0..MaxKeys
        /\ proc[p] = Idle
    BY ProvisioningAssumption DEF PairInv, ProvTypeOK, GenerateKey
  <1>2. lastKey + 1 \in KeyIds /\ lastKey' = lastKey + 1 /\ lastKey' \in 0..MaxKeys
    <2>1. lastKey < MaxKeys /\ lastKey' = lastKey + 1
      BY DEF GenerateKey
    <2> QED BY <1>1, <2>1 DEF KeyIds
  <1>3. r \in Invocations /\ r.pc = "open" /\ r.key \in KeyIds
        /\ (r.alone <=> Generating = {})
    BY <1>2, IdleIsInvocation DEF Invocations, Pcs, GenerateSteps, Contents, Idle
  <1>4. /\ proc' = [q \in Procs |-> IF q = p THEN r ELSE [proc[q] EXCEPT !.alone = FALSE]]
        /\ torn' = (torn \/ Generating # {})
        /\ UNCHANGED <<priv, mode, pub, att, bound>>
    BY DEF GenerateKey, files
  <1> HIDE DEF r
  <1>5. \A q \in Procs : /\ [proc[q] EXCEPT !.alone = FALSE] \in Invocations
                         /\ [proc[q] EXCEPT !.alone = FALSE].pc = proc[q].pc
                         /\ [proc[q] EXCEPT !.alone = FALSE].key = proc[q].key
                         /\ [proc[q] EXCEPT !.alone = FALSE].seen = proc[q].seen
                         /\ ~[proc[q] EXCEPT !.alone = FALSE].alone
    BY <1>1 DEF Invocations
  <1>6. /\ proc' \in [Procs -> Invocations] /\ proc'[p] = r
        /\ \A q \in Procs \ {p} : /\ proc'[q].pc = proc[q].pc /\ proc'[q].key = proc[q].key
                                  /\ proc'[q].seen = proc[q].seen /\ ~proc'[q].alone
    BY <1>3, <1>4, <1>5
  <1>7. Generating' = Generating \cup {p}
    BY <1>3, <1>6 DEF Generating, GenerateSteps
  <1>8. ProvTypeOK'
    BY <1>2, <1>4, <1>6 DEF PairInv, ProvTypeOK
  <1>9. \A q \in Procs : LocalSound(q)'
    <2>1. LocalSound(p)'
      BY <1>3, <1>6 DEF LocalSound
    <2>2. \A q \in Procs \ {p} : proc[q].pc = "idle" => [proc[q] EXCEPT !.alone = FALSE] = Idle
      <3>1. [Idle EXCEPT !.alone = FALSE] = Idle
        BY IdleIsInvocation DEF Invocations
      <3>2. \A q \in Procs : proc[q].pc = "idle" => proc[q] = Idle
        BY DEF PairInv, LocalSound
      <3> QED BY <3>1, <3>2
    <2>3. \A q \in Procs \ {p} : proc'[q].pc = "idle" => proc'[q] = Idle
      BY <1>4, <1>6, <2>2
    <2> QED BY <1>6, <2>1, <2>3 DEF PairInv, LocalSound
  <1>10. \A q \in Procs : AloneSound(q)'
    BY <1>3, <1>6, <1>7 DEF AloneSound
  <1>11. (~torn => \A q \in Generating : proc[q].alone)'
    BY <1>3, <1>4, <1>6, <1>7
  <1>12. ~Quiet'
    BY <1>7 DEF Quiet
  <1>13. PrivateSound'
    <2>1. proc[p].pc # "chmod"
      BY <1>1, IdleIsInvocation
    <2> QED BY <1>4, <1>6, <2>1 DEF PairInv, PrivateSound, IsKey
  <1> QED BY <1>8, <1>9, <1>10, <1>11, <1>12, <1>13 DEF PairInv

(* write_bytes on the private key. *)
LEMMA PrivateStep ==
    ASSUME PairInv, NEW p \in Procs, OpenPrivate(p) \/ WritePrivate(p) \/ Chmod(p)
    PROVE  PairInv'
  <1>1. PICK step \in GenerateSteps : /\ proc[p].pc \in GenerateSteps /\ GoTo(p, step)
                                      /\ step = "write" \/ step = "chmod" \/ step = "openPub"
                                      /\ step = "write" => OpenPrivate(p)
                                      /\ step = "chmod" => WritePrivate(p)
                                      /\ step = "openPub" => Chmod(p)
    BY DEF OpenPrivate, WritePrivate, Chmod, GenerateSteps
  <1>2. /\ proc' \in [Procs -> Invocations]
        /\ proc'[p].pc = step /\ proc'[p].key = proc[p].key
        /\ proc'[p].alone = proc[p].alone
        /\ \A q \in Procs \ {p} : proc'[q] = proc[q]
        /\ Generating' = Generating /\ p \in Generating
        /\ proc[p].key \in KeyIds
        /\ \A q \in Procs : LocalSound(q)'
    BY <1>1, Advance, Zenon
  <1>3. ProvTypeOK'
    BY <1>1, <1>2 DEF OpenPrivate, WritePrivate, Chmod, PairInv, ProvTypeOK, Contents
  <1>4. \A q \in Procs : AloneSound(q)'
    <2>1. \A q \in Procs \ {p} : ~proc[q].alone
      BY <1>2 DEF PairInv, AloneSound
    <2>2. AloneSound(p)'
      BY <1>1, <1>2 DEF OpenPrivate, WritePrivate, Chmod, PairInv, AloneSound
    <2> QED BY <1>2, <2>1, <2>2 DEF AloneSound
  <1>5. (~torn => \A q \in Generating : proc[q].alone)'
    BY <1>2 DEF OpenPrivate, WritePrivate, Chmod, PairInv, Generating
  <1>6. ~Quiet'
    BY <1>2 DEF Quiet
  <1>7. PrivateSound'
    <2>1. CASE OpenPrivate(p)
      BY <2>1 DEF OpenPrivate, PrivateSound, IsKey, KeyIds, Empty
    <2>2. CASE WritePrivate(p)
      <3>1. proc'[p].pc = "chmod"
        BY <1>1, <1>2, <2>2 DEF WritePrivate, GoTo, PairInv, ProvTypeOK, Invocations
      <3> QED BY <3>1 DEF PrivateSound
    <2>3. CASE Chmod(p)
      BY <2>3 DEF Chmod, PrivateSound
    <2> QED BY <2>1, <2>2, <2>3
  <1> QED BY <1>2, <1>3, <1>4, <1>5, <1>6, <1>7 DEF PairInv

(* _write_public_key opens its file. *)
LEMMA OpenPublicStep ==
    ASSUME PairInv, NEW p \in Procs, OpenPublic(p)
    PROVE  PairInv'
  <1>1. proc[p].pc = "openPub" /\ proc[p].pc \in GenerateSteps /\ GoTo(p, "writePub")
        /\ "writePub" \in GenerateSteps
    BY DEF OpenPublic, GenerateSteps
  <1>2. /\ proc' \in [Procs -> Invocations]
        /\ proc'[p].pc = "writePub" /\ proc'[p].key = proc[p].key
        /\ proc'[p].alone = proc[p].alone
        /\ \A q \in Procs \ {p} : proc'[q] = proc[q]
        /\ Generating' = Generating /\ p \in Generating
        /\ proc[p].key \in KeyIds
        /\ \A q \in Procs : LocalSound(q)'
    BY <1>1, Advance, Zenon
  <1>3. ProvTypeOK'
    BY <1>2 DEF OpenPublic, PairInv, ProvTypeOK, Contents
  <1>4. \A q \in Procs : AloneSound(q)'
    BY <1>1, <1>2 DEF OpenPublic, PairInv, AloneSound
  <1>5. (~torn => \A q \in Generating : proc[q].alone)'
    BY <1>2 DEF OpenPublic, PairInv, Generating
  <1>6. ~Quiet'
    BY <1>2 DEF Quiet
  <1>7. PrivateSound'
    BY <1>1, <1>2 DEF OpenPublic, PairInv, PrivateSound, IsKey
  <1> QED BY <1>2, <1>3, <1>4, <1>5, <1>6, <1>7 DEF PairInv

(* The last write: a generate-key that was alone leaves two halves of one pair,
   and clears the mark of earlier accidents. *)
LEMMA WritePublicStep ==
    ASSUME PairInv, NEW p \in Procs, WritePublic(p)
    PROVE  PairInv'
  <1>1. /\ proc[p].pc = "writePub" /\ p \in Generating /\ proc[p].key \in KeyIds
        /\ proc \in [Procs -> Invocations] /\ proc[p].alone \in BOOLEAN
    BY DEF WritePublic, GenerateSteps, Generating, PairInv, LocalSound, ProvTypeOK, Invocations
  <1>2. /\ proc' \in [Procs -> Invocations]
        /\ proc'[p] = Idle /\ \A q \in Procs \ {p} : proc'[q] = proc[q]
        /\ Generating' = Generating \ {p}
        /\ \A q \in Procs : LocalSound(q)'
    BY Ending DEF WritePublic
  <1>3. /\ pub' = proc[p].key /\ torn' = (torn /\ ~proc[p].alone)
        /\ UNCHANGED <<priv, mode, att, bound, lastKey>>
    BY DEF WritePublic
  <1>4. ProvTypeOK'
    BY <1>1, <1>2, <1>3 DEF PairInv, ProvTypeOK, Contents
  <1>5. \A q \in Procs : ~proc'[q].alone
    BY <1>1, <1>2, IdleIsInvocation DEF PairInv, AloneSound
  <1>6. \A q \in Procs : AloneSound(q)'
    BY <1>5 DEF AloneSound
  <1>7. ~torn' => proc[p].alone
    BY <1>1, <1>3 DEF PairInv
  <1>8. proc[p].alone => Generating' = {} /\ priv = proc[p].key /\ mode = "0600"
    BY <1>1, <1>2 DEF PairInv, AloneSound
  <1>9. (~torn => \A q \in Generating : proc[q].alone)'
    BY <1>7, <1>8
  <1>10. (Quiet => pub = priv)'
    BY <1>3, <1>7, <1>8 DEF Quiet
  <1>11. PrivateSound'
    BY <1>1, <1>2, <1>3, <1>8 DEF PairInv, PrivateSound, IsKey
  <1> QED BY <1>2, <1>4, <1>6, <1>9, <1>10, <1>11 DEF PairInv

(* A killed generate-key leaves the directory torn; another killed invocation
   leaves the key files alone. *)
LEMMA KillStep ==
    ASSUME PairInv, NEW p \in Procs, Kill(p)
    PROVE  PairInv'
  <1>1. /\ proc' \in [Procs -> Invocations]
        /\ proc'[p] = Idle /\ \A q \in Procs \ {p} : proc'[q] = proc[q]
        /\ Generating' = Generating \ {p}
        /\ \A q \in Procs : LocalSound(q)'
    BY Ending DEF Kill
  <1>2. torn' = (torn \/ p \in Generating) /\ UNCHANGED <<priv, mode, pub, att, bound, lastKey>>
    BY DEF Kill, files
  <1>3. ProvTypeOK'
    BY <1>1, <1>2 DEF PairInv, ProvTypeOK
  <1>4. \A q \in Procs : AloneSound(q)'
    <2>1. \A q \in Procs \ {p} : proc[q].alone => p \notin Generating
      BY DEF PairInv, AloneSound
    <2> QED BY <1>1, <1>2, <2>1, IdleIsInvocation DEF PairInv, AloneSound
  <1>5. (~torn => \A q \in Generating : proc[q].alone)'
    BY <1>1, <1>2 DEF PairInv, Generating
  <1>6. (Quiet => pub = priv)'
    <2>1. Quiet' => Quiet
      BY <1>1, <1>2 DEF Quiet
    <2> QED BY <1>2, <2>1 DEF PairInv
  <1>7. PrivateSound'
    BY <1>1, <1>2 DEF PairInv, PrivateSound, IsKey, Generating, GenerateSteps
  <1> QED BY <1>1, <1>3, <1>4, <1>5, <1>6, <1>7 DEF PairInv

-----------------------------------------------------------------------------
(* sign-test, the verifiers and the rest of the world. *)

(* The steps of sign-test and of the verifiers. *)
LEMMA SignOrVerifyStep ==
    ASSUME PairInv, NEW p \in Procs,
           \/ \E goodId \in BOOLEAN : SignTest(p, goodId)
           \/ LoadPrivate(p) \/ Emit(p) \/ Conclude(p)
           \/ \E request \in Requests : VerifyAttestation(p, request)
    PROVE  PairInv'
  <1>1. /\ proc \in [Procs -> Invocations] /\ proc[p] \in Invocations
        /\ att \in Attestations /\ priv \in Contents
    BY DEF PairInv, ProvTypeOK
  <1>2. /\ Idle.pc \notin GenerateSteps /\ Idle.pc = "idle"
        /\ Idle \in Invocations /\ ~Idle.alone
    BY IdleIsInvocation DEF GenerateSteps
  <1>3. CASE \E goodId \in BOOLEAN : SignTest(p, goodId)
    <2>1. PICK goodId \in BOOLEAN : SignTest(p, goodId)
      BY <1>3
    <2>2. PICK r : r = [Idle EXCEPT !.pc = "load", !.goodId = goodId]
      OBVIOUS
    <2>3. r \in Invocations /\ r.pc = "load" /\ ~r.alone
      BY <2>2, IdleIsInvocation DEF Invocations, Idle, Pcs
    <2>4. /\ proc[p] = Idle /\ proc' = [proc EXCEPT ![p] = r]
          /\ UNCHANGED <<priv, mode, pub, bound, lastKey, torn>>
          /\ att' \in Attestations
      BY <2>1, <2>2, IdleIsInvocation DEF SignTest
    <2>5. r.pc \notin GenerateSteps /\ r.pc \notin {"idle", "emit", "pub"}
      BY <2>3 DEF GenerateSteps
    <2> QED BY <1>2, <2>3, <2>4, <2>5, ReaderStep
  <1>4. CASE \E request \in Requests : VerifyAttestation(p, request)
    <2>1. PICK request \in Requests : VerifyAttestation(p, request)
      BY <1>4
    <2>2. PICK r : r = [Idle EXCEPT !.pc = "pub", !.request = request, !.seen = att]
      OBVIOUS
    <2>3. r \in Invocations /\ r.pc = "pub" /\ ~r.alone /\ r.seen = att
      BY <1>1, <2>2, IdleIsInvocation DEF Invocations, Idle, Pcs
    <2>4. /\ proc[p] = Idle /\ proc' = [proc EXCEPT ![p] = r]
          /\ UNCHANGED <<priv, mode, pub, bound, lastKey, torn>>
          /\ att' \in Attestations /\ LoadsAttestation(r.seen)
      BY <1>1, <2>1, <2>2, <2>3 DEF VerifyAttestation, files
    <2>5. r.pc \notin GenerateSteps /\ r.pc \notin {"idle", "emit"}
      BY <2>3 DEF GenerateSteps
    <2> QED BY <1>2, <2>3, <2>4, <2>5, ReaderStep
  <1>5. CASE Emit(p) \/ Conclude(p) \/ (LoadPrivate(p) /\ Ends(p))
    <2>1. /\ proc[p].pc \notin GenerateSteps
          /\ proc' = [proc EXCEPT ![p] = Idle]
          /\ UNCHANGED <<priv, mode, pub, bound, lastKey, torn>>
      BY <1>5 DEF Emit, Conclude, LoadPrivate, Ends, GenerateSteps, files
    <2>2. att' \in Attestations
      <3>1. CASE Emit(p)
        <4>1. proc[p].key \in KeyIds
          BY <3>1 DEF Emit, PairInv, LocalSound
        <4> QED BY <3>1, <4>1 DEF Emit, Attestations, Contents, Forms, AttForms
      <3>2. CASE Conclude(p) \/ LoadPrivate(p)
        BY <1>1, <3>2 DEF Conclude, LoadPrivate, files
      <3> QED BY <1>5, <3>1, <3>2
    <2> QED BY <1>2, <2>1, <2>2, ReaderStep
  <1>6. CASE LoadPrivate(p) /\ ~Ends(p)
    <2>1. PICK r : r = [proc[p] EXCEPT !.pc = "emit", !.key = priv]
      OBVIOUS
    <2>2. /\ proc[p].pc = "load" /\ IsKey(priv)
          /\ proc' = [proc EXCEPT ![p].pc = "emit", ![p].key = priv]
          /\ UNCHANGED <<priv, mode, pub, att, bound, lastKey, torn>>
      BY <1>6 DEF LoadPrivate, files
    <2>3. proc' = [proc EXCEPT ![p] = r]
      BY <1>1, <2>1, <2>2
    <2>4. /\ r \in Invocations /\ r.pc = "emit" /\ r.key = priv
          /\ r.alone = proc[p].alone
      BY <1>1, <2>1 DEF Invocations, Pcs
    <2>5. ~proc[p].alone
      BY <2>2 DEF PairInv, AloneSound, Generating, GenerateSteps
    <2>6. r.pc \notin GenerateSteps /\ r.pc \notin {"idle", "pub"} /\ r.key \in KeyIds
          /\ proc[p].pc \notin GenerateSteps
      BY <2>2, <2>4 DEF GenerateSteps, IsKey
    <2> QED BY <1>1, <2>2, <2>3, <2>4, <2>5, <2>6, ReaderStep
  <1> QED BY <1>3, <1>4, <1>5, <1>6

(* Editing the attestation and constructing a verifier leave the key files and
   the invocations alone. *)
LEMMA OutsideStep ==
    ASSUME PairInv,
           \/ \E form \in Edits : EditAttestation(form)
           \/ Construct
           \/ UNCHANGED vars
    PROVE  PairInv'
  <1>1. UNCHANGED <<priv, mode, pub, lastKey, torn, proc>>
    BY DEF EditAttestation, Construct, vars, files
  <1>2. att' \in Attestations
    <2>1. CASE \E form \in Edits : EditAttestation(form)
      <3>1. PICK form \in Edits : EditAttestation(form)
        BY <2>1
      <3> QED BY <3>1 DEF EditAttestation, PairInv, ProvTypeOK, Attestations, Edits, AttForms, Forms
    <2>2. CASE Construct \/ UNCHANGED vars
      BY <2>2 DEF Construct, vars, files, PairInv, ProvTypeOK
    <2> QED BY <2>1, <2>2
  <1>3. bound' \in {Absent} \cup KeyIds
    BY DEF EditAttestation, Construct, vars, PairInv, ProvTypeOK, IsKey
  <1>4. Generating' = Generating
    BY <1>1 DEF Generating
  <1>5. ProvTypeOK'
    BY <1>1, <1>2, <1>3 DEF PairInv, ProvTypeOK
  <1>6. \A q \in Procs : LocalSound(q)' /\ AloneSound(q)'
    BY <1>1, <1>4 DEF PairInv, LocalSound, AloneSound
  <1> QED BY <1>1, <1>4, <1>5, <1>6 DEF PairInv, PrivateSound, Quiet, IsKey

-----------------------------------------------------------------------------
(* Whatever is started, overlaps or is killed, the invariant holds. *)
THEOREM PairInvariant == Spec => []PairInv
  <1>1. Init => PairInv
    <2> SUFFICES ASSUME Init PROVE PairInv
      OBVIOUS
    <2>1. ProvTypeOK
      <3>1. proc \in [Procs -> Invocations] /\ att \in Attestations
        BY IdleIsInvocation DEF Init
      <3>2. lastKey \in 0..MaxKeys
        BY ProvisioningAssumption DEF Init
      <3> QED BY <3>1, <3>2 DEF Init, ProvTypeOK, Contents
    <2>2. Generating = {} /\ \A p \in Procs : LocalSound(p) /\ AloneSound(p)
      BY IdleIsInvocation DEF Init, Generating, GenerateSteps, LocalSound, AloneSound
    <2> QED BY <2>1, <2>2 DEF Init, PairInv, PrivateSound, IsKey, KeyIds, Absent
  <1>2. PairInv /\ [Next]_vars => PairInv'
    <2> SUFFICES ASSUME PairInv, [Next]_vars PROVE PairInv'
      OBVIOUS
    <2>1. CASE \E p \in Procs : ProvisionStep(p) \/ Kill(p) \/ Conclude(p)
      <3>1. PICK p \in Procs : ProvisionStep(p) \/ Kill(p) \/ Conclude(p)
        BY <2>1
      <3> QED BY <3>1, GenerateKeyStep, PrivateStep, OpenPublicStep, WritePublicStep,
                 KillStep, SignOrVerifyStep DEF ProvisionStep
    <2>2. CASE \E p \in Procs, request \in Requests : VerifyAttestation(p, request)
      BY <2>2, SignOrVerifyStep
    <2>3. CASE \/ \E form \in Edits : EditAttestation(form)
               \/ Construct
               \/ UNCHANGED vars
      BY <2>3, OutsideStep
    <2> QED BY <2>1, <2>2, <2>3 DEF Next
  <1> QED BY <1>1, <1>2, PTL DEF Spec

(* In a quiet directory attester.key and attester.key.pub are one pair, and others can
   read the private key only until the chmod of a generate-key under way or after an
   accident, for any number of invocations, keys, overlaps and kills. *)
THEOREM PairSafety == Spec => []PairMatches
  <1>1. PairInv => PairMatches
    BY DEF PairInv, PrivateSound, PairMatches, ExportOnchain
  <1> QED BY <1>1, PairInvariant, PTL

(* Until the next rotation a library instance accepts what the device signed, and what
   both it and the CLI accept is by the current key and can be claimed on the chain. *)
THEOREM LibrarySafety == Spec => []LibraryExactUntilRotation
  <1>1. PairInv => LibraryExactUntilRotation
    <2> SUFFICES ASSUME PairInv, Quiet, NEW request \in Requests
                 PROVE  /\ bound = pub =>
                             (LibraryVerify(att, request) <=>
                                 /\ IsKey(priv) /\ att.signer = priv
                                 /\ att.form \notin {"none", "payload", "badhex"}
                                 /\ request.tree = "keccak256")
                        /\ LibraryVerify(att, request) /\ ExitCode(att, pub, request) = 0 =>
                             /\ bound = priv
                             /\ request.hash = "keccak256" /\ request.tree = "keccak256"
                             /\ ~request.wide
      BY DEF LibraryExactUntilRotation
    <2>1. pub = priv
      BY DEF PairInv
    <2>2. att.form \in {"signed", "wrongalg"} <=> att.form \notin {"none", "payload", "badhex"}
      BY DEF PairInv, ProvTypeOK, Attestations, Forms, AttForms, Edits
    <2>3. LibraryVerify(att, request) <=>
            /\ IsKey(bound) /\ att.form \in {"signed", "wrongalg"} /\ att.signer = bound
            /\ request.tree = "keccak256"
      BY DEF LibraryVerify, LibraryOk, LibraryMerkle
    <2>4. ExitCode(att, pub, request) = 0 =>
            att.signer = pub /\ ~request.wide /\ request.tree = request.hash
      BY DEF ExitCode, SignatureValid, ProofReplays
    <2> QED BY <2>1, <2>2, <2>3, <2>4
  <1> QED BY <1>1, PairInvariant, PTL

(* A verdict given in a quiet directory is exact, however many rotations lie
   between the reads of the two files. *)
THEOREM VerdictSafety == Spec => QuietVerdictIsExact
  <1> DEFINE Exact ==
        \A p \in Procs :
          proc[p].pc = "pub" /\ proc'[p] = Idle /\ Quiet =>
              (ExitCode(proc[p].seen, pub, proc[p].request) = 0 <=>
                  /\ proc[p].seen.form = "signed"
                  /\ proc[p].seen.signer = priv
                  /\ ~proc[p].request.wide
                  /\ proc[p].request.hash = proc[p].request.tree)
  <1>1. PairInv => Exact
    <2> SUFFICES ASSUME PairInv, NEW p \in Procs, proc[p].pc = "pub", Quiet
                 PROVE  ExitCode(proc[p].seen, pub, proc[p].request) = 0 <=>
                          /\ proc[p].seen.form = "signed"
                          /\ proc[p].seen.signer = priv
                          /\ ~proc[p].request.wide
                          /\ proc[p].request.hash = proc[p].request.tree
      OBVIOUS
    <2>1. pub = priv /\ LoadsAttestation(proc[p].seen) /\ proc[p].seen \in Attestations
      BY DEF PairInv, LocalSound, ProvTypeOK, Invocations
    <2>2. proc[p].seen.form \in {"signed", "payload", "badhex"}
      BY <2>1 DEF LoadsAttestation, AttForms, Edits
    <2>3. IsKey(proc[p].seen.signer)
      BY <2>1, <2>2 DEF Attestations, IsKey
    <2> QED BY <2>1, <2>2, <2>3 DEF ExitCode, SignatureValid, ProofReplays
  <1>2. PairInv /\ [Next]_vars => [Exact]_vars
    BY <1>1
  <1> QED BY <1>2, PairInvariant, PTL DEF Spec, QuietVerdictIsExact
=============================================================================
