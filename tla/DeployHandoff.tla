---------------------------- MODULE DeployHandoff ----------------------------
(***************************************************************************)
(* contracts/script/DeployProduction.s.sol: the production deployment,     *)
(* which wires the attester and the token, hands their roles to the Safe   *)
(* and the TimelockController and strips the deployer of everything.       *)
(*                                                                         *)
(* forge first simulates run(), checks included, and only then broadcasts  *)
(* the transactions one by one.  The broadcast can stop anywhere and be    *)
(* resumed, nothing re-runs the checks on the chain, and whoever holds a   *)
(* role may use it in the meantime.  The token is NoethrionToken with its  *)
(* entry points; of the attester only the role table is kept.              *)
(***************************************************************************)
EXTENDS NoethrionToken, SequencesExt

CONSTANTS
    Plans,      \* environments run() is started with, see Preflight
    Contracts,  \* accounts with bytecode when run() is started
    AttesterAddress,
    MinDelay,   \* 24 hours
    UINT64_MAX, \* type(uint64).max
    MaxTime,    \* bound on the clock
    SafeOps     \* <<contract, role, account>> the Safe grants and revokes directly

VARIABLES
    attesterRoles,   \* the attester's role table
    plan,            \* the environment
    phase,           \* of the script: "start", "refused", "broadcast", "stopped",
                     \* "reverted", "complete"
    step,            \* the next transaction of the script
    now,             \* block time
    queue,           \* operations scheduled with the timelock: [act, minter, at]
    meddled          \* roles were changed by hand, past the script and the timelock

script == <<attesterRoles, plan, phase, step>>
vars == <<tokenVars, script, now, queue, meddled>>

VALIDATOR_ROLE == "VALIDATOR_ROLE"
PAUSER_ROLE    == "PAUSER_ROLE"
AttesterRole   == {DEFAULT_ADMIN_ROLE, ADMIN_ROLE, PAUSER_ROLE, VALIDATOR_ROLE}

(* What vm.env* parses to, one token, and contracts that send no transaction of
   their own accord: what the Safe and the timelock do is SafeChanges, Schedule
   and Execute. *)
ASSUME HandoffAssumption ==
    /\ \E t \in Tokens : Tokens = {t}
    /\ AttesterAddress \in Accounts \ {Admin}
    /\ Contracts \subseteq Accounts \ Callers
    /\ MinDelay \in Nat /\ UINT64_MAX \in Nat /\ MaxTime \in Nat
    /\ \A p \in Plans :
          /\ p.delay \in Nat /\ p.threshold \in Nat /\ p.window \in Nat
          /\ p.validators \in Seq(Accounts \cup {ZeroAddress})
    /\ SafeOps \subseteq ({"attester"} \X AttesterRole \X Accounts)
                         \cup ({"token"} \X TokenRole \X Accounts)

deployer == Admin
theToken == CHOOSE t \in Tokens : TRUE

(* The two role tables, as they are now and as the constructors leave them. *)
Roles    == [attester |-> attesterRoles, token |-> tokenRoles[theToken]]
Deployed ==
    [attester |-> [r \in AttesterRole |-> IF r = VALIDATOR_ROLE THEN {} ELSE {deployer}],
     token    |-> [r \in TokenRole |-> IF r = MINTER_ROLE THEN {} ELSE {deployer}]]

-----------------------------------------------------------------------------
Tx(on, op, role, who) == [on |-> on, op |-> op, role |-> role, who |-> who]

(* setTokenContract, authorizeMinter and the validators. *)
Wiring(p) ==
    <<Tx("attester", "setTokenContract", ADMIN_ROLE, deployer),
      Tx("token", "authorizeMinter", MINTER_ROLE, AttesterAddress)>>
    \o [i \in DOMAIN p.validators |-> Tx("attester", "grant", VALIDATOR_ROLE, p.validators[i])]

AttesterGrants(p) ==
    <<Tx("attester", "grant", DEFAULT_ADMIN_ROLE, p.safe),
      Tx("attester", "grant", PAUSER_ROLE, p.safe),
      Tx("attester", "grant", ADMIN_ROLE, p.timelock)>>

TokenGrants(p) ==
    <<Tx("token", "grant", DEFAULT_ADMIN_ROLE, p.safe),
      Tx("token", "grant", ADMIN_ROLE, p.timelock)>>

AttesterRenounces ==
    <<Tx("attester", "renounce", ADMIN_ROLE, deployer),
      Tx("attester", "renounce", PAUSER_ROLE, deployer),
      Tx("attester", "renounce", DEFAULT_ADMIN_ROLE, deployer)>>

TokenRenounces ==
    <<Tx("token", "renounce", ADMIN_ROLE, deployer),
      Tx("token", "renounce", DEFAULT_ADMIN_ROLE, deployer)>>

BugRenouncesFirst(p) ==
    Wiring(p) \o AttesterRenounces \o TokenRenounces \o AttesterGrants(p) \o TokenGrants(p)

BugContractByContract(p) ==
    Wiring(p) \o AttesterGrants(p) \o AttesterRenounces \o TokenGrants(p) \o TokenRenounces

(* deployAndHandoff, after the two constructors. *)
Script(p) ==
    Wiring(p) \o AttesterGrants(p) \o TokenGrants(p) \o AttesterRenounces \o TokenRenounces

(* The deployer sends tx: does it go through, and what does it leave. *)
Allowed(roles, tx) ==
    CASE tx.op = "grant"            -> MayAdminister(roles[tx.on], deployer)
      [] tx.op = "renounce"         -> TRUE
      [] tx.op = "authorizeMinter"  -> HasRole(roles.token, ADMIN_ROLE, deployer)
      [] tx.op = "setTokenContract" -> HasRole(roles.attester, ADMIN_ROLE, deployer)

Effect(roles, tx) ==
    CASE tx.op \in {"grant", "authorizeMinter"} ->
            [roles EXCEPT ![tx.on] = WithRole(roles[tx.on], tx.role, tx.who)]
      [] tx.op = "renounce" ->
            [roles EXCEPT ![tx.on] = WithoutRole(roles[tx.on], tx.role, tx.who)]
      [] tx.op = "setTokenContract" -> roles

-----------------------------------------------------------------------------
BugDuplicatesAllowed(p) ==
    /\ {p.safe, p.timelock} \subseteq Contracts
    /\ Cardinality({p.safe, p.timelock, deployer}) = 3
    /\ p.wired /\ p.delay >= MinDelay
    /\ p.threshold >= 3 /\ Len(p.validators) >= p.threshold
    /\ ZeroAddress \notin Range(p.validators)

BugDelayUnchecked(p) ==
    /\ {p.safe, p.timelock} \subseteq Contracts
    /\ Cardinality({p.safe, p.timelock, deployer}) = 3
    /\ p.wired
    /\ p.threshold >= 3 /\ Len(p.validators) >= p.threshold
    /\ ZeroAddress \notin Range(p.validators)
    /\ IsInjective(p.validators)

(* The requires of run().  An address without bytecode includes the zero one;
   wired: the Safe is proposer and executor of the timelock. *)
Preflight(p) ==
    /\ {p.safe, p.timelock} \subseteq Contracts
    /\ Cardinality({p.safe, p.timelock, deployer}) = 3
    /\ p.wired
    /\ p.delay >= MinDelay
    /\ p.threshold >= 3
    /\ Len(p.validators) >= p.threshold
    /\ ZeroAddress \notin Range(p.validators)
    /\ IsInjective(p.validators)

(* _verifyHandoff. *)
VerifyHandoff(roles, p) ==
    /\ HasRole(roles.attester, DEFAULT_ADMIN_ROLE, p.safe)
    /\ HasRole(roles.attester, PAUSER_ROLE, p.safe)
    /\ HasRole(roles.attester, ADMIN_ROLE, p.timelock)
    /\ HasRole(roles.token, DEFAULT_ADMIN_ROLE, p.safe)
    /\ HasRole(roles.token, ADMIN_ROLE, p.timelock)
    /\ \A r \in AttesterRole : ~HasRole(roles.attester, r, deployer)
    /\ \A r \in TokenRole : ~HasRole(roles.token, r, deployer)
    /\ ~HasRole(roles.token, ADMIN_ROLE, p.safe)
    /\ ~HasRole(roles.attester, ADMIN_ROLE, p.safe)
    /\ ~HasRole(roles.attester, DEFAULT_ADMIN_ROLE, p.timelock)
    /\ \A i \in DOMAIN p.validators : HasRole(roles.attester, VALIDATOR_ROLE, p.validators[i])

(* The attester's constructor does not revert; the token's never does, the
   deployer is not the zero address. *)
Constructs(p) == {p.threshold, p.window} \subseteq 1..UINT64_MAX

(* The simulation: every transaction goes through and the checks pass. *)
Simulates(p) ==
    LET run == FoldLeft(LAMBDA s, tx : [ok |-> s.ok /\ Allowed(s.roles, tx),
                                        roles |-> Effect(s.roles, tx)],
                        [ok |-> TRUE, roles |-> Deployed], Script(p))
    IN  Preflight(p) /\ Constructs(p) /\ run.ok /\ VerifyHandoff(run.roles, p)

Init ==
    /\ TokenInit
    /\ attesterRoles = Deployed.attester
    /\ plan \in Plans
    /\ phase = "start"
    /\ step = 1
    /\ now = 0
    /\ queue = {}
    /\ meddled = FALSE

(* A failed simulation broadcasts nothing. *)
Simulate ==
    /\ phase = "start"
    /\ phase' = IF Simulates(plan) THEN "broadcast" ELSE "refused"
    /\ UNCHANGED <<tokenVars, attesterRoles, plan, step, now, queue, meddled>>

(* The next transaction is mined; a reverted one ends the script for good. *)
Broadcast ==
    /\ phase = "broadcast"
    /\ LET tx    == Script(plan)[step]
           after == Effect(Roles, tx)
       IN  IF Allowed(Roles, tx)
           THEN /\ attesterRoles' = after.attester
                /\ tokenRoles' = [tokenRoles EXCEPT ![theToken] = after.token]
                /\ step' = step + 1
                /\ phase' = IF step = Len(Script(plan)) THEN "complete" ELSE "broadcast"
           ELSE phase' = "reverted" /\ UNCHANGED <<attesterRoles, tokenRoles, step>>
    /\ UNCHANGED <<balanceOf, totalSupply, plan, now, queue, meddled>>

(* The broadcast breaks off, and is taken up again with --resume. *)
StopOrResume ==
    /\ \/ phase = "broadcast" /\ phase' = "stopped"
       \/ phase = "stopped" /\ phase' = "broadcast"
    /\ UNCHANGED <<tokenVars, attesterRoles, plan, step, now, queue, meddled>>

-----------------------------------------------------------------------------
(* The Safe uses its DEFAULT_ADMIN_ROLE on one of the contracts. *)
SafeChanges(on, role, who) ==
    /\ MayAdminister(Roles[on], plan.safe)
    /\ \E changed \in {WithRole(Roles[on], role, who), WithoutRole(Roles[on], role, who)} :
          IF on = "attester"
          THEN attesterRoles' = changed /\ UNCHANGED tokenRoles
          ELSE tokenRoles' = [tokenRoles EXCEPT ![theToken] = changed] /\ UNCHANGED attesterRoles
    /\ meddled' = TRUE
    /\ UNCHANGED <<balanceOf, totalSupply, plan, phase, step, now, queue>>

(* The Safe schedules authorizeMinter or revokeMinter with the timelock; at most
   one operation is pending at a time, which bounds the queue. *)
Schedule(act, minter) ==
    /\ phase = "complete"
    /\ queue = {}
    /\ queue' = {[act |-> act, minter |-> minter, at |-> now]}
    /\ UNCHANGED <<tokenVars, script, now, meddled>>

(* The timelock makes the call once its delay is over.  Its delay is a constant:
   operations on the timelock itself (updateDelay, its own roles) are left out. *)
Execute(q) ==
    /\ now >= q.at + plan.delay
    /\ IF q.act = "authorizeMinter"
       THEN AuthorizeMinter(theToken, plan.timelock, q.minter)
       ELSE RevokeMinter(theToken, plan.timelock, q.minter)
    /\ queue' = queue \ {q}
    /\ UNCHANGED <<script, now, meddled>>

Tick ==
    /\ phase = "complete"
    /\ now < MaxTime
    /\ now' = now + 1
    /\ UNCHANGED <<tokenVars, script, queue, meddled>>

(* Anybody calls the token; while the script is not through, changing roles is
   using the deployer's key behind its back. *)
CallToken ==
    /\ phase \in {"stopped", "complete"}
    /\ TokenStep(theToken)
    /\ meddled' = (meddled \/ (phase = "stopped" /\ tokenRoles' # tokenRoles))
    /\ UNCHANGED <<script, now, queue>>

Next ==
    \/ Simulate \/ Broadcast \/ StopOrResume \/ Tick \/ CallToken
    \/ \E op \in SafeOps : SafeChanges(op[1], op[2], op[3])
    \/ \E act \in {"authorizeMinter", "revokeMinter"}, m \in Minters : Schedule(act, m)
    \/ \E q \in queue : Execute(q)

Spec == Init /\ [][Next]_vars

-----------------------------------------------------------------------------
(* A deployment that is in order is not refused: the script's own transactions
   go through in their order and satisfy _verifyHandoff.  What is left to refuse
   is a broken environment, settings the constructor refuses, or the deployer among
   the validators. *)
GoodPlansPass ==
    phase = "refused" =>
        ~Preflight(plan) \/ ~Constructs(plan) \/ deployer \in Range(plan.validators)

(* The end of run(): unless somebody changed roles by hand, a broadcast that got
   through, with whatever interruptions, has left both contracts with the Safe and
   the timelock, the deployer with nothing it could mint or govern with, and enough
   validators for the quorum the attester was deployed with. *)
CompleteMeansHandedOver ==
    phase = "complete" /\ ~meddled =>
        /\ \A r \in AttesterRole : deployer \notin attesterRoles[r]
        /\ \A r \in TokenRole : deployer \notin tokenRoles[theToken][r]
        /\ \A roles \in {attesterRoles, tokenRoles[theToken]} :
              roles[DEFAULT_ADMIN_ROLE] = {plan.safe} /\ roles[ADMIN_ROLE] = {plan.timelock}
        /\ Cardinality(attesterRoles[VALIDATOR_ROLE]) >= plan.threshold

(* "Renounces come strictly AFTER all grants": wherever the broadcast stops, the
   deployer lets go of neither contract before the Safe administers both. *)
NoSplitControl ==
    ~meddled =>
        \/ \A on \in {"attester", "token"} : MayAdminister(Roles[on], plan.safe)
        \/ \A on \in {"attester", "token"} : MayAdminister(Roles[on], deployer)

minters == tokenRoles[theToken][MINTER_ROLE]

(* The step executes an operation scheduled at least MinDelay ago. *)
Delayed == \E q \in queue : q \notin queue' /\ now >= q.at + MinDelay

(* Whoever administers the token besides the Safe and the timelock. *)
Outsiders ==
    (tokenRoles[theToken][DEFAULT_ADMIN_ROLE] \ {plan.safe})
    \cup (tokenRoles[theToken][ADMIN_ROLE] \ {plan.timelock})

(* The step is the Safe's own transaction, sent past the timelock. *)
SafeHand == \E op \in SafeOps : SafeChanges(op[1], op[2], op[3])

(* What the delay is worth after the hand-over.  As long as the Safe and the timelock
   are the token's only administrators, the set of minters changes MinDelay after it
   was announced, or because a minter renounces, or by the Safe's own transaction;
   and that they are no longer the only ones is the Safe's own doing as well.  Where
   the deployer's key appointed somebody else while the broadcast was stopped, no
   delay binds, and no step of the script notices. *)
OnlySafeSkipsDelay ==
    [][phase = "complete" /\ Outsiders = {} =>
          /\ minters' # minters =>
                \/ Delayed
                \/ \E a \in minters \cap Callers : minters' = minters \ {a}
                \/ SafeHand
          /\ Outsiders' # {} => SafeHand]_vars

(* The model of the script's header: minter rotation passes through the delay. *)
MinterRotationDelayed ==
    [][phase = "complete" /\ minters' # minters => Delayed]_vars
=============================================================================
