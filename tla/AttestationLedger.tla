-------------------------- MODULE AttestationLedger --------------------------
(***************************************************************************)
(* What the attester promises its users, without validators, votes, time,  *)
(* roles or proofs: an append-only register with at most one root per      *)
(* epoch, from which every committed leaf is redeemed at most once, each   *)
(* redemption issuing the leaf's amount in one token within its cap, and a *)
(* switch that freezes both.                                               *)
(***************************************************************************)
EXTENDS Integers

CONSTANTS
    Epochs, Roots, Tokens, MAX_SUPPLY,
    ThisDomain,     \* the domain a leaf must be built for
    OtherIssuers    \* TRUE when somebody besides the ledger may issue

VARIABLES
    register,       \* the committed root of every committed epoch
    redeemed,       \* the leaves already redeemed
    issued,         \* [Tokens -> amount]
    frozen

ledgerVars == <<register, redeemed, issued, frozen>>

LedgerInit ==
    /\ register = [e \in {} |-> {}]
    /\ redeemed = {}
    /\ issued = [t \in Tokens |-> 0]
    /\ frozen = FALSE

(* An epoch receives its root, for good. *)
Commit(e, root) ==
    /\ ~frozen
    /\ e \notin DOMAIN register
    /\ register' = [x \in DOMAIN register \cup {e} |->
                        IF x = e THEN root ELSE register[x]]
    /\ UNCHANGED <<redeemed, issued, frozen>>

(* A committed leaf is paid, once, in one token. *)
Redeem(leaf, t) ==
    /\ ~frozen
    /\ leaf.domain = ThisDomain
    /\ leaf.epoch \in DOMAIN register
    /\ leaf \in register[leaf.epoch]
    /\ leaf \notin redeemed
    /\ issued[t] + leaf.amount <= MAX_SUPPLY
    /\ redeemed' = redeemed \cup {leaf}
    /\ issued' = [issued EXCEPT ![t] = @ + leaf.amount]
    /\ UNCHANGED <<register, frozen>>

(* Issuance that has nothing to do with the ledger. *)
IssueElsewhere(t, amount) ==
    /\ OtherIssuers
    /\ issued[t] + amount <= MAX_SUPPLY
    /\ issued' = [issued EXCEPT ![t] = @ + amount]
    /\ UNCHANGED <<register, redeemed, frozen>>

SetFrozen(b) ==
    /\ frozen' = b
    /\ UNCHANGED <<register, redeemed, issued>>

LedgerNext ==
    \/ \E e \in Epochs, root \in Roots : Commit(e, root)
    \/ \E root \in Roots : \E leaf \in root, t \in Tokens : Redeem(leaf, t)
    \/ \E t \in Tokens : \E amount \in 1 .. MAX_SUPPLY : IssueElsewhere(t, amount)
    \/ \E b \in BOOLEAN : SetFrozen(b)

LedgerSpec == LedgerInit /\ [][LedgerNext]_ledgerVars
=============================================================================
