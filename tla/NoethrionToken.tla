--------------------------- MODULE NoethrionToken ---------------------------
(***************************************************************************)
(* contracts/src/NoethrionToken.sol: the NOET ERC-20 with a hard supply    *)
(* cap, minted by the accounts that hold MINTER_ROLE.                      *)
(*                                                                         *)
(* The state is indexed by the deployed token instance, because the        *)
(* attester can be pointed at a second instance (setTokenContract).        *)
(* A transaction that reverts changes nothing, so every action below is    *)
(* the transaction that succeeds and its guard is the negation of every    *)
(* revert condition.                                                       *)
(***************************************************************************)
EXTENDS Integers, FiniteSets, Functions, AccessControl

CONSTANTS
    Accounts,      \* addresses, other than the zero address
    ZeroAddress,   \* address(0)
    Callers,       \* the accounts that originate transactions
    Tokens,        \* deployed instances of the token
    Admin,         \* the constructor's admin argument
    MAX_SUPPLY,    \* the supply cap
    Amounts,       \* the amounts callers pass
    TransferAmounts, \* the amounts holders transfer
    Minters,       \* the accounts a token admin ever authorizes as minter
    TokenRoleOps   \* <<role, account>> pairs that are granted, revoked, renounced

VARIABLES
    tokenRoles,    \* [Tokens -> [role -> set of members]]
    balanceOf,     \* [Tokens -> [Accounts -> amount]]
    totalSupply    \* [Tokens -> amount]

tokenVars == <<tokenRoles, balanceOf, totalSupply>>

MINTER_ROLE == "MINTER_ROLE"
TokenRole   == {DEFAULT_ADMIN_ROLE, ADMIN_ROLE, MINTER_ROLE}

ASSUME AccountsAssumption ==
    /\ IsFiniteSet(Accounts)
    /\ ZeroAddress \notin Accounts
    /\ Admin \in Accounts
    /\ Callers \subseteq Accounts
    /\ Minters \subseteq Accounts \cup {ZeroAddress}

ASSUME TokenAssumption ==
    /\ IsFiniteSet(Tokens)
    /\ ZeroAddress \notin Tokens
    /\ MAX_SUPPLY \in Nat
    /\ Amounts \subseteq Nat
    /\ TransferAmounts \subseteq Nat
    /\ TokenRoleOps \subseteq TokenRole \X Accounts

TokenTypeOK ==
    /\ tokenRoles \in [Tokens -> [TokenRole -> SUBSET Accounts]]
    /\ balanceOf \in [Tokens -> [Accounts -> Nat]]
    /\ totalSupply \in [Tokens -> Nat]

-----------------------------------------------------------------------------
(* The constructor: the admin receives DEFAULT_ADMIN_ROLE and ADMIN_ROLE. *)
TokenInit ==
    /\ tokenRoles = [t \in Tokens |-> [r \in TokenRole |->
                        IF r = MINTER_ROLE THEN {} ELSE {Admin}]]
    /\ balanceOf = [t \in Tokens |-> [a \in Accounts |-> 0]]
    /\ totalSupply = [t \in Tokens |-> 0]

BugCapIgnoresAmount(t, amount) == totalSupply[t] <= MAX_SUPPLY

(* The cap is checked against the supply after the mint. *)
WithinCap(t, amount) == totalSupply[t] + amount <= MAX_SUPPLY

(* A holder's balance, in the ledger of one instance, changed by delta. *)
Moved(ledger, holder, delta) == [ledger EXCEPT ![holder] = @ + delta]

BugMayMintAnyAdmin(t, caller) ==
    \E r \in TokenRole : HasRole(tokenRoles[t], r, caller)

(* onlyRole(MINTER_ROLE). *)
MayMint(t, caller) == HasRole(tokenRoles[t], MINTER_ROLE, caller)

BugCreditCaller(t, caller, to, amount) ==
    balanceOf' = [balanceOf EXCEPT ![t] = Moved(balanceOf[t], caller, amount)]

BugCreditNobody(t, caller, to, amount) == UNCHANGED balanceOf

(* The credit side of _mint. *)
Credit(t, caller, to, amount) ==
    balanceOf' = [balanceOf EXCEPT ![t] = Moved(balanceOf[t], to, amount)]

(* mint(to, amount) called by a minter. *)
Mint(t, caller, to, amount) ==
    /\ MayMint(t, caller)
    /\ to # ZeroAddress
    /\ amount # 0
    /\ WithinCap(t, amount)
    /\ totalSupply' = [totalSupply EXCEPT ![t] = @ + amount]
    /\ Credit(t, caller, to, amount)
    /\ UNCHANGED tokenRoles

(* authorizeMinter(minter). *)
AuthorizeMinter(t, caller, minter) ==
    /\ HasRole(tokenRoles[t], ADMIN_ROLE, caller)
    /\ minter # ZeroAddress
    /\ tokenRoles' = [tokenRoles EXCEPT ![t] = WithRole(@, MINTER_ROLE, minter)]
    /\ UNCHANGED <<balanceOf, totalSupply>>

(* revokeMinter(minter): no zero-address check here. *)
RevokeMinter(t, caller, minter) ==
    /\ HasRole(tokenRoles[t], ADMIN_ROLE, caller)
    /\ tokenRoles' = [tokenRoles EXCEPT ![t] = WithoutRole(@, MINTER_ROLE, minter)]
    /\ UNCHANGED <<balanceOf, totalSupply>>

(* The inherited public entry points of AccessControl. *)
TokenGrantRole(t, caller, role, account) ==
    /\ MayAdminister(tokenRoles[t], caller)
    /\ tokenRoles' = [tokenRoles EXCEPT ![t] = WithRole(@, role, account)]
    /\ UNCHANGED <<balanceOf, totalSupply>>

TokenRevokeRole(t, caller, role, account) ==
    /\ MayAdminister(tokenRoles[t], caller)
    /\ tokenRoles' = [tokenRoles EXCEPT ![t] = WithoutRole(@, role, account)]
    /\ UNCHANGED <<balanceOf, totalSupply>>

(* renounceRole: the caller can only name itself. *)
TokenRenounceRole(t, role, account) ==
    /\ account \in Callers
    /\ tokenRoles' = [tokenRoles EXCEPT ![t] = WithoutRole(@, role, account)]
    /\ UNCHANGED <<balanceOf, totalSupply>>

HasFunds(t, from, amount) == amount <= balanceOf[t][from]

(* The inherited ERC-20 transfer; transferFrom and permit differ from it only
   in who may move the holder's balance. *)
Transfer(t, from, to, amount) ==
    /\ HasFunds(t, from, amount)
    /\ balanceOf' = [balanceOf EXCEPT
            ![t] = Moved(Moved(balanceOf[t], from, -amount), to, amount)]
    /\ UNCHANGED <<tokenRoles, totalSupply>>

TokenStep(t) ==
    \/ \E c \in Callers, m \in Minters :
          AuthorizeMinter(t, c, m) \/ RevokeMinter(t, c, m)
    \/ \E c \in Callers, to \in Accounts \cup {ZeroAddress}, amt \in Amounts :
          Mint(t, c, to, amt)
    \/ \E op \in TokenRoleOps :
          \/ \E c \in Callers : TokenGrantRole(t, c, op[1], op[2])
          \/ \E c \in Callers : TokenRevokeRole(t, c, op[1], op[2])
          \/ TokenRenounceRole(t, op[1], op[2])
    \/ \E from, to \in Accounts, amt \in TransferAmounts : Transfer(t, from, to, amt)

TokenNext == \E t \in Tokens : TokenStep(t)

TokenSpec == TokenInit /\ [][TokenNext]_tokenVars

-----------------------------------------------------------------------------
(* The cap of mint() holds however mints of several minters, revocations and
   re-authorizations interleave, for every deployed instance. *)
SupplyCapped == \A t \in Tokens : totalSupply[t] <= MAX_SUPPLY

(* The supply of an instance is what its holders hold, and nobody holds a
   negative amount: mint and transfer move the two records together. *)
SupplyIsHeld ==
    \A t \in Tokens : totalSupply[t] = SumFunctionOnSet(balanceOf[t], Accounts)

(* Issuance needs a live authorization: the supply of an instance never falls,
   and a step that raises it is taken while some account holds MINTER_ROLE.
   revokeMinter on the last minter therefore stops issuance at once. *)
IssuanceNeedsMinter ==
    [][\A t \in Tokens :
          /\ totalSupply'[t] >= totalSupply[t]
          /\ totalSupply'[t] > totalSupply[t] => tokenRoles[t][MINTER_ROLE] # {}
      ]_tokenVars
=============================================================================
