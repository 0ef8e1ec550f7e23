------------------------ MODULE NoethrionTokenProofs ------------------------
(***************************************************************************)
(* Theorems about NoethrionToken: type correctness, the supply cap, the    *)
(* rule that issuance needs a minter and the agreement of the supply with  *)
(* the balances, for any number of instances, accounts, minters and        *)
(* admins.                                                                 *)
(***************************************************************************)
EXTENDS NoethrionToken, FiniteSums

(* Granting and revoking keep a role table well formed. *)
LEMMA RoleTableType ==
    ASSUME NEW R, NEW A, NEW members \in [R -> SUBSET A], NEW role \in R, NEW account
    PROVE  /\ account \in A => WithRole(members, role, account) \in [R -> SUBSET A]
           /\ WithoutRole(members, role, account) \in [R -> SUBSET A]
  BY DEF WithRole, WithoutRole

(* A mint by any caller, whether its own transaction or the call claim() makes,
   keeps the types and the cap. *)
LEMMA MintStep ==
    ASSUME TokenTypeOK, SupplyCapped,
           NEW t \in Tokens, NEW caller, NEW to \in Accounts \cup {ZeroAddress},
           NEW amount \in Nat, Mint(t, caller, to, amount)
    PROVE  /\ TokenTypeOK'
           /\ SupplyCapped'
           /\ totalSupply'[t] = totalSupply[t] + amount
           /\ tokenRoles[t][MINTER_ROLE] # {}
  <1> USE AccountsAssumption, TokenAssumption DEF TokenTypeOK, Mint, WithinCap, SupplyCapped
  <1>1. to \in Accounts
    OBVIOUS
  <1>2. totalSupply[t] + amount \in Nat /\ balanceOf[t][to] + amount \in Nat
    BY <1>1
  <1>3. totalSupply' \in [Tokens -> Nat]
    BY <1>2
  <1>4. balanceOf' \in [Tokens -> [Accounts -> Nat]]
    <2>1. Moved(balanceOf[t], to, amount) \in [Accounts -> Nat]
      BY <1>1, <1>2 DEF Moved
    <2> QED BY <2>1 DEF Credit
  <1>5. SupplyCapped'
    BY <1>2, <1>3
  <1>6. tokenRoles[t][MINTER_ROLE] # {}
    BY DEF MayMint, HasRole
  <1> QED BY <1>2, <1>3, <1>4, <1>5, <1>6

(* A step that only changes role tables. *)
LEMMA TokenRoleStep ==
    ASSUME TokenTypeOK, SupplyCapped, NEW t \in Tokens,
           NEW table \in [TokenRole -> SUBSET Accounts],
           tokenRoles' = [tokenRoles EXCEPT ![t] = table],
           UNCHANGED <<balanceOf, totalSupply>>
    PROVE  TokenTypeOK' /\ SupplyCapped'
  BY DEF TokenTypeOK, SupplyCapped

(* A transfer moves balances and nothing else. *)
LEMMA TransferStep ==
    ASSUME TokenTypeOK, SupplyCapped, NEW t \in Tokens,
           NEW from \in Accounts, NEW to \in Accounts, NEW amount \in Nat,
           Transfer(t, from, to, amount)
    PROVE  TokenTypeOK' /\ SupplyCapped'
  <1> USE DEF TokenTypeOK, Transfer, HasFunds
  <1> DEFINE debited == Moved(balanceOf[t], from, -amount)
             moved   == Moved(debited, to, amount)
  <1>1. balanceOf[t][from] + (-amount) \in Nat
    OBVIOUS
  <1>2. debited \in [Accounts -> Nat]
    BY <1>1 DEF Moved
  <1> HIDE DEF debited
  <1>3. moved \in [Accounts -> Nat]
    BY <1>2 DEF Moved
  <1>4. balanceOf' = [balanceOf EXCEPT ![t] = moved]
    BY DEF debited
  <1>5. balanceOf' \in [Tokens -> [Accounts -> Nat]]
    BY <1>3, <1>4
  <1> QED BY <1>5 DEF SupplyCapped

(* One step of the token, whoever takes it. *)
LEMMA TokenStepSafe ==
    ASSUME TokenTypeOK, SupplyCapped, TokenNext
    PROVE  /\ TokenTypeOK'
           /\ SupplyCapped'
           /\ \A t \in Tokens :
                /\ totalSupply'[t] >= totalSupply[t]
                /\ totalSupply'[t] > totalSupply[t] => tokenRoles[t][MINTER_ROLE] # {}
  <1> USE AccountsAssumption, TokenAssumption
  <1> PICK t \in Tokens : TokenStep(t)
    BY DEF TokenNext
  <1>0. tokenRoles[t] \in [TokenRole -> SUBSET Accounts]
    BY DEF TokenTypeOK
  <1>r. ASSUME NEW role \in TokenRole, NEW account,
               \/ account \in Accounts
                  /\ tokenRoles' = [tokenRoles EXCEPT ![t] = WithRole(@, role, account)]
               \/ tokenRoles' = [tokenRoles EXCEPT ![t] = WithoutRole(@, role, account)],
               UNCHANGED <<balanceOf, totalSupply>>
        PROVE  TokenTypeOK' /\ SupplyCapped' /\ totalSupply' = totalSupply
    <2>1. CASE account \in Accounts
               /\ tokenRoles' = [tokenRoles EXCEPT ![t] = WithRole(@, role, account)]
      <3>1. WithRole(tokenRoles[t], role, account) \in [TokenRole -> SUBSET Accounts]
        BY <1>0, <2>1, RoleTableType
      <3> QED BY <1>r, <2>1, <3>1, TokenRoleStep DEF TokenTypeOK
    <2>2. CASE tokenRoles' = [tokenRoles EXCEPT ![t] = WithoutRole(@, role, account)]
      <3>1. WithoutRole(tokenRoles[t], role, account) \in [TokenRole -> SUBSET Accounts]
        BY <1>0, RoleTableType
      <3> QED BY <1>r, <2>2, <3>1, TokenRoleStep DEF TokenTypeOK
    <2> QED BY <1>r, <2>1, <2>2
  <1>f. totalSupply' = totalSupply =>
           \A u \in Tokens :
                /\ totalSupply'[u] >= totalSupply[u]
                /\ totalSupply'[u] > totalSupply[u] => tokenRoles[u][MINTER_ROLE] # {}
    BY DEF TokenTypeOK
  <1>1. ASSUME NEW c \in Callers, NEW m \in Minters,
               AuthorizeMinter(t, c, m) \/ RevokeMinter(t, c, m)
        PROVE  TokenTypeOK' /\ SupplyCapped' /\ totalSupply' = totalSupply
    BY <1>1, <1>r DEF AuthorizeMinter, RevokeMinter, TokenRole
  <1>2. ASSUME NEW c \in Callers, NEW to \in Accounts \cup {ZeroAddress},
               NEW amt \in Amounts, Mint(t, c, to, amt)
        PROVE  /\ TokenTypeOK' /\ SupplyCapped'
               /\ \A u \in Tokens :
                    /\ totalSupply'[u] >= totalSupply[u]
                    /\ totalSupply'[u] > totalSupply[u] => tokenRoles[u][MINTER_ROLE] # {}
    <2>1. amt \in Nat
      OBVIOUS
    <2>2. /\ TokenTypeOK' /\ SupplyCapped'
          /\ totalSupply'[t] = totalSupply[t] + amt
          /\ tokenRoles[t][MINTER_ROLE] # {}
      BY <1>2, <2>1, MintStep
    <2>3. \A u \in Tokens \ {t} : totalSupply'[u] = totalSupply[u]
      BY <1>2 DEF Mint, TokenTypeOK
    <2>4. \A u \in Tokens : totalSupply[u] \in Nat
      BY DEF TokenTypeOK
    <2>5. \A u \in Tokens :
              /\ totalSupply'[u] >= totalSupply[u]
              /\ totalSupply'[u] > totalSupply[u] => tokenRoles[u][MINTER_ROLE] # {}
      <3> TAKE u \in Tokens
      <3>1. CASE u = t
        BY <2>1, <2>2, <2>4, <3>1
      <3>2. CASE u # t
        BY <2>3, <2>4, <3>2
      <3> QED BY <3>1, <3>2
    <2> QED BY <2>2, <2>5
  <1>3. ASSUME NEW op \in TokenRoleOps,
               \/ \E c \in Callers : TokenGrantRole(t, c, op[1], op[2])
               \/ \E c \in Callers : TokenRevokeRole(t, c, op[1], op[2])
               \/ TokenRenounceRole(t, op[1], op[2])
        PROVE  TokenTypeOK' /\ SupplyCapped' /\ totalSupply' = totalSupply
    <2>1. op[1] \in TokenRole /\ op[2] \in Accounts
      OBVIOUS
    <2> QED BY <1>3, <2>1, <1>r DEF TokenGrantRole, TokenRevokeRole, TokenRenounceRole
  <1>4. ASSUME NEW from \in Accounts, NEW to \in Accounts, NEW amt \in TransferAmounts,
               Transfer(t, from, to, amt)
        PROVE  TokenTypeOK' /\ SupplyCapped' /\ totalSupply' = totalSupply
    <2>1. amt \in Nat
      OBVIOUS
    <2> QED BY <1>4, <2>1, TransferStep DEF Transfer
  <1> QED BY <1>1, <1>2, <1>3, <1>4, <1>f DEF TokenStep

(* The constructor's state. *)
LEMMA TokenInitSafe == TokenInit => TokenTypeOK /\ SupplyCapped
  BY AccountsAssumption, TokenAssumption
  DEF TokenInit, TokenTypeOK, SupplyCapped, TokenRole

(* NoethrionToken.sol keeps its types and no interleaving of mint,
   authorizeMinter, revokeMinter, role changes and transfers takes the supply
   of an instance past MAX_SUPPLY. *)
THEOREM TokenSafety == TokenSpec => [](TokenTypeOK /\ SupplyCapped)
  <1>1. TokenInit => TokenTypeOK /\ SupplyCapped
    BY TokenInitSafe
  <1>2. TokenTypeOK /\ SupplyCapped /\ [TokenNext]_tokenVars
        => (TokenTypeOK /\ SupplyCapped)'
    <2>1. CASE TokenNext
      BY <2>1, TokenStepSafe
    <2>2. CASE UNCHANGED tokenVars
      BY <2>2 DEF tokenVars, TokenTypeOK, SupplyCapped
    <2> QED BY <2>1, <2>2
  <1> QED BY <1>1, <1>2, PTL DEF TokenSpec

(* mint() is the only way a supply changes, it only raises it, and only while
   somebody holds MINTER_ROLE. *)
THEOREM TokenIssuance == TokenSpec => IssuanceNeedsMinter
  <1> DEFINE Step == \A t \in Tokens :
          /\ totalSupply'[t] >= totalSupply[t]
          /\ totalSupply'[t] > totalSupply[t] => tokenRoles[t][MINTER_ROLE] # {}
  <1>1. TokenTypeOK /\ SupplyCapped /\ [TokenNext]_tokenVars => [Step]_tokenVars
    BY TokenStepSafe
  <1>2. TokenSpec => [](TokenTypeOK /\ SupplyCapped)
    BY TokenSafety
  <1> QED BY <1>1, <1>2, PTL DEF TokenSpec, IssuanceNeedsMinter

-----------------------------------------------------------------------------
(* The supply is what the holders hold. *)

(* A holder's balance moved by delta moves the sum of the balances by delta. *)
LEMMA MovedSum ==
    ASSUME NEW ledger \in [Accounts -> Int], NEW holder \in Accounts, NEW delta \in Int
    PROVE  /\ Moved(ledger, holder, delta) \in [Accounts -> Int]
           /\ SumFunctionOnSet(Moved(ledger, holder, delta), Accounts)
                  = SumFunctionOnSet(ledger, Accounts) + delta
           /\ SumFunctionOnSet(ledger, Accounts) \in Int
  <1>1. Moved(ledger, holder, delta) \in [Accounts -> Int]
    BY DEF Moved
  <1>2. SumFunctionOnSet([ledger EXCEPT ![holder] = @ + delta], Accounts)
            = SumFunctionOnSet(ledger, Accounts) + delta
    BY AccountsAssumption, SumUpdate
  <1>3. SumFunctionOnSet(ledger, Accounts) \in Int
    BY AccountsAssumption, SumInt
  <1> QED BY <1>1, <1>2, <1>3 DEF Moved

(* A mint, whoever calls it, credits what it issues. *)
LEMMA MintHeld ==
    ASSUME TokenTypeOK, SupplyIsHeld, NEW t \in Tokens, NEW caller,
           NEW to \in Accounts \cup {ZeroAddress}, NEW amount \in Nat,
           Mint(t, caller, to, amount)
    PROVE  SupplyIsHeld'
  <1>1. to \in Accounts
    BY DEF Mint
  <1>2. balanceOf[t] \in [Accounts -> Int]
    BY DEF TokenTypeOK
  <1>3. SumFunctionOnSet(Moved(balanceOf[t], to, amount), Accounts)
            = SumFunctionOnSet(balanceOf[t], Accounts) + amount
    BY <1>1, <1>2, MovedSum
  <1>4. /\ balanceOf'[t] = Moved(balanceOf[t], to, amount)
        /\ totalSupply'[t] = totalSupply[t] + amount
    BY DEF Mint, Credit, TokenTypeOK
  <1>5. \A u \in Tokens \ {t} : balanceOf'[u] = balanceOf[u] /\ totalSupply'[u] = totalSupply[u]
    BY DEF Mint, Credit, TokenTypeOK
  <1>6. \A u \in Tokens : totalSupply[u] = SumFunctionOnSet(balanceOf[u], Accounts)
    BY DEF SupplyIsHeld
  <1>7. ASSUME NEW u \in Tokens
        PROVE  totalSupply'[u] = SumFunctionOnSet(balanceOf'[u], Accounts)
    <2>1. CASE u = t
      BY <1>3, <1>4, <1>6, <2>1
    <2>2. CASE u # t
      BY <1>5, <1>6, <2>2
    <2> QED BY <2>1, <2>2
  <1> QED BY <1>7 DEF SupplyIsHeld

(* A transfer, to oneself too, leaves the sum of the balances alone. *)
LEMMA TransferHeld ==
    ASSUME TokenTypeOK, SupplyIsHeld, NEW t \in Tokens, NEW from \in Accounts,
           NEW to \in Accounts, NEW amount \in Nat, Transfer(t, from, to, amount)
    PROVE  SupplyIsHeld'
  <1> DEFINE debited == Moved(balanceOf[t], from, -amount)
             moved   == Moved(debited, to, amount)
  <1>1. balanceOf[t] \in [Accounts -> Int] /\ -amount \in Int
    BY DEF TokenTypeOK
  <1>2. /\ debited \in [Accounts -> Int]
        /\ SumFunctionOnSet(debited, Accounts)
               = SumFunctionOnSet(balanceOf[t], Accounts) + (-amount)
        /\ SumFunctionOnSet(balanceOf[t], Accounts) \in Int
    BY <1>1, MovedSum
  <1> HIDE DEF debited
  <1>3. SumFunctionOnSet(moved, Accounts) = SumFunctionOnSet(debited, Accounts) + amount
    BY <1>2, MovedSum
  <1> HIDE DEF moved
  <1>4. SumFunctionOnSet(moved, Accounts) = SumFunctionOnSet(balanceOf[t], Accounts)
    BY <1>2, <1>3
  <1>5. balanceOf'[t] = moved /\ totalSupply' = totalSupply
    BY DEF Transfer, TokenTypeOK, moved, debited
  <1>6. \A u \in Tokens \ {t} : balanceOf'[u] = balanceOf[u]
    BY DEF Transfer, TokenTypeOK
  <1>7. \A u \in Tokens : totalSupply[u] = SumFunctionOnSet(balanceOf[u], Accounts)
    BY DEF SupplyIsHeld
  <1>8. ASSUME NEW u \in Tokens
        PROVE  totalSupply'[u] = SumFunctionOnSet(balanceOf'[u], Accounts)
    <2>1. CASE u = t
      BY <1>4, <1>5, <1>7, <2>1
    <2>2. CASE u # t
      BY <1>5, <1>6, <1>7, <2>2
    <2> QED BY <2>1, <2>2
  <1> QED BY <1>8 DEF SupplyIsHeld

(* One step of the token keeps the two records in agreement. *)
LEMMA TokenStepHeld ==
    ASSUME TokenTypeOK, SupplyIsHeld, TokenNext
    PROVE  SupplyIsHeld'
  <1> USE TokenAssumption
  <1> PICK t \in Tokens : TokenStep(t)
    BY DEF TokenNext
  <1>1. ASSUME UNCHANGED <<balanceOf, totalSupply>>
        PROVE  SupplyIsHeld'
    BY <1>1 DEF SupplyIsHeld
  <1>2. ASSUME NEW c \in Callers, NEW m \in Minters,
               AuthorizeMinter(t, c, m) \/ RevokeMinter(t, c, m)
        PROVE  UNCHANGED <<balanceOf, totalSupply>>
    BY <1>2 DEF AuthorizeMinter, RevokeMinter
  <1>3. ASSUME NEW c \in Callers, NEW to \in Accounts \cup {ZeroAddress},
               NEW amt \in Amounts, Mint(t, c, to, amt)
        PROVE  SupplyIsHeld'
    <2>1. amt \in Nat
      OBVIOUS
    <2> QED BY <1>3, <2>1, MintHeld
  <1>4. ASSUME NEW op \in TokenRoleOps,
               \/ \E c \in Callers : TokenGrantRole(t, c, op[1], op[2])
               \/ \E c \in Callers : TokenRevokeRole(t, c, op[1], op[2])
               \/ TokenRenounceRole(t, op[1], op[2])
        PROVE  UNCHANGED <<balanceOf, totalSupply>>
    BY <1>4 DEF TokenGrantRole, TokenRevokeRole, TokenRenounceRole
  <1>5. ASSUME NEW from \in Accounts, NEW to \in Accounts, NEW amt \in TransferAmounts,
               Transfer(t, from, to, amt)
        PROVE  SupplyIsHeld'
    <2>1. amt \in Nat
      OBVIOUS
    <2> QED BY <1>5, <2>1, TransferHeld
  <1> QED BY <1>1, <1>2, <1>3, <1>4, <1>5 DEF TokenStep

(* Nothing is issued and nothing is held at the start. *)
LEMMA TokenInitHeld == TokenInit => SupplyIsHeld
  <1> SUFFICES ASSUME TokenInit, NEW t \in Tokens
               PROVE  totalSupply[t] = SumFunctionOnSet(balanceOf[t], Accounts)
    BY DEF SupplyIsHeld
  <1>1. \A a \in Accounts : balanceOf[t][a] = 0
    BY DEF TokenInit
  <1>2. SumFunctionOnSet(balanceOf[t], Accounts) = 0
    BY <1>1, AccountsAssumption, SumZero
  <1> QED BY <1>2 DEF TokenInit

(* Mint and transfer keep the supply of every instance equal to the sum of the
   balances of its holders, however many of them there are. *)
THEOREM TokenSupplyIsHeld == TokenSpec => []SupplyIsHeld
  <1>1. SupplyIsHeld /\ TokenTypeOK /\ [TokenNext]_tokenVars => SupplyIsHeld'
    <2>1. ASSUME SupplyIsHeld, UNCHANGED tokenVars
          PROVE  SupplyIsHeld'
      BY <2>1 DEF tokenVars, SupplyIsHeld
    <2> QED BY <2>1, TokenStepHeld
  <1> QED BY <1>1, TokenInitHeld, TokenSafety, PTL DEF TokenSpec
=============================================================================
