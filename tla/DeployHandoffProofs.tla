------------------------ MODULE DeployHandoffProofs -------------------------
(***************************************************************************)
(* Theorems about DeployHandoff, for every plan with any number of         *)
(* validators, every point at which the broadcast breaks off and every     *)
(* set of accounts that use the token in between.                          *)
(***************************************************************************)
EXTENDS DeployHandoff, NoethrionTokenProofs

-----------------------------------------------------------------------------
(* The transactions of the script, by their place in it. *)

(* A transaction is what it was made from. *)
LEMMA TxFields ==
    ASSUME NEW on, NEW op, NEW role, NEW who
    PROVE  /\ Tx(on, op, role, who).on = on
           /\ Tx(on, op, role, who).op = op
           /\ Tx(on, op, role, who).role = role
           /\ Tx(on, op, role, who).who = who
  BY DEF Tx

(* s is a list of n elements of S.  The definitions below stay folded in the
   proofs that use the lemmas about them. *)
IsList(s, n, S) == s \in Seq(S) /\ Len(s) = n
Cat(s, t)       == s \o t
Two(a, b)       == <<a, b>>
Three(a, b, c)  == <<a, b, c>>

(* Concatenation by index. *)
LEMMA CatAt ==
    ASSUME NEW S, NEW s, NEW t, NEW m \in Nat, NEW k \in Nat, IsList(s, m, S), IsList(t, k, S)
    PROVE  /\ IsList(Cat(s, t), m + k, S)
           /\ \A i \in 1..m : Cat(s, t)[i] = s[i]
           /\ \A i \in 1..k : Cat(s, t)[m + i] = t[i]
  BY DEF Cat, IsList

(* Two transactions in a row. *)
LEMMA TwoAt ==
    ASSUME NEW S, NEW a \in S, NEW b \in S
    PROVE  IsList(Two(a, b), 2, S) /\ Two(a, b)[1] = a /\ Two(a, b)[2] = b
  BY DEF Two, IsList

(* Three of them. *)
LEMMA ThreeAt ==
    ASSUME NEW S, NEW a \in S, NEW b \in S, NEW c \in S
    PROVE  /\ IsList(Three(a, b, c), 3, S)
           /\ Three(a, b, c)[1] = a /\ Three(a, b, c)[2] = b /\ Three(a, b, c)[3] = c
  BY DEF Three, IsList

(* The order of deployAndHandoff: the wiring, a grant per validator, the five
   grants to the Safe and the timelock, the five renounces. *)
LEMMA ScriptAt ==
    ASSUME NEW p, NEW n \in Nat, p.validators \in Seq(Accounts \cup {ZeroAddress}),
           Len(p.validators) = n
    PROVE  /\ Len(Script(p)) = n + 12
           /\ Script(p)[1] = Tx("attester", "setTokenContract", ADMIN_ROLE, deployer)
           /\ Script(p)[2] = Tx("token", "authorizeMinter", MINTER_ROLE, AttesterAddress)
           /\ \A i \in 1..n : Script(p)[2 + i]
                  = Tx("attester", "grant", VALIDATOR_ROLE, p.validators[i])
           /\ Script(p)[n + 3] = Tx("attester", "grant", DEFAULT_ADMIN_ROLE, p.safe)
           /\ Script(p)[n + 4] = Tx("attester", "grant", PAUSER_ROLE, p.safe)
           /\ Script(p)[n + 5] = Tx("attester", "grant", ADMIN_ROLE, p.timelock)
           /\ Script(p)[n + 6] = Tx("token", "grant", DEFAULT_ADMIN_ROLE, p.safe)
           /\ Script(p)[n + 7] = Tx("token", "grant", ADMIN_ROLE, p.timelock)
           /\ Script(p)[n + 8] = Tx("attester", "renounce", ADMIN_ROLE, deployer)
           /\ Script(p)[n + 9] = Tx("attester", "renounce", PAUSER_ROLE, deployer)
           /\ Script(p)[n + 10] = Tx("attester", "renounce", DEFAULT_ADMIN_ROLE, deployer)
           /\ Script(p)[n + 11] = Tx("token", "renounce", ADMIN_ROLE, deployer)
           /\ Script(p)[n + 12] = Tx("token", "renounce", DEFAULT_ADMIN_ROLE, deployer)
  <1> DEFINE whos == Accounts \cup {ZeroAddress, p.safe, p.timelock, deployer, AttesterAddress}
             ops  == {"setTokenContract", "authorizeMinter", "grant", "renounce"}
             S    == [on : {"attester", "token"}, op : ops, role : AttesterRole \cup TokenRole,
                      who : whos]
  <1>1. ASSUME NEW on \in {"attester", "token"}, NEW op \in ops,
               NEW role \in AttesterRole \cup TokenRole, NEW who \in whos
        PROVE  Tx(on, op, role, who) \in S
    BY DEF Tx
  <1>r. /\ {DEFAULT_ADMIN_ROLE, ADMIN_ROLE, PAUSER_ROLE, VALIDATOR_ROLE, MINTER_ROLE}
              = AttesterRole \cup TokenRole
        /\ Accounts \cup {ZeroAddress} \subseteq whos
        /\ p.safe \in whos /\ p.timelock \in whos /\ deployer \in whos /\ AttesterAddress \in whos
    BY DEF AttesterRole, TokenRole
  <1> HIDE DEF whos
  <1> DEFINE vals == [i \in DOMAIN p.validators |->
                          Tx("attester", "grant", VALIDATOR_ROLE, p.validators[i])]
             t1  == Tx("attester", "setTokenContract", ADMIN_ROLE, deployer)
             t2  == Tx("token", "authorizeMinter", MINTER_ROLE, AttesterAddress)
             g1  == Tx("attester", "grant", DEFAULT_ADMIN_ROLE, p.safe)
             g2  == Tx("attester", "grant", PAUSER_ROLE, p.safe)
             g3  == Tx("attester", "grant", ADMIN_ROLE, p.timelock)
             h1  == Tx("token", "grant", DEFAULT_ADMIN_ROLE, p.safe)
             h2  == Tx("token", "grant", ADMIN_ROLE, p.timelock)
             r1  == Tx("attester", "renounce", ADMIN_ROLE, deployer)
             r2  == Tx("attester", "renounce", PAUSER_ROLE, deployer)
             r3  == Tx("attester", "renounce", DEFAULT_ADMIN_ROLE, deployer)
             q1  == Tx("token", "renounce", ADMIN_ROLE, deployer)
             q2  == Tx("token", "renounce", DEFAULT_ADMIN_ROLE, deployer)
  <1>2. /\ t1 \in S /\ t2 \in S /\ g1 \in S /\ g2 \in S /\ g3 \in S /\ h1 \in S /\ h2 \in S
        /\ r1 \in S /\ r2 \in S /\ r3 \in S /\ q1 \in S /\ q2 \in S
    BY <1>1, <1>r
  <1>3. IsList(vals, n, S)
        /\ \A i \in 1..n : vals[i] = Tx("attester", "grant", VALIDATOR_ROLE, p.validators[i])
    <2>1. DOMAIN p.validators = 1..n /\ \A i \in 1..n : p.validators[i] \in whos
      BY <1>r
    <2>2. \A i \in 1..n : Tx("attester", "grant", VALIDATOR_ROLE, p.validators[i]) \in S
      <3>1. VALIDATOR_ROLE \in AttesterRole \cup TokenRole
        BY <1>r
      <3> QED BY <1>1, <2>1, <3>1
    <2> HIDE DEF S
    <2>3. vals \in [1..n -> S]
      BY <2>1, <2>2
    <2>4. vals \in Seq(S) /\ Len(vals) = n
      BY <2>3
    <2> QED BY <2>1, <2>4 DEF IsList
  <1> PICK s1 : s1 = Cat(Two(t1, t2), vals)
    OBVIOUS
  <1> PICK s2 : s2 = Cat(s1, Three(g1, g2, g3))
    OBVIOUS
  <1> PICK s3 : s3 = Cat(s2, Two(h1, h2))
    OBVIOUS
  <1> PICK s4 : s4 = Cat(s3, Three(r1, r2, r3))
    OBVIOUS
  <1> PICK s5 : s5 = Cat(s4, Two(q1, q2))
    OBVIOUS
  <1>4. Script(p) = s5
    BY Zenon DEF Script, Wiring, AttesterGrants, TokenGrants, AttesterRenounces, TokenRenounces,
           Cat, Two, Three
  <1> HIDE DEF vals, S, t1, t2, g1, g2, g3, h1, h2, r1, r2, r3, q1, q2
  <1> PICK n2 \in Nat : n2 = n + 2
    OBVIOUS
  <1> PICK n5 \in Nat : n5 = n2 + 3
    OBVIOUS
  <1> PICK n7 \in Nat : n7 = n5 + 2
    OBVIOUS
  <1> PICK n10 \in Nat : n10 = n7 + 3
    OBVIOUS
  <1>5. /\ IsList(s1, n2, S) /\ s1[1] = t1 /\ s1[2] = t2
        /\ \A i \in 1..n : s1[2 + i] = vals[i]
    <2>1. IsList(Two(t1, t2), 2, S) /\ Two(t1, t2)[1] = t1 /\ Two(t1, t2)[2] = t2
      BY <1>2, TwoAt
    <2>2. /\ IsList(s1, 2 + n, S)
          /\ \A i \in 1..2 : s1[i] = Two(t1, t2)[i]
          /\ \A i \in 1..n : s1[2 + i] = vals[i]
      BY <1>3, <2>1, CatAt
    <2>3. 2 + n = n2
      OBVIOUS
    <2> QED BY <2>1, <2>2, <2>3
  <1>6. /\ IsList(s2, n5, S)
        /\ \A i \in 1..n2 : s2[i] = s1[i]
        /\ s2[n2 + 1] = g1 /\ s2[n2 + 2] = g2 /\ s2[n2 + 3] = g3
    <2>1. /\ IsList(Three(g1, g2, g3), 3, S) /\ Three(g1, g2, g3)[1] = g1
          /\ Three(g1, g2, g3)[2] = g2 /\ Three(g1, g2, g3)[3] = g3
      BY <1>2, ThreeAt
    <2>2. /\ IsList(s2, n2 + 3, S)
          /\ \A i \in 1..n2 : s2[i] = s1[i]
          /\ \A i \in 1..3 : s2[n2 + i] = Three(g1, g2, g3)[i]
      BY <1>5, <2>1, CatAt
    <2> QED BY <2>1, <2>2
  <1>7. /\ IsList(s3, n7, S)
        /\ \A i \in 1..n5 : s3[i] = s2[i]
        /\ s3[n5 + 1] = h1 /\ s3[n5 + 2] = h2
    <2>1. IsList(Two(h1, h2), 2, S) /\ Two(h1, h2)[1] = h1 /\ Two(h1, h2)[2] = h2
      BY <1>2, TwoAt
    <2>2. /\ IsList(s3, n5 + 2, S)
          /\ \A i \in 1..n5 : s3[i] = s2[i]
          /\ \A i \in 1..2 : s3[n5 + i] = Two(h1, h2)[i]
      BY <1>6, <2>1, CatAt
    <2> QED BY <2>1, <2>2
  <1>8. /\ IsList(s4, n10, S)
        /\ \A i \in 1..n7 : s4[i] = s3[i]
        /\ s4[n7 + 1] = r1 /\ s4[n7 + 2] = r2 /\ s4[n7 + 3] = r3
    <2>1. /\ IsList(Three(r1, r2, r3), 3, S) /\ Three(r1, r2, r3)[1] = r1
          /\ Three(r1, r2, r3)[2] = r2 /\ Three(r1, r2, r3)[3] = r3
      BY <1>2, ThreeAt
    <2>2. /\ IsList(s4, n7 + 3, S)
          /\ \A i \in 1..n7 : s4[i] = s3[i]
          /\ \A i \in 1..3 : s4[n7 + i] = Three(r1, r2, r3)[i]
      BY <1>7, <2>1, CatAt
    <2> QED BY <2>1, <2>2
  <1>9. /\ IsList(s5, n10 + 2, S)
        /\ \A i \in 1..n10 : s5[i] = s4[i]
        /\ s5[n10 + 1] = q1 /\ s5[n10 + 2] = q2
    <2>1. IsList(Two(q1, q2), 2, S) /\ Two(q1, q2)[1] = q1 /\ Two(q1, q2)[2] = q2
      BY <1>2, TwoAt
    <2>2. /\ IsList(s5, n10 + 2, S)
          /\ \A i \in 1..n10 : s5[i] = s4[i]
          /\ \A i \in 1..2 : s5[n10 + i] = Two(q1, q2)[i]
      BY <1>8, <2>1, CatAt
    <2> QED BY <2>1, <2>2
  <1>10. /\ IsList(s5, n + 12, S)
         /\ s5[n + 11] = q1 /\ s5[n + 12] = q2
    BY <1>9
  <1>11. s5[n + 8] = r1 /\ s5[n + 9] = r2 /\ s5[n + 10] = r3
    BY <1>8, <1>9
  <1>12. s5[n + 6] = h1 /\ s5[n + 7] = h2
    BY <1>7, <1>8, <1>9
  <1>13. \A i \in 1..n5 : s5[i] = s2[i]
    BY <1>7, <1>8, <1>9
  <1>14. s5[n + 3] = g1 /\ s5[n + 4] = g2 /\ s5[n + 5] = g3
    BY <1>6, <1>13
  <1>15. s5[1] = t1 /\ s5[2] = t2 /\ \A i \in 1..n : s5[2 + i] = vals[i]
    BY <1>5, <1>6, <1>13
  <1> QED BY <1>3, <1>4, <1>10, <1>11, <1>12, <1>14, <1>15, Zenon
      DEF IsList, t1, t2, g1, g2, g3, h1, h2, r1, r2, r3, q1, q2

-----------------------------------------------------------------------------
(* What a transaction of the script does to the two role tables. *)

AttesterTables == [AttesterRole -> SUBSET Accounts]
TokenTables    == [TokenRole -> SUBSET Accounts]
RoleTables     == [attester : AttesterTables, token : TokenTables]

(* Granting and revoking change the members of one role. *)
LEMMA RoleTableAt ==
    ASSUME NEW R, NEW A, NEW members \in [R -> SUBSET A], NEW role \in R, NEW account
    PROVE  /\ WithRole(members, role, account)[role] = members[role] \cup {account}
           /\ WithoutRole(members, role, account)[role] = members[role] \ {account}
           /\ \A r \in R \ {role} : /\ WithRole(members, role, account)[r] = members[r]
                                    /\ WithoutRole(members, role, account)[r] = members[r]
  BY DEF WithRole, WithoutRole

(* One of the two tables is replaced. *)
LEMMA TableReplaced ==
    ASSUME NEW roles \in RoleTables
    PROVE  /\ roles.attester \in AttesterTables /\ roles.token \in TokenTables
           /\ roles["attester"] = roles.attester /\ roles["token"] = roles.token
           /\ \A v \in AttesterTables :
                 /\ [roles EXCEPT !["attester"] = v] \in RoleTables
                 /\ [roles EXCEPT !["attester"] = v].attester = v
                 /\ [roles EXCEPT !["attester"] = v].token = roles.token
           /\ \A v \in TokenTables :
                 /\ [roles EXCEPT !["token"] = v] \in RoleTables
                 /\ [roles EXCEPT !["token"] = v].attester = roles.attester
                 /\ [roles EXCEPT !["token"] = v].token = v
  <1> HIDE DEF AttesterTables, TokenTables
  <1> QED BY DEF RoleTables

(* grantRole on the attester. *)
LEMMA AttesterGrant ==
    ASSUME NEW roles \in RoleTables, NEW role \in AttesterRole, NEW who \in Accounts,
           deployer \in roles.attester[DEFAULT_ADMIN_ROLE],
           NEW tx, tx = Tx("attester", "grant", role, who)
    PROVE  /\ Allowed(roles, tx)
           /\ Effect(roles, tx) \in RoleTables
           /\ Effect(roles, tx).attester = WithRole(roles.attester, role, who)
           /\ Effect(roles, tx).token = roles.token
  <1>1. tx.on = "attester" /\ tx.op = "grant" /\ tx.role = role /\ tx.who = who
    BY TxFields
  <1>2. WithRole(roles.attester, role, who) \in AttesterTables
    BY TableReplaced, RoleTableType DEF AttesterTables
  <1>3. Effect(roles, tx) = [roles EXCEPT !["attester"] = WithRole(roles.attester, role, who)]
    BY <1>1, TableReplaced DEF Effect
  <1>4. Allowed(roles, tx)
    BY <1>1, TableReplaced DEF Allowed, MayAdminister, HasRole
  <1> QED BY <1>2, <1>3, <1>4, TableReplaced

(* grantRole and authorizeMinter on the token. *)
LEMMA TokenGrant ==
    ASSUME NEW roles \in RoleTables, NEW role \in TokenRole, NEW who \in Accounts,
           NEW op \in {"grant", "authorizeMinter"},
           deployer \in roles.token[DEFAULT_ADMIN_ROLE], deployer \in roles.token[ADMIN_ROLE],
           NEW tx, tx = Tx("token", op, role, who)
    PROVE  /\ Allowed(roles, tx)
           /\ Effect(roles, tx) \in RoleTables
           /\ Effect(roles, tx).attester = roles.attester
           /\ Effect(roles, tx).token = WithRole(roles.token, role, who)
  <1>1. tx.on = "token" /\ tx.op = op /\ tx.role = role /\ tx.who = who
    BY TxFields
  <1>2. WithRole(roles.token, role, who) \in TokenTables
    BY TableReplaced, RoleTableType DEF TokenTables
  <1>3. Effect(roles, tx) = [roles EXCEPT !["token"] = WithRole(roles.token, role, who)]
    BY <1>1, TableReplaced DEF Effect
  <1>4. Allowed(roles, tx)
    BY <1>1, TableReplaced DEF Allowed, MayAdminister, HasRole
  <1> QED BY <1>2, <1>3, <1>4, TableReplaced

(* renounceRole on the attester, and on the token. *)
LEMMA AttesterRenounce ==
    ASSUME NEW roles \in RoleTables, NEW role \in AttesterRole,
           NEW tx, tx = Tx("attester", "renounce", role, deployer)
    PROVE  /\ Allowed(roles, tx)
           /\ Effect(roles, tx) \in RoleTables
           /\ Effect(roles, tx).attester = WithoutRole(roles.attester, role, deployer)
           /\ Effect(roles, tx).token = roles.token
  <1>1. tx.on = "attester" /\ tx.op = "renounce" /\ tx.role = role /\ tx.who = deployer
    BY TxFields
  <1>2. WithoutRole(roles.attester, role, deployer) \in AttesterTables
    BY TableReplaced, RoleTableType DEF AttesterTables
  <1>3. Effect(roles, tx)
            = [roles EXCEPT !["attester"] = WithoutRole(roles.attester, role, deployer)]
    BY <1>1, TableReplaced DEF Effect
  <1>4. Allowed(roles, tx)
    BY <1>1 DEF Allowed
  <1> QED BY <1>2, <1>3, <1>4, TableReplaced

(* The same on the token. *)
LEMMA TokenRenounce ==
    ASSUME NEW roles \in RoleTables, NEW role \in TokenRole,
           NEW tx, tx = Tx("token", "renounce", role, deployer)
    PROVE  /\ Allowed(roles, tx)
           /\ Effect(roles, tx) \in RoleTables
           /\ Effect(roles, tx).attester = roles.attester
           /\ Effect(roles, tx).token = WithoutRole(roles.token, role, deployer)
  <1>1. tx.on = "token" /\ tx.op = "renounce" /\ tx.role = role /\ tx.who = deployer
    BY TxFields
  <1>2. WithoutRole(roles.token, role, deployer) \in TokenTables
    BY TableReplaced, RoleTableType DEF TokenTables
  <1>3. Effect(roles, tx)
            = [roles EXCEPT !["token"] = WithoutRole(roles.token, role, deployer)]
    BY <1>1, TableReplaced DEF Effect
  <1>4. Allowed(roles, tx)
    BY <1>1 DEF Allowed
  <1> QED BY <1>2, <1>3, <1>4, TableReplaced

(* setTokenContract changes no role. *)
LEMMA TokenContractSet ==
    ASSUME NEW roles \in RoleTables, deployer \in roles.attester[ADMIN_ROLE],
           NEW tx, tx = Tx("attester", "setTokenContract", ADMIN_ROLE, deployer)
    PROVE  Allowed(roles, tx) /\ Effect(roles, tx) = roles
  <1>1. tx.on = "attester" /\ tx.op = "setTokenContract"
    BY TxFields
  <1> QED BY <1>1 DEF Allowed, Effect, HasRole

-----------------------------------------------------------------------------
(* Who governs after k transactions of the script. *)

From(k, i, who) == IF k >= i THEN {who} ELSE {}
Until(k, i)     == IF k < i THEN {deployer} ELSE {}

(* A role that is granted in transaction i and renounced by the deployer in j. *)
Row(k, i, who, j) == From(k, i, who) \cup Until(k, j)

(* The validators granted so far. *)
Granted(p, k) == {p.validators[i] : i \in {j \in 1..Len(p.validators) : j + 2 <= k}}

(* The members of every role but MINTER_ROLE. *)
HandedOver(p, n, k, roles) ==
    /\ roles.attester[DEFAULT_ADMIN_ROLE] = Row(k, n + 3, p.safe, n + 10)
    /\ roles.attester[PAUSER_ROLE]        = Row(k, n + 4, p.safe, n + 9)
    /\ roles.attester[ADMIN_ROLE]         = Row(k, n + 5, p.timelock, n + 8)
    /\ roles.attester[VALIDATOR_ROLE]     = Granted(p, k)
    /\ roles.token[DEFAULT_ADMIN_ROLE]    = Row(k, n + 6, p.safe, n + 12)
    /\ roles.token[ADMIN_ROLE]            = Row(k, n + 7, p.timelock, n + 11)

Wired(k, roles) == roles.token[MINTER_ROLE] = From(k, 2, AttesterAddress)

(* What Preflight says of a plan, as far as the roles go. *)
PlanOK(p, n) ==
    /\ p.safe \in Accounts \ {deployer} /\ p.timelock \in Accounts \ {deployer}
    /\ p.safe # p.timelock
    /\ p.validators \in Seq(Accounts) /\ n = Len(p.validators)

(* The role names are different from each other. *)
LEMMA RoleNames ==
    /\ DEFAULT_ADMIN_ROLE # ADMIN_ROLE /\ DEFAULT_ADMIN_ROLE # PAUSER_ROLE
    /\ DEFAULT_ADMIN_ROLE # VALIDATOR_ROLE /\ DEFAULT_ADMIN_ROLE # MINTER_ROLE
    /\ ADMIN_ROLE # PAUSER_ROLE /\ ADMIN_ROLE # VALIDATOR_ROLE /\ ADMIN_ROLE # MINTER_ROLE
    /\ PAUSER_ROLE # VALIDATOR_ROLE
    /\ AttesterRole = {DEFAULT_ADMIN_ROLE, ADMIN_ROLE, PAUSER_ROLE, VALIDATOR_ROLE}
    /\ TokenRole = {DEFAULT_ADMIN_ROLE, ADMIN_ROLE, MINTER_ROLE}
  BY DEF DEFAULT_ADMIN_ROLE, ADMIN_ROLE, PAUSER_ROLE, VALIDATOR_ROLE, MINTER_ROLE,
         AttesterRole, TokenRole

(* The validators of a plan, one transaction after the other. *)
LEMMA GrantedStep ==
    ASSUME NEW p, NEW n \in Nat, PlanOK(p, n), NEW k \in Nat
    PROVE  /\ k + 1 \notin 3..(n + 2) => Granted(p, k + 1) = Granted(p, k)
           /\ \A i \in 1..n : k = i + 1 =>
                 Granted(p, k + 1) = Granted(p, k) \cup {p.validators[i]}
           /\ \A i \in 1..n : p.validators[i] \in Accounts
  <1>1. n = Len(p.validators) /\ \A i \in 1..n : p.validators[i] \in Accounts
    BY DEF PlanOK
  <1>2. \A x : x \in Granted(p, k) <=> \E i \in 1..n : i + 2 <= k /\ x = p.validators[i]
    BY <1>1 DEF Granted
  <1>3. \A x : x \in Granted(p, k + 1) <=> \E i \in 1..n : i + 2 <= k + 1 /\ x = p.validators[i]
    BY <1>1 DEF Granted
  <1>4. ASSUME k + 1 \notin 3..(n + 2)
        PROVE  Granted(p, k + 1) = Granted(p, k)
    <2>1. \A i \in 1..n : i + 2 <= k + 1 <=> i + 2 <= k
      BY <1>4
    <2> QED BY <1>2, <1>3, <2>1
  <1>5. ASSUME NEW i \in 1..n, k = i + 1
        PROVE  Granted(p, k + 1) = Granted(p, k) \cup {p.validators[i]}
    <2>1. \A j \in 1..n : j + 2 <= k + 1 <=> (j + 2 <= k \/ j = i)
      BY <1>5
    <2> QED BY <1>2, <1>3, <2>1
  <1> QED BY <1>1, <1>4, <1>5

(* Every transaction of the script goes through after those before it, and takes
   the roles one step further. *)
LEMMA ScriptStep ==
    ASSUME NEW p, NEW n \in Nat, PlanOK(p, n), NEW k \in 0..(n + 11),
           NEW roles \in RoleTables, HandedOver(p, n, k, roles),
           NEW tx, tx = Script(p)[k + 1]
    PROVE  /\ Allowed(roles, tx)
           /\ Effect(roles, tx) \in RoleTables
           /\ HandedOver(p, n, k + 1, Effect(roles, tx))
           /\ Wired(k, roles) => Wired(k + 1, Effect(roles, tx))
  <1> DEFINE after == Effect(roles, tx)
             a == roles.attester
             t == roles.token
  <1>a. a \in [AttesterRole -> SUBSET Accounts] /\ t \in [TokenRole -> SUBSET Accounts]
    BY TableReplaced DEF AttesterTables, TokenTables
  <1>v. /\ k + 1 \notin 3..(n + 2) => Granted(p, k + 1) = Granted(p, k)
        /\ \A i \in 1..n : k = i + 1 => Granted(p, k + 1) = Granted(p, k) \cup {p.validators[i]}
        /\ \A i \in 1..n : p.validators[i] \in Accounts
    BY GrantedStep
  <1>s. /\ p.validators \in Seq(Accounts \cup {ZeroAddress}) /\ Len(p.validators) = n
        /\ p.safe \in Accounts /\ p.timelock \in Accounts
        /\ p.safe # deployer /\ p.timelock # deployer
        /\ deployer \in Accounts /\ AttesterAddress \in Accounts
    BY AccountsAssumption, HandoffAssumption DEF PlanOK, deployer
  <1>n. k \in Nat /\ k + 1 \in Nat
    OBVIOUS
  <1> DEFINE Goal == /\ Allowed(roles, tx)
                     /\ after \in RoleTables
                     /\ HandedOver(p, n, k + 1, after)
                     /\ Wired(k, roles) => Wired(k + 1, after)
  <1> SUFFICES Goal
    OBVIOUS
  <1>f. HandedOver(p, n, k, roles)
    OBVIOUS
  <1>r1. /\ k # n + 2 /\ k # n + 9 => Row(k + 1, n + 3, p.safe, n + 10) = Row(k, n + 3, p.safe, n + 10)
         /\ k = n + 2 => Row(k + 1, n + 3, p.safe, n + 10) = Row(k, n + 3, p.safe, n + 10) \cup {p.safe}
         /\ k = n + 9 => Row(k + 1, n + 3, p.safe, n + 10) = Row(k, n + 3, p.safe, n + 10) \ {deployer}
    BY <1>n, <1>s DEF Row, From, Until
  <1>r2. /\ k # n + 3 /\ k # n + 8 => Row(k + 1, n + 4, p.safe, n + 9) = Row(k, n + 4, p.safe, n + 9)
         /\ k = n + 3 => Row(k + 1, n + 4, p.safe, n + 9) = Row(k, n + 4, p.safe, n + 9) \cup {p.safe}
         /\ k = n + 8 => Row(k + 1, n + 4, p.safe, n + 9) = Row(k, n + 4, p.safe, n + 9) \ {deployer}
    BY <1>n, <1>s DEF Row, From, Until
  <1>r3. /\ k # n + 4 /\ k # n + 7 => Row(k + 1, n + 5, p.timelock, n + 8) = Row(k, n + 5, p.timelock, n + 8)
         /\ k = n + 4 => Row(k + 1, n + 5, p.timelock, n + 8) = Row(k, n + 5, p.timelock, n + 8) \cup {p.timelock}
         /\ k = n + 7 => Row(k + 1, n + 5, p.timelock, n + 8) = Row(k, n + 5, p.timelock, n + 8) \ {deployer}
    BY <1>n, <1>s DEF Row, From, Until
  <1>r4. /\ k # n + 5 /\ k # n + 11 => Row(k + 1, n + 6, p.safe, n + 12) = Row(k, n + 6, p.safe, n + 12)
         /\ k = n + 5 => Row(k + 1, n + 6, p.safe, n + 12) = Row(k, n + 6, p.safe, n + 12) \cup {p.safe}
         /\ k = n + 11 => Row(k + 1, n + 6, p.safe, n + 12) = Row(k, n + 6, p.safe, n + 12) \ {deployer}
    BY <1>n, <1>s DEF Row, From, Until
  <1>r5. /\ k # n + 6 /\ k # n + 10 => Row(k + 1, n + 7, p.timelock, n + 11) = Row(k, n + 7, p.timelock, n + 11)
         /\ k = n + 6 => Row(k + 1, n + 7, p.timelock, n + 11) = Row(k, n + 7, p.timelock, n + 11) \cup {p.timelock}
         /\ k = n + 10 => Row(k + 1, n + 7, p.timelock, n + 11) = Row(k, n + 7, p.timelock, n + 11) \ {deployer}
    BY <1>n, <1>s DEF Row, From, Until
  <1>1. CASE k = 0
    <2>1. tx = Tx("attester", "setTokenContract", ADMIN_ROLE, deployer)
      BY <1>1, <1>s, ScriptAt
    <2>2. deployer \in a[ADMIN_ROLE]
      BY <1>1, <1>s DEF HandedOver, Row, From, Until
    <2>3. /\ Allowed(roles, tx) /\ after \in RoleTables
          /\ after.attester = a /\ after.token = t
      BY <1>s, <2>1, <2>2, TokenContractSet, RoleNames
    <2> HIDE DEF after
    <2>4. /\ after.attester[DEFAULT_ADMIN_ROLE] = a[DEFAULT_ADMIN_ROLE]
          /\ after.attester[ADMIN_ROLE] = a[ADMIN_ROLE]
          /\ after.attester[PAUSER_ROLE] = a[PAUSER_ROLE]
          /\ after.attester[VALIDATOR_ROLE] = a[VALIDATOR_ROLE]
          /\ after.token[DEFAULT_ADMIN_ROLE] = t[DEFAULT_ADMIN_ROLE]
          /\ after.token[ADMIN_ROLE] = t[ADMIN_ROLE]
          /\ after.token[MINTER_ROLE] = t[MINTER_ROLE]
      BY <1>a, <2>3, RoleNames DEF WithRole, WithoutRole
    <2>5. HandedOver(p, n, k + 1, after)
      BY <1>f, <1>r1, <1>r2, <1>r3, <1>r4, <1>r5, <1>v, <1>1, <2>4 DEF HandedOver
    <2>6. Wired(k, roles) => Wired(k + 1, after)
      BY <1>n, <1>1, <2>4 DEF Wired, From
    <2> QED BY <2>3, <2>5, <2>6
  <1>2. CASE k = 1
    <2>1. tx = Tx("token", "authorizeMinter", MINTER_ROLE, AttesterAddress)
      <3>1. Script(p)[2] = Tx("token", "authorizeMinter", MINTER_ROLE, AttesterAddress)
        BY <1>s, ScriptAt
      <3>2. k + 1 = 2
        BY <1>2
      <3> QED BY <3>1, <3>2
    <2>2. deployer \in t[DEFAULT_ADMIN_ROLE] /\ deployer \in t[ADMIN_ROLE]
      BY <1>2, <1>s DEF HandedOver, Row, From, Until
    <2>3. /\ Allowed(roles, tx) /\ after \in RoleTables
          /\ after.attester = a /\ after.token = WithRole(t, MINTER_ROLE, AttesterAddress)
      BY <1>s, <2>1, <2>2, TokenGrant, RoleNames
    <2> HIDE DEF after
    <2>4. /\ after.attester[DEFAULT_ADMIN_ROLE] = a[DEFAULT_ADMIN_ROLE]
          /\ after.attester[ADMIN_ROLE] = a[ADMIN_ROLE]
          /\ after.attester[PAUSER_ROLE] = a[PAUSER_ROLE]
          /\ after.attester[VALIDATOR_ROLE] = a[VALIDATOR_ROLE]
          /\ after.token[DEFAULT_ADMIN_ROLE] = t[DEFAULT_ADMIN_ROLE]
          /\ after.token[ADMIN_ROLE] = t[ADMIN_ROLE]
          /\ after.token[MINTER_ROLE] = t[MINTER_ROLE] \cup {AttesterAddress}
      BY <1>a, <2>3, RoleNames DEF WithRole, WithoutRole
    <2>5. HandedOver(p, n, k + 1, after)
      BY <1>f, <1>r1, <1>r2, <1>r3, <1>r4, <1>r5, <1>v, <1>2, <2>4 DEF HandedOver
    <2>6. Wired(k, roles) => Wired(k + 1, after)
      BY <1>n, <1>2, <2>4 DEF Wired, From
    <2> QED BY <2>3, <2>5, <2>6
  <1>3. CASE k = n + 2
    <2>1. tx = Tx("attester", "grant", DEFAULT_ADMIN_ROLE, p.safe)
      BY <1>3, <1>s, ScriptAt
    <2>2. deployer \in a[DEFAULT_ADMIN_ROLE]
      BY <1>3, <1>s DEF HandedOver, Row, From, Until
    <2>3. /\ Allowed(roles, tx) /\ after \in RoleTables
          /\ after.attester = WithRole(a, DEFAULT_ADMIN_ROLE, p.safe) /\ after.token = t
      BY <1>s, <2>1, <2>2, AttesterGrant, RoleNames
    <2> HIDE DEF after
    <2>4. /\ after.attester[DEFAULT_ADMIN_ROLE] = a[DEFAULT_ADMIN_ROLE] \cup {p.safe}
          /\ after.attester[ADMIN_ROLE] = a[ADMIN_ROLE]
          /\ after.attester[PAUSER_ROLE] = a[PAUSER_ROLE]
          /\ after.attester[VALIDATOR_ROLE] = a[VALIDATOR_ROLE]
          /\ after.token[DEFAULT_ADMIN_ROLE] = t[DEFAULT_ADMIN_ROLE]
          /\ after.token[ADMIN_ROLE] = t[ADMIN_ROLE]
          /\ after.token[MINTER_ROLE] = t[MINTER_ROLE]
      BY <1>a, <2>3, RoleNames DEF WithRole, WithoutRole
    <2>5. HandedOver(p, n, k + 1, after)
      BY <1>f, <1>r1, <1>r2, <1>r3, <1>r4, <1>r5, <1>v, <1>3, <2>4 DEF HandedOver
    <2>6. Wired(k, roles) => Wired(k + 1, after)
      BY <1>n, <1>3, <2>4 DEF Wired, From
    <2> QED BY <2>3, <2>5, <2>6
  <1>4. CASE k = n + 3
    <2>1. tx = Tx("attester", "grant", PAUSER_ROLE, p.safe)
      BY <1>4, <1>s, ScriptAt
    <2>2. deployer \in a[DEFAULT_ADMIN_ROLE]
      BY <1>4, <1>s DEF HandedOver, Row, From, Until
    <2>3. /\ Allowed(roles, tx) /\ after \in RoleTables
          /\ after.attester = WithRole(a, PAUSER_ROLE, p.safe) /\ after.token = t
      BY <1>s, <2>1, <2>2, AttesterGrant, RoleNames
    <2> HIDE DEF after
    <2>4. /\ after.attester[DEFAULT_ADMIN_ROLE] = a[DEFAULT_ADMIN_ROLE]
          /\ after.attester[ADMIN_ROLE] = a[ADMIN_ROLE]
          /\ after.attester[PAUSER_ROLE] = a[PAUSER_ROLE] \cup {p.safe}
          /\ after.attester[VALIDATOR_ROLE] = a[VALIDATOR_ROLE]
          /\ after.token[DEFAULT_ADMIN_ROLE] = t[DEFAULT_ADMIN_ROLE]
          /\ after.token[ADMIN_ROLE] = t[ADMIN_ROLE]
          /\ after.token[MINTER_ROLE] = t[MINTER_ROLE]
      BY <1>a, <2>3, RoleNames DEF WithRole, WithoutRole
    <2>5. HandedOver(p, n, k + 1, after)
      BY <1>f, <1>r1, <1>r2, <1>r3, <1>r4, <1>r5, <1>v, <1>4, <2>4 DEF HandedOver
    <2>6. Wired(k, roles) => Wired(k + 1, after)
      BY <1>n, <1>4, <2>4 DEF Wired, From
    <2> QED BY <2>3, <2>5, <2>6
  <1>5. CASE k = n + 4
    <2>1. tx = Tx("attester", "grant", ADMIN_ROLE, p.timelock)
      BY <1>5, <1>s, ScriptAt
    <2>2. deployer \in a[DEFAULT_ADMIN_ROLE]
      BY <1>5, <1>s DEF HandedOver, Row, From, Until
    <2>3. /\ Allowed(roles, tx) /\ after \in RoleTables
          /\ after.attester = WithRole(a, ADMIN_ROLE, p.timelock) /\ after.token = t
      BY <1>s, <2>1, <2>2, AttesterGrant, RoleNames
    <2> HIDE DEF after
    <2>4. /\ after.attester[DEFAULT_ADMIN_ROLE] = a[DEFAULT_ADMIN_ROLE]
          /\ after.attester[ADMIN_ROLE] = a[ADMIN_ROLE] \cup {p.timelock}
          /\ after.attester[PAUSER_ROLE] = a[PAUSER_ROLE]
          /\ after.attester[VALIDATOR_ROLE] = a[VALIDATOR_ROLE]
          /\ after.token[DEFAULT_ADMIN_ROLE] = t[DEFAULT_ADMIN_ROLE]
          /\ after.token[ADMIN_ROLE] = t[ADMIN_ROLE]
          /\ after.token[MINTER_ROLE] = t[MINTER_ROLE]
      BY <1>a, <2>3, RoleNames DEF WithRole, WithoutRole
    <2>5. HandedOver(p, n, k + 1, after)
      BY <1>f, <1>r1, <1>r2, <1>r3, <1>r4, <1>r5, <1>v, <1>5, <2>4 DEF HandedOver
    <2>6. Wired(k, roles) => Wired(k + 1, after)
      BY <1>n, <1>5, <2>4 DEF Wired, From
    <2> QED BY <2>3, <2>5, <2>6
  <1>6. CASE k = n + 5
    <2>1. tx = Tx("token", "grant", DEFAULT_ADMIN_ROLE, p.safe)
      BY <1>6, <1>s, ScriptAt
    <2>2. deployer \in t[DEFAULT_ADMIN_ROLE] /\ deployer \in t[ADMIN_ROLE]
      BY <1>6, <1>s DEF HandedOver, Row, From, Until
    <2>3. /\ Allowed(roles, tx) /\ after \in RoleTables
          /\ after.attester = a /\ after.token = WithRole(t, DEFAULT_ADMIN_ROLE, p.safe)
      BY <1>s, <2>1, <2>2, TokenGrant, RoleNames
    <2> HIDE DEF after
    <2>4. /\ after.attester[DEFAULT_ADMIN_ROLE] = a[DEFAULT_ADMIN_ROLE]
          /\ after.attester[ADMIN_ROLE] = a[ADMIN_ROLE]
          /\ after.attester[PAUSER_ROLE] = a[PAUSER_ROLE]
          /\ after.attester[VALIDATOR_ROLE] = a[VALIDATOR_ROLE]
          /\ after.token[DEFAULT_ADMIN_ROLE] = t[DEFAULT_ADMIN_ROLE] \cup {p.safe}
          /\ after.token[ADMIN_ROLE] = t[ADMIN_ROLE]
          /\ after.token[MINTER_ROLE] = t[MINTER_ROLE]
      BY <1>a, <2>3, RoleNames DEF WithRole, WithoutRole
    <2>5. HandedOver(p, n, k + 1, after)
      BY <1>f, <1>r1, <1>r2, <1>r3, <1>r4, <1>r5, <1>v, <1>6, <2>4 DEF HandedOver
    <2>6. Wired(k, roles) => Wired(k + 1, after)
      BY <1>n, <1>6, <2>4 DEF Wired, From
    <2> QED BY <2>3, <2>5, <2>6
  <1>7. CASE k = n + 6
    <2>1. tx = Tx("token", "grant", ADMIN_ROLE, p.timelock)
      BY <1>7, <1>s, ScriptAt
    <2>2. deployer \in t[DEFAULT_ADMIN_ROLE] /\ deployer \in t[ADMIN_ROLE]
      BY <1>7, <1>s DEF HandedOver, Row, From, Until
    <2>3. /\ Allowed(roles, tx) /\ after \in RoleTables
          /\ after.attester = a /\ after.token = WithRole(t, ADMIN_ROLE, p.timelock)
      BY <1>s, <2>1, <2>2, TokenGrant, RoleNames
    <2> HIDE DEF after
    <2>4. /\ after.attester[DEFAULT_ADMIN_ROLE] = a[DEFAULT_ADMIN_ROLE]
          /\ after.attester[ADMIN_ROLE] = a[ADMIN_ROLE]
          /\ after.attester[PAUSER_ROLE] = a[PAUSER_ROLE]
          /\ after.attester[VALIDATOR_ROLE] = a[VALIDATOR_ROLE]
          /\ after.token[DEFAULT_ADMIN_ROLE] = t[DEFAULT_ADMIN_ROLE]
          /\ after.token[ADMIN_ROLE] = t[ADMIN_ROLE] \cup {p.timelock}
          /\ after.token[MINTER_ROLE] = t[MINTER_ROLE]
      BY <1>a, <2>3, RoleNames DEF WithRole, WithoutRole
    <2>5. HandedOver(p, n, k + 1, after)
      BY <1>f, <1>r1, <1>r2, <1>r3, <1>r4, <1>r5, <1>v, <1>7, <2>4 DEF HandedOver
    <2>6. Wired(k, roles) => Wired(k + 1, after)
      BY <1>n, <1>7, <2>4 DEF Wired, From
    <2> QED BY <2>3, <2>5, <2>6
  <1>8. CASE k = n + 7
    <2>1. tx = Tx("attester", "renounce", ADMIN_ROLE, deployer)
      BY <1>8, <1>s, ScriptAt
    <2>3. /\ Allowed(roles, tx) /\ after \in RoleTables
          /\ after.attester = WithoutRole(a, ADMIN_ROLE, deployer) /\ after.token = t
      BY <1>s, <2>1, AttesterRenounce, RoleNames
    <2> HIDE DEF after
    <2>4. /\ after.attester[DEFAULT_ADMIN_ROLE] = a[DEFAULT_ADMIN_ROLE]
          /\ after.attester[ADMIN_ROLE] = a[ADMIN_ROLE] \ {deployer}
          /\ after.attester[PAUSER_ROLE] = a[PAUSER_ROLE]
          /\ after.attester[VALIDATOR_ROLE] = a[VALIDATOR_ROLE]
          /\ after.token[DEFAULT_ADMIN_ROLE] = t[DEFAULT_ADMIN_ROLE]
          /\ after.token[ADMIN_ROLE] = t[ADMIN_ROLE]
          /\ after.token[MINTER_ROLE] = t[MINTER_ROLE]
      BY <1>a, <2>3, RoleNames DEF WithRole, WithoutRole
    <2>5. HandedOver(p, n, k + 1, after)
      BY <1>f, <1>r1, <1>r2, <1>r3, <1>r4, <1>r5, <1>v, <1>8, <2>4 DEF HandedOver
    <2>6. Wired(k, roles) => Wired(k + 1, after)
      BY <1>n, <1>8, <2>4 DEF Wired, From
    <2> QED BY <2>3, <2>5, <2>6
  <1>9. CASE k = n + 8
    <2>1. tx = Tx("attester", "renounce", PAUSER_ROLE, deployer)
      BY <1>9, <1>s, ScriptAt
    <2>3. /\ Allowed(roles, tx) /\ after \in RoleTables
          /\ after.attester = WithoutRole(a, PAUSER_ROLE, deployer) /\ after.token = t
      BY <1>s, <2>1, AttesterRenounce, RoleNames
    <2> HIDE DEF after
    <2>4. /\ after.attester[DEFAULT_ADMIN_ROLE] = a[DEFAULT_ADMIN_ROLE]
          /\ after.attester[ADMIN_ROLE] = a[ADMIN_ROLE]
          /\ after.attester[PAUSER_ROLE] = a[PAUSER_ROLE] \ {deployer}
          /\ after.attester[VALIDATOR_ROLE] = a[VALIDATOR_ROLE]
          /\ after.token[DEFAULT_ADMIN_ROLE] = t[DEFAULT_ADMIN_ROLE]
          /\ after.token[ADMIN_ROLE] = t[ADMIN_ROLE]
          /\ after.token[MINTER_ROLE] = t[MINTER_ROLE]
      BY <1>a, <2>3, RoleNames DEF WithRole, WithoutRole
    <2>5. HandedOver(p, n, k + 1, after)
      BY <1>f, <1>r1, <1>r2, <1>r3, <1>r4, <1>r5, <1>v, <1>9, <2>4 DEF HandedOver
    <2>6. Wired(k, roles) => Wired(k + 1, after)
      BY <1>n, <1>9, <2>4 DEF Wired, From
    <2> QED BY <2>3, <2>5, <2>6
  <1>10. CASE k = n + 9
    <2>1. tx = Tx("attester", "renounce", DEFAULT_ADMIN_ROLE, deployer)
      BY <1>10, <1>s, ScriptAt
    <2>3. /\ Allowed(roles, tx) /\ after \in RoleTables
          /\ after.attester = WithoutRole(a, DEFAULT_ADMIN_ROLE, deployer) /\ after.token = t
      BY <1>s, <2>1, AttesterRenounce, RoleNames
    <2> HIDE DEF after
    <2>4. /\ after.attester[DEFAULT_ADMIN_ROLE] = a[DEFAULT_ADMIN_ROLE] \ {deployer}
          /\ after.attester[ADMIN_ROLE] = a[ADMIN_ROLE]
          /\ after.attester[PAUSER_ROLE] = a[PAUSER_ROLE]
          /\ after.attester[VALIDATOR_ROLE] = a[VALIDATOR_ROLE]
          /\ after.token[DEFAULT_ADMIN_ROLE] = t[DEFAULT_ADMIN_ROLE]
          /\ after.token[ADMIN_ROLE] = t[ADMIN_ROLE]
          /\ after.token[MINTER_ROLE] = t[MINTER_ROLE]
      BY <1>a, <2>3, RoleNames DEF WithRole, WithoutRole
    <2>5. HandedOver(p, n, k + 1, after)
      BY <1>f, <1>r1, <1>r2, <1>r3, <1>r4, <1>r5, <1>v, <1>10, <2>4 DEF HandedOver
    <2>6. Wired(k, roles) => Wired(k + 1, after)
      BY <1>n, <1>10, <2>4 DEF Wired, From
    <2> QED BY <2>3, <2>5, <2>6
  <1>11. CASE k = n + 10
    <2>1. tx = Tx("token", "renounce", ADMIN_ROLE, deployer)
      BY <1>11, <1>s, ScriptAt
    <2>3. /\ Allowed(roles, tx) /\ after \in RoleTables
          /\ after.attester = a /\ after.token = WithoutRole(t, ADMIN_ROLE, deployer)
      BY <1>s, <2>1, TokenRenounce, RoleNames
    <2> HIDE DEF after
    <2>4. /\ after.attester[DEFAULT_ADMIN_ROLE] = a[DEFAULT_ADMIN_ROLE]
          /\ after.attester[ADMIN_ROLE] = a[ADMIN_ROLE]
          /\ after.attester[PAUSER_ROLE] = a[PAUSER_ROLE]
          /\ after.attester[VALIDATOR_ROLE] = a[VALIDATOR_ROLE]
          /\ after.token[DEFAULT_ADMIN_ROLE] = t[DEFAULT_ADMIN_ROLE]
          /\ after.token[ADMIN_ROLE] = t[ADMIN_ROLE] \ {deployer}
          /\ after.token[MINTER_ROLE] = t[MINTER_ROLE]
      BY <1>a, <2>3, RoleNames DEF WithRole, WithoutRole
    <2>5. HandedOver(p, n, k + 1, after)
      BY <1>f, <1>r1, <1>r2, <1>r3, <1>r4, <1>r5, <1>v, <1>11, <2>4 DEF HandedOver
    <2>6. Wired(k, roles) => Wired(k + 1, after)
      BY <1>n, <1>11, <2>4 DEF Wired, From
    <2> QED BY <2>3, <2>5, <2>6
  <1>12. CASE k = n + 11
    <2>1. tx = Tx("token", "renounce", DEFAULT_ADMIN_ROLE, deployer)
      BY <1>12, <1>s, ScriptAt
    <2>3. /\ Allowed(roles, tx) /\ after \in RoleTables
          /\ after.attester = a /\ after.token = WithoutRole(t, DEFAULT_ADMIN_ROLE, deployer)
      BY <1>s, <2>1, TokenRenounce, RoleNames
    <2> HIDE DEF after
    <2>4. /\ after.attester[DEFAULT_ADMIN_ROLE] = a[DEFAULT_ADMIN_ROLE]
          /\ after.attester[ADMIN_ROLE] = a[ADMIN_ROLE]
          /\ after.attester[PAUSER_ROLE] = a[PAUSER_ROLE]
          /\ after.attester[VALIDATOR_ROLE] = a[VALIDATOR_ROLE]
          /\ after.token[DEFAULT_ADMIN_ROLE] = t[DEFAULT_ADMIN_ROLE] \ {deployer}
          /\ after.token[ADMIN_ROLE] = t[ADMIN_ROLE]
          /\ after.token[MINTER_ROLE] = t[MINTER_ROLE]
      BY <1>a, <2>3, RoleNames DEF WithRole, WithoutRole
    <2>5. HandedOver(p, n, k + 1, after)
      BY <1>f, <1>r1, <1>r2, <1>r3, <1>r4, <1>r5, <1>v, <1>12, <2>4 DEF HandedOver
    <2>6. Wired(k, roles) => Wired(k + 1, after)
      BY <1>n, <1>12, <2>4 DEF Wired, From
    <2> QED BY <2>3, <2>5, <2>6
  <1>13. ASSUME NEW i \in 1..n, k = i + 1
         PROVE  Goal
    <2>1. tx = Tx("attester", "grant", VALIDATOR_ROLE, p.validators[i])
      <3>1. Script(p)[2 + i] = Tx("attester", "grant", VALIDATOR_ROLE, p.validators[i])
        BY <1>s, ScriptAt
      <3>2. k + 1 = 2 + i
        BY <1>13
      <3> QED BY <3>1, <3>2
    <2>2. deployer \in a[DEFAULT_ADMIN_ROLE]
      BY <1>13, <1>s DEF HandedOver, Row, From, Until
    <2>3. /\ Allowed(roles, tx) /\ after \in RoleTables
          /\ after.attester = WithRole(a, VALIDATOR_ROLE, p.validators[i]) /\ after.token = t
      BY <1>s, <1>v, <2>1, <2>2, AttesterGrant, RoleNames
    <2> HIDE DEF after
    <2>4. /\ after.attester[DEFAULT_ADMIN_ROLE] = a[DEFAULT_ADMIN_ROLE]
          /\ after.attester[ADMIN_ROLE] = a[ADMIN_ROLE]
          /\ after.attester[PAUSER_ROLE] = a[PAUSER_ROLE]
          /\ after.attester[VALIDATOR_ROLE] = a[VALIDATOR_ROLE] \cup {p.validators[i]}
          /\ after.token[DEFAULT_ADMIN_ROLE] = t[DEFAULT_ADMIN_ROLE]
          /\ after.token[ADMIN_ROLE] = t[ADMIN_ROLE]
          /\ after.token[MINTER_ROLE] = t[MINTER_ROLE]
      BY <1>a, <2>3, RoleNames DEF WithRole, WithoutRole
    <2>5. HandedOver(p, n, k + 1, after)
      <3>1. Granted(p, k + 1) = Granted(p, k) \cup {p.validators[i]}
        BY <1>v, <1>13
      <3>2. k + 1 <= n + 2
        BY <1>13
      <3> QED BY <1>f, <1>r1, <1>r2, <1>r3, <1>r4, <1>r5, <1>n, <2>4, <3>1, <3>2 DEF HandedOver
    <2>6. Wired(k, roles) => Wired(k + 1, after)
      BY <1>n, <1>13, <2>4 DEF Wired, From
    <2> QED BY <2>3, <2>5, <2>6
  <1>14. \/ k \in {0, 1, n + 2, n + 3, n + 4, n + 5, n + 6, n + 7, n + 8, n + 9, n + 10, n + 11}
         \/ \E i \in 1..n : k = i + 1
    <2>1. CASE k \in 2..(n + 1)
      <3>1. k - 1 \in 1..n /\ k = (k - 1) + 1
        BY <2>1
      <3> QED BY <3>1
    <2> QED BY <2>1
  <1> HIDE DEF Goal
  <1> QED BY <1>1, <1>2, <1>3, <1>4, <1>5, <1>6, <1>7, <1>8, <1>9, <1>10, <1>11, <1>12, <1>13, <1>14

-----------------------------------------------------------------------------
(* The inductive invariant. *)

HandoffTypes ==
    /\ TokenTypeOK /\ SupplyCapped /\ SupplyIsHeld
    /\ attesterRoles \in AttesterTables
    /\ plan \in Plans
    /\ phase \in {"start", "refused", "broadcast", "stopped", "reverted", "complete"}
    /\ step \in Nat /\ now \in Nat
    /\ queue \subseteq [act : {"authorizeMinter", "revokeMinter"}, minter : Minters, at : Nat]

(* What a plan that passed the simulation is known to be. *)
Checked(p) ==
    /\ PlanOK(p, Len(p.validators))
    /\ p.safe \notin Callers /\ p.timelock \notin Callers
    /\ p.delay >= MinDelay
    /\ IsInjective(p.validators)
    /\ Len(p.validators) >= p.threshold
    /\ \A i \in DOMAIN p.validators : p.validators[i] # deployer

(* How far the script is. *)
ScriptSound ==
    /\ phase \notin {"start", "refused"} => Checked(plan)
    /\ phase \in {"start", "refused"} => step = 1
    /\ phase \in {"broadcast", "stopped"} => step \in 1..(Len(plan.validators) + 12)
    /\ phase = "complete" => step = Len(plan.validators) + 13
    /\ queue # {} => phase = "complete"

(* Unless somebody meddled, the roles are where the script has brought them; only
   MINTER_ROLE moves on after the end of it. *)
RolesSound ==
    ~meddled =>
        /\ phase # "reverted"
        /\ HandedOver(plan, Len(plan.validators), step - 1, Roles)
        /\ phase # "complete" => Wired(step - 1, Roles)
        /\ minters \subseteq {AttesterAddress} \cup Minters

HandoffInv == HandoffTypes /\ ScriptSound /\ RolesSound

(* There is one token. *)
LEMMA TheToken == theToken \in Tokens /\ Tokens = {theToken}
  BY HandoffAssumption DEF theToken

(* The plan's validators are a list of addresses. *)
LEMMA PlanTypes ==
    ASSUME NEW p \in Plans
    PROVE  /\ p.validators \in Seq(Accounts \cup {ZeroAddress})
           /\ Len(p.validators) \in Nat
           /\ p.delay \in Nat /\ p.threshold \in Nat
  BY HandoffAssumption

(* Three addresses make a set of three only when they differ. *)
LEMMA ThreeDiffer ==
    ASSUME NEW a, NEW b, NEW c, Cardinality({a, b, c}) = 3
    PROVE  a # b /\ a # c /\ b # c
  <1>1. \A x, y : IsFiniteSet({x, y}) /\ Cardinality({x, y}) <= 2 /\ Cardinality({x, y}) \in Nat
    <2> TAKE x, y
    <2>1. IsFiniteSet({x}) /\ Cardinality({x}) = 1
      BY FS_Singleton
    <2>2. /\ IsFiniteSet({x} \cup {y})
          /\ Cardinality({x} \cup {y}) = IF y \in {x} THEN Cardinality({x}) ELSE Cardinality({x}) + 1
      BY <2>1, FS_AddElement
    <2>3. {x, y} = {x} \cup {y}
      OBVIOUS
    <2> QED BY <2>1, <2>2, <2>3
  <1>2. a = b => {a, b, c} = {b, c}
    OBVIOUS
  <1>3. a = c => {a, b, c} = {b, c}
    OBVIOUS
  <1>4. b = c => {a, b, c} = {a, c}
    OBVIOUS
  <1>5. \A x, y : Cardinality({x, y}) # 3
    BY <1>1
  <1> QED BY <1>2, <1>3, <1>4, <1>5

(* The requires of run() and the checks of _verifyHandoff establish Checked. *)
LEMMA SimulatedIsChecked ==
    ASSUME NEW p \in Plans, Simulates(p)
    PROVE  Checked(p)
  <1>1. PICK roles : Preflight(p) /\ VerifyHandoff(roles, p)
    BY DEF Simulates
  <1>2. p.safe \in Accounts \ Callers /\ p.timelock \in Accounts \ Callers
    BY <1>1, HandoffAssumption DEF Preflight
  <1>3. p.safe # p.timelock /\ p.safe # deployer /\ p.timelock # deployer
    BY <1>1, ThreeDiffer DEF Preflight
  <1>4. p.validators \in Seq(Accounts)
    <2>1. p.validators \in Seq(Accounts \cup {ZeroAddress})
      BY PlanTypes
    <2>2. \A i \in DOMAIN p.validators : p.validators[i] # ZeroAddress
      BY <1>1 DEF Preflight, Range
    <2> QED BY <2>1, <2>2
  <1>5. \A i \in DOMAIN p.validators : p.validators[i] # deployer
    <2>1. ~HasRole(roles.attester, VALIDATOR_ROLE, deployer)
      BY <1>1, RoleNames DEF VerifyHandoff
    <2>2. \A i \in DOMAIN p.validators : HasRole(roles.attester, VALIDATOR_ROLE, p.validators[i])
      BY <1>1 DEF VerifyHandoff
    <2> QED BY <2>1, <2>2
  <1>6. p.delay >= MinDelay /\ IsInjective(p.validators) /\ Len(p.validators) >= p.threshold
    BY <1>1 DEF Preflight
  <1> QED BY <1>2, <1>3, <1>4, <1>5, <1>6 DEF Checked, PlanOK

(* The role tables as a record. *)
LEMMA RolesType ==
    ASSUME HandoffTypes
    PROVE  /\ Roles \in RoleTables
           /\ Roles.attester = attesterRoles /\ Roles.token = tokenRoles[theToken]
           /\ Roles["attester"] = attesterRoles /\ Roles["token"] = tokenRoles[theToken]
  <1>1. attesterRoles \in AttesterTables /\ tokenRoles[theToken] \in TokenTables
    BY TheToken DEF HandoffTypes, TokenTypeOK, TokenTables
  <1> HIDE DEF AttesterTables, TokenTables
  <1> QED BY <1>1 DEF Roles, RoleTables

(* Any transaction of the script leaves well-formed tables. *)
LEMMA EffectType ==
    ASSUME NEW roles \in RoleTables, NEW on, NEW op, NEW role, NEW who \in Accounts,
           \/ on = "attester" /\ role \in AttesterRole
           \/ on = "token" /\ role \in TokenRole,
           op \in {"grant", "authorizeMinter", "renounce", "setTokenContract"}
    PROVE  Effect(roles, Tx(on, op, role, who)) \in RoleTables
  <1> PICK tx : tx = Tx(on, op, role, who)
    OBVIOUS
  <1>1. tx.on = on /\ tx.op = op /\ tx.role = role /\ tx.who = who
    BY TxFields
  <1>2. CASE on = "attester" /\ role \in AttesterRole
    <2>1. /\ WithRole(roles.attester, role, who) \in AttesterTables
          /\ WithoutRole(roles.attester, role, who) \in AttesterTables
      BY <1>2, TableReplaced, RoleTableType DEF AttesterTables
    <2>2. \/ Effect(roles, tx) = roles
          \/ Effect(roles, tx) = [roles EXCEPT !["attester"] = WithRole(roles.attester, role, who)]
          \/ Effect(roles, tx) = [roles EXCEPT !["attester"] = WithoutRole(roles.attester, role, who)]
      BY <1>1, <1>2, TableReplaced DEF Effect
    <2> QED BY <2>1, <2>2, TableReplaced
  <1>3. CASE on = "token" /\ role \in TokenRole
    <2>1. /\ WithRole(roles.token, role, who) \in TokenTables
          /\ WithoutRole(roles.token, role, who) \in TokenTables
      BY <1>3, TableReplaced, RoleTableType DEF TokenTables
    <2>2. \/ Effect(roles, tx) = roles
          \/ Effect(roles, tx) = [roles EXCEPT !["token"] = WithRole(roles.token, role, who)]
          \/ Effect(roles, tx) = [roles EXCEPT !["token"] = WithoutRole(roles.token, role, who)]
      BY <1>1, <1>3, TableReplaced DEF Effect
    <2> QED BY <2>1, <2>2, TableReplaced
  <1> QED BY <1>2, <1>3

(* So does any transaction, at its place in the script. *)
LEMMA ScriptType ==
    ASSUME NEW p, NEW n \in Nat, PlanOK(p, n), NEW k \in 1..(n + 12), NEW roles \in RoleTables
    PROVE  Effect(roles, Script(p)[k]) \in RoleTables
  <1>s. /\ p.validators \in Seq(Accounts \cup {ZeroAddress}) /\ Len(p.validators) = n
        /\ p.safe \in Accounts /\ p.timelock \in Accounts
        /\ deployer \in Accounts /\ AttesterAddress \in Accounts
        /\ \A i \in 1..n : p.validators[i] \in Accounts
    BY AccountsAssumption, HandoffAssumption DEF PlanOK, deployer
  <1>1. \A op \in {"grant", "authorizeMinter", "renounce", "setTokenContract"}, who \in Accounts :
           /\ \A role \in AttesterRole : Effect(roles, Tx("attester", op, role, who)) \in RoleTables
           /\ \A role \in TokenRole : Effect(roles, Tx("token", op, role, who)) \in RoleTables
    BY EffectType
  <1>2. /\ DEFAULT_ADMIN_ROLE \in AttesterRole /\ ADMIN_ROLE \in AttesterRole
        /\ PAUSER_ROLE \in AttesterRole /\ VALIDATOR_ROLE \in AttesterRole
        /\ DEFAULT_ADMIN_ROLE \in TokenRole /\ ADMIN_ROLE \in TokenRole /\ MINTER_ROLE \in TokenRole
    BY RoleNames
  <1>3. CASE k \in 3..(n + 2)
    <2>1. k - 2 \in 1..n /\ k = 2 + (k - 2)
      BY <1>3
    <2>2. Script(p)[k] = Tx("attester", "grant", VALIDATOR_ROLE, p.validators[k - 2])
      BY <1>s, <2>1, ScriptAt
    <2> QED BY <1>s, <1>1, <1>2, <2>1, <2>2
  <1>4. /\ Script(p)[1] = Tx("attester", "setTokenContract", ADMIN_ROLE, deployer)
        /\ Script(p)[2] = Tx("token", "authorizeMinter", MINTER_ROLE, AttesterAddress)
        /\ Script(p)[n + 3] = Tx("attester", "grant", DEFAULT_ADMIN_ROLE, p.safe)
        /\ Script(p)[n + 4] = Tx("attester", "grant", PAUSER_ROLE, p.safe)
        /\ Script(p)[n + 5] = Tx("attester", "grant", ADMIN_ROLE, p.timelock)
        /\ Script(p)[n + 6] = Tx("token", "grant", DEFAULT_ADMIN_ROLE, p.safe)
        /\ Script(p)[n + 7] = Tx("token", "grant", ADMIN_ROLE, p.timelock)
        /\ Script(p)[n + 8] = Tx("attester", "renounce", ADMIN_ROLE, deployer)
        /\ Script(p)[n + 9] = Tx("attester", "renounce", PAUSER_ROLE, deployer)
        /\ Script(p)[n + 10] = Tx("attester", "renounce", DEFAULT_ADMIN_ROLE, deployer)
        /\ Script(p)[n + 11] = Tx("token", "renounce", ADMIN_ROLE, deployer)
        /\ Script(p)[n + 12] = Tx("token", "renounce", DEFAULT_ADMIN_ROLE, deployer)
    BY <1>s, ScriptAt
  <1>5. /\ Effect(roles, Tx("attester", "setTokenContract", ADMIN_ROLE, deployer)) \in RoleTables
        /\ Effect(roles, Tx("token", "authorizeMinter", MINTER_ROLE, AttesterAddress)) \in RoleTables
        /\ Effect(roles, Tx("attester", "grant", DEFAULT_ADMIN_ROLE, p.safe)) \in RoleTables
        /\ Effect(roles, Tx("attester", "grant", PAUSER_ROLE, p.safe)) \in RoleTables
        /\ Effect(roles, Tx("attester", "grant", ADMIN_ROLE, p.timelock)) \in RoleTables
        /\ Effect(roles, Tx("token", "grant", DEFAULT_ADMIN_ROLE, p.safe)) \in RoleTables
        /\ Effect(roles, Tx("token", "grant", ADMIN_ROLE, p.timelock)) \in RoleTables
        /\ Effect(roles, Tx("attester", "renounce", ADMIN_ROLE, deployer)) \in RoleTables
        /\ Effect(roles, Tx("attester", "renounce", PAUSER_ROLE, deployer)) \in RoleTables
        /\ Effect(roles, Tx("attester", "renounce", DEFAULT_ADMIN_ROLE, deployer)) \in RoleTables
        /\ Effect(roles, Tx("token", "renounce", ADMIN_ROLE, deployer)) \in RoleTables
        /\ Effect(roles, Tx("token", "renounce", DEFAULT_ADMIN_ROLE, deployer)) \in RoleTables
    BY <1>s, <1>1, <1>2
  <1>6. CASE k \in {1, 2, n + 3, n + 4, n + 5, n + 6, n + 7, n + 8, n + 9, n + 10, n + 11, n + 12}
    BY <1>4, <1>5, <1>6
  <1> QED BY <1>3, <1>6

-----------------------------------------------------------------------------
(* The steps. *)

(* A step that writes one table of roles of the token and no balance. *)
LEMMA TableWritten ==
    ASSUME TokenTypeOK, SupplyCapped, SupplyIsHeld, NEW table \in TokenTables,
           tokenRoles' = [tokenRoles EXCEPT ![theToken] = table],
           UNCHANGED <<balanceOf, totalSupply>>
    PROVE  /\ TokenTypeOK' /\ SupplyCapped' /\ SupplyIsHeld'
           /\ tokenRoles'[theToken] = table
  <1>1. TokenTypeOK' /\ SupplyCapped'
    BY TheToken, TokenRoleStep DEF TokenTables
  <1>2. SupplyIsHeld'
    BY DEF SupplyIsHeld
  <1>3. tokenRoles'[theToken] = table
    BY TheToken DEF TokenTypeOK
  <1> QED BY <1>1, <1>2, <1>3

(* The roles after a step that leaves both tables alone. *)
LEMMA RolesKept ==
    ASSUME UNCHANGED <<attesterRoles, tokenRoles, plan>>
    PROVE  Roles' = Roles /\ minters' = minters
  BY DEF Roles, minters

(* The constructors. *)
LEMMA HandoffInit == Init => HandoffInv
  <1> SUFFICES ASSUME Init
               PROVE  HandoffInv
    OBVIOUS
  <1>1. TokenTypeOK /\ SupplyCapped /\ SupplyIsHeld
    BY TokenInitSafe, TokenInitHeld DEF Init
  <1>2. attesterRoles \in AttesterTables
    BY AccountsAssumption DEF Init, Deployed, AttesterTables, deployer
  <1>3. HandoffTypes
    BY <1>1, <1>2 DEF Init, HandoffTypes
  <1>4. ScriptSound
    BY DEF Init, ScriptSound
  <1>5. RolesSound
    <2> PICK n \in Nat : n = Len(plan.validators)
      BY PlanTypes DEF Init
    <2>1. Roles.attester = attesterRoles /\ Roles.token = tokenRoles[theToken]
      BY <1>3, RolesType
    <2>2. /\ attesterRoles[DEFAULT_ADMIN_ROLE] = {deployer}
          /\ attesterRoles[PAUSER_ROLE] = {deployer}
          /\ attesterRoles[ADMIN_ROLE] = {deployer}
          /\ attesterRoles[VALIDATOR_ROLE] = {}
      BY RoleNames DEF Init, Deployed
    <2>3. /\ tokenRoles[theToken][DEFAULT_ADMIN_ROLE] = {deployer}
          /\ tokenRoles[theToken][ADMIN_ROLE] = {deployer}
          /\ tokenRoles[theToken][MINTER_ROLE] = {}
      BY TheToken, RoleNames DEF Init, TokenInit, deployer
    <2>4. Granted(plan, 0) = {}
      BY DEF Granted
    <2>5. HandedOver(plan, n, 0, Roles)
      BY <2>1, <2>2, <2>3, <2>4 DEF HandedOver, Row, From, Until
    <2>6. Wired(0, Roles)
      BY <2>1, <2>3 DEF Wired, From
    <2>7. step - 1 = 0 /\ phase = "start" /\ minters = {}
      BY <2>3 DEF Init, minters
    <2> QED BY <2>5, <2>6, <2>7 DEF RolesSound
  <1> QED BY <1>3, <1>4, <1>5 DEF HandoffInv

(* The simulation decides; the roles stay. *)
LEMMA SimulateStep == HandoffInv /\ Simulate => HandoffInv'
  <1> SUFFICES ASSUME HandoffInv, Simulate
               PROVE  HandoffInv'
    OBVIOUS
  <1> USE DEF HandoffInv
  <1>1. /\ phase = "start" /\ step = 1 /\ step' = 1 /\ plan' = plan /\ queue' = queue
        /\ phase' \in {"broadcast", "refused"} /\ meddled' = meddled
        /\ phase' = "broadcast" => Simulates(plan)
    BY DEF Simulate, ScriptSound
  <1>2. HandoffTypes'
    BY <1>1 DEF Simulate, tokenVars, HandoffTypes, TokenTypeOK, SupplyCapped, SupplyIsHeld
  <1>3. phase' = "broadcast" => Checked(plan)
    BY <1>1, SimulatedIsChecked DEF HandoffTypes
  <1>4. Len(plan.validators) \in Nat
    BY PlanTypes DEF HandoffTypes
  <1>5. ScriptSound'
    BY <1>1, <1>3, <1>4 DEF ScriptSound
  <1>6. Roles' = Roles /\ minters' = minters
    BY RolesKept DEF Simulate, tokenVars
  <1>7. RolesSound'
    BY <1>1, <1>6 DEF RolesSound
  <1> QED BY <1>2, <1>5, <1>7

(* Stopping, resuming and the clock touch no role. *)
LEMMA IdleStep == HandoffInv /\ (StopOrResume \/ Tick) => HandoffInv'
  <1> SUFFICES ASSUME HandoffInv, StopOrResume \/ Tick
               PROVE  HandoffInv'
    OBVIOUS
  <1> USE DEF HandoffInv
  <1>1. /\ UNCHANGED <<tokenVars, attesterRoles, plan, step, queue, meddled>>
        /\ \/ phase = "broadcast" /\ phase' = "stopped" /\ now' = now
           \/ phase = "stopped" /\ phase' = "broadcast" /\ now' = now
           \/ phase = "complete" /\ phase' = "complete" /\ now' = now + 1
    BY DEF StopOrResume, Tick, script
  <1>2. HandoffTypes'
    BY <1>1 DEF tokenVars, HandoffTypes, TokenTypeOK, SupplyCapped, SupplyIsHeld
  <1>3. ScriptSound'
    BY <1>1 DEF ScriptSound
  <1>4. Roles' = Roles /\ minters' = minters
    BY <1>1, RolesKept DEF tokenVars
  <1>5. RolesSound'
    BY <1>1, <1>4 DEF RolesSound
  <1> QED BY <1>2, <1>3, <1>5

(* The Safe schedules an operation with the timelock. *)
LEMMA ScheduleStep ==
    ASSUME HandoffInv, NEW act \in {"authorizeMinter", "revokeMinter"}, NEW m \in Minters,
           Schedule(act, m)
    PROVE  HandoffInv'
  <1> USE DEF HandoffInv
  <1>1. /\ UNCHANGED <<tokenVars, attesterRoles, plan, step, phase, meddled, now>>
        /\ phase = "complete" /\ queue' = {[act |-> act, minter |-> m, at |-> now]}
    BY DEF Schedule, script
  <1>2. HandoffTypes'
    BY <1>1 DEF tokenVars, HandoffTypes, TokenTypeOK, SupplyCapped, SupplyIsHeld
  <1>3. ScriptSound'
    BY <1>1 DEF ScriptSound
  <1>4. Roles' = Roles /\ minters' = minters
    BY <1>1, RolesKept DEF tokenVars
  <1>5. RolesSound'
    BY <1>1, <1>4 DEF RolesSound
  <1> QED BY <1>2, <1>3, <1>5

(* The next transaction of the script is mined, or reverts. *)
LEMMA BroadcastStep == HandoffInv /\ Broadcast => HandoffInv'
  <1> SUFFICES ASSUME HandoffInv, Broadcast
               PROVE  HandoffInv'
    OBVIOUS
  <1> USE DEF HandoffInv
  <1> PICK n \in Nat : n = Len(plan.validators)
    BY PlanTypes DEF HandoffTypes
  <1> PICK tx : tx = Script(plan)[step]
    OBVIOUS
  <1> PICK after : after = Effect(Roles, tx)
    OBVIOUS
  <1>1. /\ phase = "broadcast" /\ step \in 1..(n + 12) /\ Checked(plan) /\ PlanOK(plan, n)
        /\ queue = {}
    BY DEF Broadcast, ScriptSound, Checked
  <1>2. /\ UNCHANGED <<balanceOf, totalSupply, plan, now, queue, meddled>>
        /\ \/ /\ Allowed(Roles, tx)
              /\ attesterRoles' = after.attester
              /\ tokenRoles' = [tokenRoles EXCEPT ![theToken] = after.token]
              /\ step' = step + 1
              /\ phase' = IF step = Len(Script(plan)) THEN "complete" ELSE "broadcast"
           \/ /\ ~Allowed(Roles, tx)
              /\ phase' = "reverted" /\ UNCHANGED <<attesterRoles, tokenRoles, step>>
    BY DEF Broadcast
  <1>3. Roles \in RoleTables /\ Roles.token = tokenRoles[theToken]
    BY RolesType
  <1>4. after \in RoleTables
    BY <1>1, <1>3, ScriptType
  <1>5. Len(Script(plan)) = n + 12
    BY <1>1, PlanTypes, ScriptAt DEF HandoffTypes
  <1>6. ~meddled => /\ Allowed(Roles, tx)
                    /\ HandedOver(plan, n, step, after)
                    /\ Wired(step, after)
    <2> SUFFICES ASSUME ~meddled
                 PROVE  /\ Allowed(Roles, tx)
                        /\ HandedOver(plan, n, step, after)
                        /\ Wired(step, after)
      OBVIOUS
    <2>1. PICK k \in 0..(n + 11) : k = step - 1
      BY <1>1
    <2>2. HandedOver(plan, n, k, Roles) /\ Wired(k, Roles) /\ step = k + 1
      BY <1>1, <2>1 DEF RolesSound
    <2>3. tx = Script(plan)[k + 1]
      BY <2>2
    <2> QED BY <1>1, <1>3, <2>2, <2>3, ScriptStep
  <1>7. CASE Allowed(Roles, tx)
    <2>1. /\ attesterRoles' = after.attester
          /\ tokenRoles' = [tokenRoles EXCEPT ![theToken] = after.token]
          /\ step' = step + 1
          /\ phase' = IF step = Len(Script(plan)) THEN "complete" ELSE "broadcast"
      BY <1>2, <1>7
    <2>2. after.attester \in AttesterTables /\ after.token \in TokenTables
      BY <1>4, TableReplaced
    <2>3. /\ TokenTypeOK' /\ SupplyCapped' /\ SupplyIsHeld'
          /\ tokenRoles'[theToken] = after.token
      BY <1>2, <2>1, <2>2, TableWritten DEF HandoffTypes
    <2>4. HandoffTypes'
      BY <1>1, <1>2, <2>1, <2>2, <2>3 DEF HandoffTypes
    <2>5. ScriptSound'
      BY <1>1, <1>2, <1>5, <2>1 DEF ScriptSound
    <2>6. Roles'.attester = after.attester /\ Roles'.token = after.token
      BY <2>1, <2>3 DEF Roles
    <2>7. step' - 1 = step /\ plan' = plan /\ meddled' = meddled
      BY <1>1, <1>2, <2>1
    <2>8. RolesSound'
      <3> SUFFICES ASSUME ~meddled'
                   PROVE  /\ phase' # "reverted"
                          /\ HandedOver(plan, n, step, Roles')
                          /\ Wired(step, Roles')
                          /\ minters' \subseteq {AttesterAddress} \cup Minters
        BY <2>7 DEF RolesSound
      <3>1. HandedOver(plan, n, step, after) /\ Wired(step, after)
        BY <1>6, <2>7
      <3>2. HandedOver(plan, n, step, Roles') /\ Wired(step, Roles')
        BY <2>6, <3>1 DEF HandedOver, Wired
      <3>3. minters' \subseteq {AttesterAddress}
        BY <2>3, <3>1 DEF minters, Wired, From
      <3> QED BY <2>1, <3>2, <3>3
    <2> QED BY <2>4, <2>5, <2>8
  <1>8. CASE ~Allowed(Roles, tx)
    <2>1. meddled /\ meddled' = meddled /\ phase' = "reverted"
          /\ UNCHANGED <<attesterRoles, tokenRoles, step>>
      BY <1>2, <1>6, <1>8
    <2>2. HandoffTypes'
      BY <1>2, <2>1 DEF HandoffTypes, TokenTypeOK, SupplyCapped, SupplyIsHeld
    <2>3. ScriptSound'
      BY <1>1, <1>2, <2>1 DEF ScriptSound
    <2> QED BY <2>1, <2>2, <2>3 DEF RolesSound
  <1> QED BY <1>7, <1>8

(* The Safe changes a role by hand. *)
LEMMA SafeStep ==
    ASSUME HandoffInv, NEW op \in SafeOps, SafeChanges(op[1], op[2], op[3])
    PROVE  HandoffInv'
  <1> USE DEF HandoffInv
  <1>1. /\ op[3] \in Accounts
        /\ \/ op[1] = "attester" /\ op[2] \in AttesterRole
           \/ op[1] = "token" /\ op[2] \in TokenRole
    BY HandoffAssumption
  <1>2. meddled' = TRUE /\ UNCHANGED <<balanceOf, totalSupply, plan, phase, step, now, queue>>
    BY DEF SafeChanges
  <1>3. /\ Roles["attester"] = attesterRoles /\ Roles["token"] = tokenRoles[theToken]
        /\ attesterRoles \in AttesterTables /\ tokenRoles[theToken] \in TokenTables
    BY RolesType, TableReplaced
  <1>4. HandoffTypes'
    <2>1. CASE op[1] = "attester" /\ op[2] \in AttesterRole
      <3>1. /\ WithRole(attesterRoles, op[2], op[3]) \in AttesterTables
            /\ WithoutRole(attesterRoles, op[2], op[3]) \in AttesterTables
        BY <1>1, <1>3, <2>1, RoleTableType DEF AttesterTables
      <3>2. attesterRoles' \in AttesterTables /\ tokenRoles' = tokenRoles
        BY <1>3, <2>1, <3>1 DEF SafeChanges
      <3> QED BY <1>2, <3>2 DEF HandoffTypes, TokenTypeOK, SupplyCapped, SupplyIsHeld
    <2>2. CASE op[1] = "token" /\ op[2] \in TokenRole
      <3>1. /\ WithRole(tokenRoles[theToken], op[2], op[3]) \in TokenTables
            /\ WithoutRole(tokenRoles[theToken], op[2], op[3]) \in TokenTables
        BY <1>1, <1>3, <2>2, RoleTableType DEF TokenTables
      <3>2. /\ \E table \in TokenTables : tokenRoles' = [tokenRoles EXCEPT ![theToken] = table]
            /\ attesterRoles' = attesterRoles
        BY <1>3, <2>2, <3>1 DEF SafeChanges
      <3>3. TokenTypeOK' /\ SupplyCapped' /\ SupplyIsHeld'
        BY <1>2, <3>2, TableWritten DEF HandoffTypes
      <3> QED BY <1>2, <3>2, <3>3 DEF HandoffTypes
    <2> QED BY <1>1, <2>1, <2>2
  <1>5. ScriptSound'
    BY <1>2 DEF ScriptSound
  <1> QED BY <1>2, <1>4, <1>5 DEF RolesSound

(* A step of the finished deployment that changes nothing but the minters. *)
LEMMA MinterWritten ==
    ASSUME HandoffInv, phase = "complete", NEW table \in TokenTables,
           \A r \in TokenRole \ {MINTER_ROLE} : table[r] = tokenRoles[theToken][r],
           ~meddled => table[MINTER_ROLE] \subseteq {AttesterAddress} \cup Minters,
           tokenRoles' = [tokenRoles EXCEPT ![theToken] = table],
           UNCHANGED <<balanceOf, totalSupply, script, now>>,
           queue' \subseteq queue, ~meddled' => ~meddled
    PROVE  HandoffInv'
  <1> USE DEF HandoffInv
  <1>1. /\ TokenTypeOK' /\ SupplyCapped' /\ SupplyIsHeld'
        /\ tokenRoles'[theToken] = table
    BY TableWritten DEF HandoffTypes
  <1>2. HandoffTypes'
    BY <1>1 DEF script, HandoffTypes
  <1>3. ScriptSound'
    BY DEF script, ScriptSound
  <1>4. /\ Roles'.attester = Roles.attester
        /\ Roles'.token[DEFAULT_ADMIN_ROLE] = Roles.token[DEFAULT_ADMIN_ROLE]
        /\ Roles'.token[ADMIN_ROLE] = Roles.token[ADMIN_ROLE]
        /\ minters' = table[MINTER_ROLE]
    BY <1>1, RoleNames DEF Roles, script, minters
  <1>5. RolesSound'
    <2> SUFFICES ASSUME ~meddled
                 PROVE  /\ HandedOver(plan, Len(plan.validators), step - 1, Roles')
                        /\ minters' \subseteq {AttesterAddress} \cup Minters
      BY DEF script, RolesSound
    <2>1. HandedOver(plan, Len(plan.validators), step - 1, Roles)
      BY DEF RolesSound
    <2> QED BY <1>4, <2>1 DEF HandedOver
  <1> QED BY <1>2, <1>3, <1>5

(* The timelock makes a call that was scheduled. *)
LEMMA ExecuteStep ==
    ASSUME HandoffInv, NEW q \in queue, Execute(q)
    PROVE  HandoffInv'
  <1> USE DEF HandoffInv
  <1>1. phase = "complete" /\ q.minter \in Minters
    BY DEF ScriptSound, HandoffTypes
  <1>2. tokenRoles[theToken] \in [TokenRole -> SUBSET Accounts] /\ MINTER_ROLE \in TokenRole
    BY TheToken, RoleNames DEF HandoffTypes, TokenTypeOK
  <1>3. /\ UNCHANGED <<balanceOf, totalSupply, script, now>>
        /\ queue' \subseteq queue /\ (~meddled' => ~meddled)
    BY DEF Execute, AuthorizeMinter, RevokeMinter
  <1>4. ~meddled => tokenRoles[theToken][MINTER_ROLE] \subseteq {AttesterAddress} \cup Minters
    BY DEF RolesSound, minters
  <1>5. CASE AuthorizeMinter(theToken, plan.timelock, q.minter)
    <2> PICK table : table = WithRole(tokenRoles[theToken], MINTER_ROLE, q.minter)
      OBVIOUS
    <2>1. q.minter \in Accounts /\ tokenRoles' = [tokenRoles EXCEPT ![theToken] = table]
      BY <1>1, <1>5, AccountsAssumption DEF AuthorizeMinter
    <2>2. table \in TokenTables
      BY <1>2, <2>1, RoleTableType DEF TokenTables
    <2>3. /\ \A r \in TokenRole \ {MINTER_ROLE} : table[r] = tokenRoles[theToken][r]
          /\ table[MINTER_ROLE] = tokenRoles[theToken][MINTER_ROLE] \cup {q.minter}
      BY <1>2 DEF WithRole
    <2>4. ~meddled => table[MINTER_ROLE] \subseteq {AttesterAddress} \cup Minters
      BY <1>1, <1>4, <2>3
    <2> QED BY <1>1, <1>3, <2>1, <2>2, <2>3, <2>4, MinterWritten
  <1>6. CASE RevokeMinter(theToken, plan.timelock, q.minter)
    <2> PICK table : table = WithoutRole(tokenRoles[theToken], MINTER_ROLE, q.minter)
      OBVIOUS
    <2>1. tokenRoles' = [tokenRoles EXCEPT ![theToken] = table]
      BY <1>6 DEF RevokeMinter
    <2>2. table \in TokenTables
      BY <1>2, RoleTableType DEF TokenTables
    <2>3. /\ \A r \in TokenRole \ {MINTER_ROLE} : table[r] = tokenRoles[theToken][r]
          /\ table[MINTER_ROLE] = tokenRoles[theToken][MINTER_ROLE] \ {q.minter}
      BY <1>2, RoleTableAt
    <2>4. ~meddled => table[MINTER_ROLE] \subseteq {AttesterAddress} \cup Minters
      BY <1>4, <2>3
    <2> QED BY <1>1, <1>3, <2>1, <2>2, <2>3, <2>4, MinterWritten
  <1> QED BY <1>5, <1>6 DEF Execute

(* Who governs a finished deployment: nobody that sends transactions of its own. *)
LEMMA CompleteRoles ==
    ASSUME HandoffInv, phase = "complete", ~meddled
    PROVE  /\ attesterRoles[DEFAULT_ADMIN_ROLE] = {plan.safe}
           /\ attesterRoles[PAUSER_ROLE] = {plan.safe}
           /\ attesterRoles[ADMIN_ROLE] = {plan.timelock}
           /\ tokenRoles[theToken][DEFAULT_ADMIN_ROLE] = {plan.safe}
           /\ tokenRoles[theToken][ADMIN_ROLE] = {plan.timelock}
           /\ \A x : x \in attesterRoles[VALIDATOR_ROLE]
                  <=> \E i \in 1..Len(plan.validators) : x = plan.validators[i]
           /\ Checked(plan)
  <1> USE DEF HandoffInv
  <1> PICK n \in Nat : n = Len(plan.validators)
    BY PlanTypes DEF HandoffTypes
  <1>1. step - 1 = n + 12 /\ Checked(plan)
    BY DEF ScriptSound
  <1>2. HandedOver(plan, n, n + 12, Roles)
    BY <1>1 DEF RolesSound
  <1>3. Roles.attester = attesterRoles /\ Roles.token = tokenRoles[theToken]
    BY RolesType
  <1>4. \A x : x \in Granted(plan, n + 12) <=> \E i \in 1..n : x = plan.validators[i]
    BY DEF Granted
  <1> QED BY <1>1, <1>2, <1>3, <1>4 DEF HandedOver, Row, From, Until

(* What a call of the token does to the roles of a finished deployment that nobody
   but the Safe and the timelock administers: a minter may have renounced. *)
LEMMA CallOfFinished ==
    ASSUME HandoffInv, phase = "complete", Outsiders = {}, TokenStep(theToken),
           tokenRoles' # tokenRoles
    PROVE  \E a \in Callers :
              /\ tokenRoles' = [tokenRoles EXCEPT ![theToken] =
                                   WithoutRole(tokenRoles[theToken], MINTER_ROLE, a)]
              /\ UNCHANGED <<balanceOf, totalSupply>>
  <1>1. /\ tokenRoles[theToken][DEFAULT_ADMIN_ROLE] \subseteq {plan.safe}
        /\ tokenRoles[theToken][ADMIN_ROLE] \subseteq {plan.timelock}
        /\ plan.safe \notin Callers /\ plan.timelock \notin Callers
    BY DEF Outsiders, HandoffInv, ScriptSound, Checked
  <1>2. tokenRoles \in [Tokens -> [TokenRole -> SUBSET Accounts]]
    BY DEF HandoffInv, HandoffTypes, TokenTypeOK
  <1>3. ASSUME NEW c \in Callers, NEW m \in Minters,
               AuthorizeMinter(theToken, c, m) \/ RevokeMinter(theToken, c, m)
        PROVE  FALSE
    BY <1>1, <1>3 DEF AuthorizeMinter, RevokeMinter, HasRole
  <1>4. ASSUME NEW c \in Callers, NEW to \in Accounts \cup {ZeroAddress}, NEW amt \in Amounts,
               Mint(theToken, c, to, amt)
        PROVE  FALSE
    BY <1>4 DEF Mint
  <1>5. ASSUME NEW from \in Accounts, NEW to \in Accounts, NEW amt \in TransferAmounts,
               Transfer(theToken, from, to, amt)
        PROVE  FALSE
    BY <1>5 DEF Transfer
  <1>6. ASSUME NEW op \in TokenRoleOps, NEW c \in Callers,
               \/ TokenGrantRole(theToken, c, op[1], op[2])
               \/ TokenRevokeRole(theToken, c, op[1], op[2])
        PROVE  FALSE
    BY <1>1, <1>6 DEF TokenGrantRole, TokenRevokeRole, MayAdminister, HasRole
  <1>7. PICK op \in TokenRoleOps : TokenRenounceRole(theToken, op[1], op[2])
    BY <1>3, <1>4, <1>5, <1>6 DEF TokenStep
  <1>8. op[1] \in TokenRole /\ op[2] \in Callers
    BY <1>7, TokenAssumption DEF TokenRenounceRole
  <1>9. /\ tokenRoles' = [tokenRoles EXCEPT ![theToken] =
                             WithoutRole(tokenRoles[theToken], op[1], op[2])]
        /\ UNCHANGED <<balanceOf, totalSupply>>
    BY <1>2, <1>7, TheToken DEF TokenRenounceRole
  <1>10. ASSUME op[1] # MINTER_ROLE
         PROVE  FALSE
    <2>1. op[2] \notin tokenRoles[theToken][op[1]]
      BY <1>1, <1>8, <1>10, RoleNames
    <2>2. WithoutRole(tokenRoles[theToken], op[1], op[2]) = tokenRoles[theToken]
      BY <1>2, <1>8, <2>1, TheToken DEF WithoutRole
    <2> QED BY <1>2, <1>9, <2>2, TheToken
  <1> QED BY <1>8, <1>9, <1>10

(* Anybody calls the token. *)
LEMMA CallStep == HandoffInv /\ CallToken => HandoffInv'
  <1> SUFFICES ASSUME HandoffInv, CallToken
               PROVE  HandoffInv'
    OBVIOUS
  <1> USE DEF HandoffInv
  <1>1. /\ phase \in {"stopped", "complete"} /\ TokenStep(theToken)
        /\ meddled' = (meddled \/ (phase = "stopped" /\ tokenRoles' # tokenRoles))
        /\ UNCHANGED <<script, now, queue>>
    BY DEF CallToken
  <1>2. TokenTypeOK' /\ SupplyCapped' /\ SupplyIsHeld'
    <2>1. TokenNext
      BY <1>1, TheToken DEF TokenNext
    <2> QED BY <2>1, TokenStepSafe, TokenStepHeld DEF HandoffTypes
  <1>3. HandoffTypes'
    BY <1>1, <1>2 DEF HandoffTypes, script
  <1>4. ScriptSound'
    BY <1>1 DEF ScriptSound, script
  <1>5. CASE tokenRoles' = tokenRoles
    <2>1. Roles' = Roles /\ minters' = minters
      BY <1>1, <1>5, RolesKept DEF script
    <2>2. RolesSound'
      BY <1>1, <1>5, <2>1 DEF RolesSound, script
    <2> QED BY <1>3, <1>4, <2>2
  <1>6. CASE meddled'
    BY <1>3, <1>4, <1>6 DEF RolesSound
  <1>7. CASE tokenRoles' # tokenRoles /\ ~meddled'
    <2>1. phase = "complete" /\ ~meddled /\ Outsiders = {}
      BY <1>1, <1>7, CompleteRoles DEF Outsiders
    <2>2. PICK a \in Callers :
              /\ tokenRoles' = [tokenRoles EXCEPT ![theToken] =
                                   WithoutRole(tokenRoles[theToken], MINTER_ROLE, a)]
              /\ UNCHANGED <<balanceOf, totalSupply>>
      BY <1>1, <1>7, <2>1, CallOfFinished
    <2> PICK table : table = WithoutRole(tokenRoles[theToken], MINTER_ROLE, a)
      OBVIOUS
    <2>3. tokenRoles[theToken] \in [TokenRole -> SUBSET Accounts] /\ MINTER_ROLE \in TokenRole
      BY TheToken, RoleNames DEF HandoffTypes, TokenTypeOK
    <2>4. table \in TokenTables
      BY <2>3, RoleTableType DEF TokenTables
    <2>5. /\ \A r \in TokenRole \ {MINTER_ROLE} : table[r] = tokenRoles[theToken][r]
          /\ table[MINTER_ROLE] = tokenRoles[theToken][MINTER_ROLE] \ {a}
      BY <2>3, RoleTableAt
    <2>6. table[MINTER_ROLE] \subseteq {AttesterAddress} \cup Minters
      BY <2>1, <2>5 DEF RolesSound, minters
    <2> QED BY <1>1, <2>1, <2>2, <2>4, <2>5, <2>6, MinterWritten
  <1> QED BY <1>5, <1>6, <1>7

(* A step of the deployment or of anybody else. *)
LEMMA HandoffStep == HandoffInv /\ [Next]_vars => HandoffInv'
  <1> SUFFICES ASSUME HandoffInv, [Next]_vars
               PROVE  HandoffInv'
    OBVIOUS
  <1>1. CASE UNCHANGED vars
    <2>1. UNCHANGED <<tokenRoles, balanceOf, totalSupply, attesterRoles, plan, phase, step,
                      now, queue, meddled>>
      BY <1>1 DEF vars, tokenVars, script
    <2>2. HandoffTypes' /\ ScriptSound'
      BY <2>1 DEF HandoffInv, HandoffTypes, ScriptSound, TokenTypeOK, SupplyCapped, SupplyIsHeld
    <2>3. Roles' = Roles /\ minters' = minters
      BY <2>1, RolesKept
    <2>4. RolesSound'
      BY <2>1, <2>3 DEF HandoffInv, RolesSound
    <2> QED BY <2>2, <2>4 DEF HandoffInv
  <1> QED BY <1>1, SimulateStep, BroadcastStep, IdleStep, CallStep, SafeStep, ScheduleStep,
             ExecuteStep DEF Next

-----------------------------------------------------------------------------
(* The theorems. *)

(* The inductive invariant: wherever the broadcast has got to, and however often
   it broke off, the roles are the ones the first transactions of the script give. *)
THEOREM HandoffInvariant == Spec => []HandoffInv
  BY HandoffInit, HandoffStep, PTL DEF Spec

(* The cap, and the agreement of supply and balances, of the token that is being
   deployed: mint() is called while the broadcast is stopped and after it. *)
THEOREM DeployedTokenSafety == Spec => [](SupplyCapped /\ SupplyIsHeld)
  <1>1. HandoffInv => SupplyCapped /\ SupplyIsHeld
    BY DEF HandoffInv, HandoffTypes
  <1> QED BY <1>1, HandoffInvariant, PTL

(* No step of the script, the Safe or the timelock issues tokens. *)
THEOREM DeployedTokenIssuance == Spec => IssuanceNeedsMinter
  <1> DEFINE Step == \A t \in Tokens :
          /\ totalSupply'[t] >= totalSupply[t]
          /\ totalSupply'[t] > totalSupply[t] => tokenRoles[t][MINTER_ROLE] # {}
  <1>1. ASSUME HandoffInv, [Next]_vars
        PROVE  [Step]_tokenVars
    <2>1. CASE CallToken
      <3>1. TokenNext
        BY <2>1, TheToken DEF CallToken, TokenNext
      <3> QED BY <1>1, <3>1, TokenStepSafe DEF HandoffInv, HandoffTypes
    <2>2. CASE totalSupply' = totalSupply
      BY <1>1, <2>2 DEF HandoffInv, HandoffTypes, TokenTypeOK
    <2>3. CASE Simulate \/ Broadcast \/ StopOrResume \/ Tick
      <3>1. totalSupply' = totalSupply
        BY <2>3 DEF Simulate, Broadcast, StopOrResume, Tick, tokenVars
      <3> QED BY <2>2, <3>1
    <2>4. CASE \E op \in SafeOps : SafeChanges(op[1], op[2], op[3])
      <3>1. totalSupply' = totalSupply
        BY <2>4 DEF SafeChanges
      <3> QED BY <2>2, <3>1
    <2>5. CASE \E act \in {"authorizeMinter", "revokeMinter"}, m \in Minters : Schedule(act, m)
      <3>1. totalSupply' = totalSupply
        BY <2>5 DEF Schedule, tokenVars
      <3> QED BY <2>2, <3>1
    <2>6. CASE \E q \in queue : Execute(q)
      <3>1. totalSupply' = totalSupply
        BY <2>6 DEF Execute, AuthorizeMinter, RevokeMinter
      <3> QED BY <2>2, <3>1
    <2>7. CASE UNCHANGED vars
      BY <2>7 DEF vars
    <2> QED BY <1>1, <2>1, <2>3, <2>4, <2>5, <2>6, <2>7 DEF Next
  <1> HIDE DEF Step
  <1>2. HandoffInv /\ [Next]_vars => [Step]_tokenVars
    BY <1>1
  <1>3. Spec => [][Step]_tokenVars
    BY <1>2, HandoffInvariant, PTL DEF Spec
  <1> QED BY <1>3 DEF IssuanceNeedsMinter, Step

(* "Renounces come strictly AFTER all grants": at no point of the broadcast has the
   deployer let go of one contract that the Safe does not administer yet. *)
THEOREM ControlSafety == Spec => []NoSplitControl
  <1>1. ASSUME HandoffInv, ~meddled
        PROVE  \/ \A on \in {"attester", "token"} : MayAdminister(Roles[on], plan.safe)
               \/ \A on \in {"attester", "token"} : MayAdminister(Roles[on], deployer)
    <2> PICK n \in Nat : n = Len(plan.validators)
      BY <1>1, PlanTypes DEF HandoffInv, HandoffTypes
    <2> PICK k \in Int : k = step - 1
      BY <1>1 DEF HandoffInv, HandoffTypes
    <2>1. HandedOver(plan, n, k, Roles)
      BY <1>1 DEF HandoffInv, RolesSound
    <2>2. /\ Roles["attester"] = Roles.attester /\ Roles["token"] = Roles.token
      BY <1>1, RolesType DEF HandoffInv
    <2>3. CASE k >= n + 6
      <3>1. plan.safe \in Roles.attester[DEFAULT_ADMIN_ROLE] /\ plan.safe \in Roles.token[DEFAULT_ADMIN_ROLE]
        BY <2>1, <2>3 DEF HandedOver, Row, From
      <3> QED BY <2>2, <3>1 DEF MayAdminister, HasRole
    <2>4. CASE k < n + 6
      <3>1. deployer \in Roles.attester[DEFAULT_ADMIN_ROLE] /\ deployer \in Roles.token[DEFAULT_ADMIN_ROLE]
        BY <2>1, <2>4 DEF HandedOver, Row, Until
      <3> QED BY <2>2, <3>1 DEF MayAdminister, HasRole
    <2> QED BY <2>3, <2>4
  <1>2. HandoffInv => NoSplitControl
    BY <1>1 DEF NoSplitControl
  <1> QED BY <1>2, HandoffInvariant, PTL

(* Distinct validators are as many as their list is long. *)
LEMMA ValidatorsCount ==
    ASSUME NEW v \in Seq(Accounts), IsInjective(v), NEW S,
           \A x : x \in S <=> \E i \in 1..Len(v) : x = v[i]
    PROVE  Cardinality(S) >= Len(v)
  <1> PICK n \in Nat : n = Len(v)
    OBVIOUS
  <1>1. DOMAIN v = 1..n /\ v \in [1..n -> S] /\ S \subseteq Accounts
    OBVIOUS
  <1>2. IsFiniteSet(S) /\ Cardinality(S) \in Nat
    BY <1>1, AccountsAssumption, FS_Subset, FS_CardinalityType
  <1>3. IsFiniteSet(1..n) /\ Cardinality(1..n) = n
    <2>1. 1 \in Int /\ n \in Int /\ n - 1 + 1 = n /\ (1 > n => n = 0)
      OBVIOUS
    <2>2. /\ IsFiniteSet(1..n)
          /\ Cardinality(1..n) = IF 1 > n THEN 0 ELSE n - 1 + 1
      BY <2>1, FS_Interval, Zenon
    <2> QED BY <2>1, <2>2
  <1>4. ASSUME Cardinality(S) < n
        PROVE  FALSE
    <2>1. \E x, y \in 1..n : x # y /\ v[x] = v[y]
      BY <1>1, <1>2, <1>3, <1>4, FS_PigeonHole
    <2> QED BY <1>1, <2>1 DEF IsInjective
  <1> QED BY <1>2, <1>4

(* The end of run(), as long as the Safe does not make the deployer a minter by an
   operation of the timelock: both contracts are governed by the Safe and the
   timelock alone, the deployer holds no role, and there are enough validators. *)
THEOREM HandoverSafety ==
    ASSUME deployer \notin Minters
    PROVE  Spec => []CompleteMeansHandedOver
  <1>1. ASSUME HandoffInv, phase = "complete", ~meddled
        PROVE  /\ \A r \in AttesterRole : deployer \notin attesterRoles[r]
               /\ \A r \in TokenRole : deployer \notin tokenRoles[theToken][r]
               /\ \A roles \in {attesterRoles, tokenRoles[theToken]} :
                     roles[DEFAULT_ADMIN_ROLE] = {plan.safe} /\ roles[ADMIN_ROLE] = {plan.timelock}
               /\ Cardinality(attesterRoles[VALIDATOR_ROLE]) >= plan.threshold
    <2>1. /\ attesterRoles[DEFAULT_ADMIN_ROLE] = {plan.safe}
          /\ attesterRoles[PAUSER_ROLE] = {plan.safe}
          /\ attesterRoles[ADMIN_ROLE] = {plan.timelock}
          /\ tokenRoles[theToken][DEFAULT_ADMIN_ROLE] = {plan.safe}
          /\ tokenRoles[theToken][ADMIN_ROLE] = {plan.timelock}
          /\ \A x : x \in attesterRoles[VALIDATOR_ROLE]
                 <=> \E i \in 1..Len(plan.validators) : x = plan.validators[i]
          /\ Checked(plan)
      BY <1>1, CompleteRoles
    <2>2. /\ plan.safe # deployer /\ plan.timelock # deployer
          /\ plan.validators \in Seq(Accounts) /\ IsInjective(plan.validators)
          /\ Len(plan.validators) >= plan.threshold
          /\ \A i \in 1..Len(plan.validators) : plan.validators[i] # deployer
      BY <2>1 DEF Checked, PlanOK
    <2>3. deployer \notin tokenRoles[theToken][MINTER_ROLE]
      BY <1>1, HandoffAssumption DEF HandoffInv, RolesSound, minters, deployer
    <2>4. \A r \in AttesterRole : deployer \notin attesterRoles[r]
      BY <2>1, <2>2, RoleNames
    <2>5. \A r \in TokenRole : deployer \notin tokenRoles[theToken][r]
      BY <2>1, <2>2, <2>3, RoleNames
    <2>6. Cardinality(attesterRoles[VALIDATOR_ROLE]) >= Len(plan.validators)
      BY <2>1, <2>2, ValidatorsCount
    <2>7. /\ Cardinality(attesterRoles[VALIDATOR_ROLE]) \in Nat
          /\ Len(plan.validators) \in Nat /\ plan.threshold \in Nat
      <3>1. attesterRoles[VALIDATOR_ROLE] \subseteq Accounts
        BY <1>1, RoleNames DEF HandoffInv, HandoffTypes, AttesterTables
      <3>2. Cardinality(attesterRoles[VALIDATOR_ROLE]) \in Nat
        BY <3>1, AccountsAssumption, FS_Subset, FS_CardinalityType
      <3> QED BY <1>1, <3>2, PlanTypes DEF HandoffInv, HandoffTypes
    <2>8. Cardinality(attesterRoles[VALIDATOR_ROLE]) >= plan.threshold
      BY <2>2, <2>6, <2>7
    <2> QED BY <2>1, <2>4, <2>5, <2>8
  <1>2. HandoffInv => CompleteMeansHandedOver
    BY <1>1 DEF CompleteMeansHandedOver
  <1> QED BY <1>2, HandoffInvariant, PTL

(* A call of a finished token that only the Safe and the timelock administer takes
   a minter away, at most, and appoints nobody. *)
LEMMA CallKeepsInsiders ==
    ASSUME HandoffInv, phase = "complete", Outsiders = {}, CallToken
    PROVE  /\ minters' # minters => \E a \in minters \cap Callers : minters' = minters \ {a}
           /\ Outsiders' = {}
  <1>1. TokenStep(theToken) /\ plan' = plan
    BY DEF CallToken, script
  <1>2. CASE tokenRoles' = tokenRoles
    BY <1>1, <1>2 DEF minters, Outsiders
  <1>3. CASE tokenRoles' # tokenRoles
    <2>1. PICK a \in Callers :
            tokenRoles' = [tokenRoles EXCEPT ![theToken] =
                              WithoutRole(tokenRoles[theToken], MINTER_ROLE, a)]
      BY <1>1, <1>3, CallOfFinished
    <2>2. PICK before, table : /\ before = tokenRoles[theToken]
                               /\ table = WithoutRole(before, MINTER_ROLE, a)
      OBVIOUS
    <2>3. tokenRoles[theToken] \in [TokenRole -> SUBSET Accounts] /\ MINTER_ROLE \in TokenRole
      BY TheToken, RoleNames DEF HandoffInv, HandoffTypes, TokenTypeOK
    <2>4. tokenRoles'[theToken] = table
      BY <2>1, <2>2, TheToken DEF HandoffInv, HandoffTypes, TokenTypeOK
    <2>5. before \in [TokenRole -> SUBSET Accounts]
      BY <2>2, <2>3
    <2>6. /\ \A r \in TokenRole \ {MINTER_ROLE} : table[r] = before[r]
          /\ table[MINTER_ROLE] = before[MINTER_ROLE] \ {a}
      BY <2>2, <2>3, <2>5 DEF WithoutRole
    <2>7. minters' = minters \ {a}
      BY <2>2, <2>4, <2>6 DEF minters
    <2>8. Outsiders' = {}
      BY <1>1, <2>2, <2>4, <2>6, RoleNames DEF Outsiders
    <2> QED BY <2>7, <2>8
  <1> QED BY <1>2, <1>3

(* An operation of the timelock waited for the delay, and changes minters only. *)
LEMMA ExecuteIsDelayed ==
    ASSUME HandoffInv, phase = "complete", NEW q \in queue, Execute(q)
    PROVE  Delayed /\ Outsiders' = Outsiders
  <1>1. now >= q.at + plan.delay /\ q \notin queue' /\ plan' = plan
    BY DEF Execute, script
  <1>2. plan.delay >= MinDelay
    BY DEF HandoffInv, ScriptSound, Checked
  <1>3. now \in Nat /\ q.at \in Nat /\ plan.delay \in Nat /\ MinDelay \in Nat
    BY PlanTypes, HandoffAssumption DEF HandoffInv, HandoffTypes
  <1>4. now >= q.at + MinDelay
    BY <1>1, <1>2, <1>3
  <1>5. Delayed
    BY <1>1, <1>4 DEF Delayed
  <1>6. PICK table \in {WithRole(tokenRoles[theToken], MINTER_ROLE, q.minter),
                        WithoutRole(tokenRoles[theToken], MINTER_ROLE, q.minter)} :
            tokenRoles' = [tokenRoles EXCEPT ![theToken] = table]
    BY DEF Execute, AuthorizeMinter, RevokeMinter
  <1>7. tokenRoles'[theToken] = table
    BY <1>6, TheToken DEF HandoffInv, HandoffTypes, TokenTypeOK
  <1>8. tokenRoles[theToken] \in [TokenRole -> SUBSET Accounts]
    BY TheToken DEF HandoffInv, HandoffTypes, TokenTypeOK
  <1>9. \A r \in TokenRole \ {MINTER_ROLE} : table[r] = tokenRoles[theToken][r]
    <2>1. PICK before, minter : before = tokenRoles[theToken] /\ minter = q.minter
      OBVIOUS
    <2>2. before \in [TokenRole -> SUBSET Accounts]
      BY <1>8, <2>1
    <2>3. table \in {WithRole(before, MINTER_ROLE, minter), WithoutRole(before, MINTER_ROLE, minter)}
      BY <1>6, <2>1
    <2>4. \A r \in TokenRole \ {MINTER_ROLE} : table[r] = before[r]
      BY <2>2, <2>3 DEF WithRole, WithoutRole
    <2> QED BY <2>1, <2>4
  <1>10. Outsiders' = Outsiders
    BY <1>1, <1>7, <1>9, RoleNames DEF Outsiders
  <1> QED BY <1>5, <1>10

(* The timelock's promise, as far as the code keeps it: while the token has no other
   administrators than the Safe and the timelock, the set of minters changes MinDelay
   after it was announced, or because a minter renounces, or by the Safe's own
   transaction, and only such a transaction appoints other administrators. *)
THEOREM DelaySafety == Spec => OnlySafeSkipsDelay
  <1> DEFINE Step == phase = "complete" /\ Outsiders = {} =>
                        /\ minters' # minters =>
                              \/ Delayed
                              \/ \E a \in minters \cap Callers : minters' = minters \ {a}
                              \/ SafeHand
                        /\ Outsiders' # {} => SafeHand
  <1>1. ASSUME HandoffInv, Next, phase = "complete", Outsiders = {}
        PROVE  Step
    <2>1. CASE CallToken
      BY <1>1, <2>1, CallKeepsInsiders
    <2>2. ASSUME NEW q \in queue, Execute(q)
          PROVE  Step
      BY <1>1, <2>2, ExecuteIsDelayed
    <2>3. CASE SafeHand
      BY <2>3
    <2>4. CASE Simulate \/ Broadcast \/ StopOrResume \/ Tick
      <3>1. UNCHANGED <<tokenRoles, plan>>
        BY <1>1, <2>4 DEF Simulate, Broadcast, StopOrResume, Tick, tokenVars, script
      <3> QED BY <1>1, <3>1 DEF minters, Outsiders
    <2>5. ASSUME NEW act, NEW m, Schedule(act, m)
          PROVE  Step
      <3>1. UNCHANGED <<tokenRoles, plan>>
        BY <2>5 DEF Schedule, tokenVars, script
      <3> QED BY <1>1, <3>1 DEF minters, Outsiders
    <2> HIDE DEF Step
    <2> QED BY <1>1, <2>1, <2>2, <2>3, <2>4, <2>5 DEF Next, SafeHand
  <1>2. HandoffInv /\ [Next]_vars => [Step]_vars
    BY <1>1
  <1> HIDE DEF Step
  <1>3. Spec => [][Step]_vars
    BY <1>2, HandoffInvariant, PTL DEF Spec
  <1> QED BY <1>3 DEF OnlySafeSkipsDelay, Step
-----------------------------------------------------------------------------
(* The simulation, a fold over the script. *)

(* What the simulation makes of a transaction. *)
SimStep(s, tx) == [ok |-> s.ok /\ Allowed(s.roles, tx), roles |-> Effect(s.roles, tx)]
SimStart       == [ok |-> TRUE, roles |-> Deployed]

(* The recursion equation of the fold. *)
SimSteps(g, txs, S) ==
    g = [s \in SUBSET S |-> IF s = {} THEN SimStart ELSE SimStep(g[s \ {Max(s)}], txs[Max(s)])]

(* Where the simulation ends. *)
SimEnd(txs) == (CHOOSE g : SimSteps(g, txs, DOMAIN txs))[DOMAIN txs]

(* The simulation, with its last state named. *)
LEMMA SimUnfold ==
    ASSUME NEW p
    PROVE  Simulates(p) <=> /\ Preflight(p) /\ Constructs(p) /\ SimEnd(Script(p)).ok
                            /\ VerifyHandoff(SimEnd(Script(p)).roles, p)
  BY DEF Simulates, FoldLeft, MapThenFoldSet, SimEnd, SimSteps, SimStep, SimStart

(* The last of the first k + 1 positions is k + 1, where it is one of them. *)
LEMMA LastPosition ==
    ASSUME NEW k \in Nat, NEW s \in SUBSET (1..(k + 1)), k + 1 \in s
    PROVE  Max(s) = k + 1
  <1>1. k + 1 \in Nat /\ s # {}
    OBVIOUS
  <1>2. Max(s) \in s /\ \A y \in s : y <= Max(s)
    BY <1>1, MaxIsLast
  <1>3. Max(s) \in 1..(k + 1) /\ k + 1 <= Max(s)
    BY <1>2
  <1> QED BY <1>3

(* The equation has a solution for every list. *)
LEMMA SimExists ==
    ASSUME NEW txs, NEW n \in Nat
    PROVE  \E g : SimSteps(g, txs, 1..n)
  <1> DEFINE bad == {k \in Nat : ~\E g : SimSteps(g, txs, 1..k)}
  <1> SUFFICES ASSUME bad # {} PROVE FALSE
    OBVIOUS
  <1>1. bad \in SUBSET Nat
    OBVIOUS
  <1> HIDE DEF bad
  <1>2. PICK m \in bad : \A k \in bad : m <= k
    BY <1>1, LeastElement
  <1>3. m # 0
    <2>1. SimSteps([s \in SUBSET {} |-> SimStart], txs, {})
      BY DEF SimSteps
    <2>2. 1..0 = {}
      OBVIOUS
    <2> QED BY <1>2, <2>1, <2>2 DEF bad
  <1>4. PICK k \in Nat : m = k + 1
    <2>1. m - 1 \in Nat /\ m = (m - 1) + 1
      BY <1>1, <1>2, <1>3
    <2> QED BY <2>1
  <1>5. PICK g : SimSteps(g, txs, 1..k)
    BY <1>2, <1>4 DEF bad
  <1> DEFINE h == [s \in SUBSET (1..(k + 1)) |->
                      IF k + 1 \in s THEN SimStep(g[s \ {k + 1}], txs[k + 1]) ELSE g[s]]
  <1>6. ASSUME NEW s \in SUBSET (1..(k + 1))
        PROVE  h[s] = IF s = {} THEN SimStart ELSE SimStep(h[s \ {Max(s)}], txs[Max(s)])
    <2>1. CASE k + 1 \in s
      <3>1. Max(s) = k + 1
        BY <2>1, LastPosition
      <3>2. h[s \ {k + 1}] = g[s \ {k + 1}]
        OBVIOUS
      <3>3. h[s] = SimStep(g[s \ {k + 1}], txs[k + 1])
        BY <2>1
      <3> HIDE DEF h
      <3> QED BY <2>1, <3>1, <3>2, <3>3
    <2>2. CASE k + 1 \notin s
      <3>1. s \in SUBSET (1..k)
        BY <2>2
      <3>2. PICK r : r = s \ {Max(s)}
        OBVIOUS
      <3>3. r \in SUBSET (1..(k + 1)) /\ k + 1 \notin r
        BY <2>2, <3>2
      <3>4. h[s] = g[s] /\ h[r] = g[r]
        BY <2>2, <3>3
      <3>5. g[s] = IF s = {} THEN SimStart ELSE SimStep(g[r], txs[Max(s)])
        BY <1>5, <3>1, <3>2 DEF SimSteps
      <3> HIDE DEF h
      <3> QED BY <3>2, <3>4, <3>5
    <2> QED BY <2>1, <2>2
  <1>7. h = [s \in SUBSET (1..(k + 1)) |-> h[s]]
    OBVIOUS
  <1> HIDE DEF h
  <1>8. SimSteps(h, txs, 1..(k + 1))
    BY <1>6, <1>7 DEF SimSteps
  <1> QED BY <1>2, <1>4, <1>8 DEF bad

(* A solution starts with the constructors and takes one transaction at a time. *)
LEMMA SimClimbs ==
    ASSUME NEW txs, NEW n \in Nat, NEW g, SimSteps(g, txs, 1..n)
    PROVE  /\ g[{}] = SimStart
           /\ \A k \in Nat : k < n => g[1..(k + 1)] = SimStep(g[1..k], txs[k + 1])
  <1>1. g[{}] = SimStart
    BY DEF SimSteps
  <1>2. ASSUME NEW k \in Nat, k < n
        PROVE  g[1..(k + 1)] = SimStep(g[1..k], txs[k + 1])
    <2>1. PICK s : s = 1..(k + 1)
      OBVIOUS
    <2>a. 1..(k + 1) \subseteq 1..n /\ k + 1 \in 1..(k + 1)
      BY <1>2
    <2>2. s \in SUBSET (1..(k + 1)) /\ k + 1 \in s /\ s \in SUBSET (1..n) /\ s # {}
      BY <2>1, <2>a
    <2>3. Max(s) = k + 1
      BY <2>2, LastPosition
    <2>4. s \ {k + 1} = 1..k
      BY <2>1
    <2>5. g[s] = SimStep(g[s \ {Max(s)}], txs[Max(s)])
      BY <2>2 DEF SimSteps
    <2> QED BY <2>1, <2>3, <2>4, <2>5
  <1> QED BY <1>1, <1>2

(* The constructors leave the deployer with everything. *)
LEMMA DeployedTables ==
    ASSUME NEW p, NEW n \in Nat, PlanOK(p, n)
    PROVE  Deployed \in RoleTables /\ HandedOver(p, n, 0, Deployed) /\ Wired(0, Deployed)
  <1>1. PICK a, t : /\ a = [r \in AttesterRole |-> IF r = VALIDATOR_ROLE THEN {} ELSE {deployer}]
                    /\ t = [r \in TokenRole |-> IF r = MINTER_ROLE THEN {} ELSE {deployer}]
    OBVIOUS
  <1>2. a \in AttesterTables /\ t \in TokenTables
    BY <1>1, AccountsAssumption DEF AttesterTables, TokenTables, deployer
  <1>3. Deployed = [attester |-> a, token |-> t] /\ Deployed.attester = a /\ Deployed.token = t
    BY <1>1 DEF Deployed
  <1>4. /\ a[DEFAULT_ADMIN_ROLE] = {deployer} /\ a[PAUSER_ROLE] = {deployer}
        /\ a[ADMIN_ROLE] = {deployer} /\ a[VALIDATOR_ROLE] = {}
        /\ t[DEFAULT_ADMIN_ROLE] = {deployer} /\ t[ADMIN_ROLE] = {deployer}
        /\ t[MINTER_ROLE] = {}
    BY <1>1, RoleNames
  <1>5. Granted(p, 0) = {}
    BY DEF Granted, PlanOK
  <1>6. HandedOver(p, n, 0, Deployed) /\ Wired(0, Deployed)
    BY <1>3, <1>4, <1>5 DEF HandedOver, Row, From, Until, Wired
  <1>7. Deployed \in RoleTables
    BY <1>2, <1>3 DEF RoleTables
  <1> QED BY <1>6, <1>7

(* What the simulation has found after k transactions. *)
SimSound(p, n, k, s) ==
    /\ s.ok = TRUE /\ s.roles \in RoleTables
    /\ HandedOver(p, n, k, s.roles) /\ Wired(k, s.roles)

(* Nothing stops it before the end of the script. *)
LEMMA SimPasses ==
    ASSUME NEW p, NEW n \in Nat, PlanOK(p, n)
    PROVE  SimSound(p, n, n + 12, SimEnd(Script(p)))
  <1>1. DOMAIN Script(p) = 1..(n + 12)
    <2>1. p.validators \in Seq(Accounts \cup {ZeroAddress}) /\ Len(p.validators) = n
      BY DEF PlanOK
    <2> QED BY <2>1, ScriptAt
  <1>2. PICK txs : txs = Script(p)
    OBVIOUS
  <1> DEFINE g == CHOOSE f : SimSteps(f, txs, 1..(n + 12))
  <1>3. n + 12 \in Nat
    OBVIOUS
  <1>4. SimSteps(g, txs, 1..(n + 12))
    BY <1>3, SimExists
  <1>5. SimEnd(Script(p)) = g[1..(n + 12)]
    BY <1>1, <1>2 DEF SimEnd
  <1> HIDE DEF g
  <1>6. /\ g[1..0] = SimStart
        /\ \A k \in Nat : k < n + 12 => g[1..(k + 1)] = SimStep(g[1..k], txs[k + 1])
    <2>1. 1..0 = {}
      OBVIOUS
    <2> QED BY <1>3, <1>4, <2>1, SimClimbs
  <1> DEFINE bad == {k \in 0..(n + 12) : ~SimSound(p, n, k, g[1..k])}
  <1> SUFFICES ASSUME bad # {} PROVE FALSE
    BY <1>5
  <1>7. bad \in SUBSET Nat
    OBVIOUS
  <1> HIDE DEF bad
  <1>8. PICK m \in bad : \A k \in bad : m <= k
    BY <1>7, LeastElement
  <1>9. m \in 0..(n + 12) /\ ~SimSound(p, n, m, g[1..m])
    BY <1>8 DEF bad
  <1>10. m # 0
    <2>1. SimStart.ok = TRUE /\ SimStart.roles = Deployed
      BY DEF SimStart
    <2>2. SimSound(p, n, 0, SimStart)
      BY <2>1, DeployedTables DEF SimSound
    <2> QED BY <1>6, <1>9, <2>2
  <1>11. PICK k \in Nat : m = k + 1
    <2>1. m - 1 \in Nat /\ m = (m - 1) + 1
      BY <1>9, <1>10
    <2> QED BY <2>1
  <1>12. k \in 0..(n + 11) /\ k < n + 12 /\ k \notin bad
    BY <1>8, <1>9, <1>11
  <1>13. PICK s : s = g[1..k] /\ SimSound(p, n, k, s)
    BY <1>12 DEF bad
  <1>14. PICK roles, tx : roles = s.roles /\ tx = Script(p)[k + 1]
    OBVIOUS
  <1>15. roles \in RoleTables /\ HandedOver(p, n, k, roles) /\ Wired(k, roles) /\ s.ok = TRUE
    BY <1>13, <1>14 DEF SimSound
  <1>16. /\ Allowed(roles, tx) /\ Effect(roles, tx) \in RoleTables
         /\ HandedOver(p, n, k + 1, Effect(roles, tx)) /\ Wired(k + 1, Effect(roles, tx))
    BY <1>12, <1>14, <1>15, ScriptStep
  <1>17. PICK next : next = SimStep(s, tx)
    OBVIOUS
  <1>18. next.ok = TRUE /\ next.roles = Effect(roles, tx)
    BY <1>14, <1>15, <1>16, <1>17 DEF SimStep
  <1>19. SimSound(p, n, k + 1, next)
    BY <1>16, <1>18 DEF SimSound
  <1>20. g[1..m] = next
    BY <1>2, <1>6, <1>11, <1>12, <1>13, <1>14, <1>17
  <1> QED BY <1>9, <1>11, <1>19, <1>20

(* A plan in order passes the simulation. *)
LEMMA GoodPlanSimulates ==
    ASSUME NEW p \in Plans, Preflight(p), Constructs(p), deployer \notin Range(p.validators)
    PROVE  Simulates(p)
  <1>1. PICK n \in Nat : n = Len(p.validators)
    BY PlanTypes
  <1>2. p.safe \in Accounts /\ p.timelock \in Accounts
    BY HandoffAssumption DEF Preflight
  <1>3. p.safe # p.timelock /\ p.safe # deployer /\ p.timelock # deployer
    BY ThreeDiffer DEF Preflight
  <1>4. p.validators \in Seq(Accounts)
    <2>1. p.validators \in Seq(Accounts \cup {ZeroAddress})
      BY PlanTypes
    <2>2. \A i \in DOMAIN p.validators : p.validators[i] # ZeroAddress
      BY DEF Preflight, Range
    <2> QED BY <2>1, <2>2
  <1>5. PlanOK(p, n)
    BY <1>1, <1>2, <1>3, <1>4 DEF PlanOK
  <1>6. PICK s, roles : s = SimEnd(Script(p)) /\ roles = s.roles
    OBVIOUS
  <1>7. s.ok = TRUE /\ HandedOver(p, n, n + 12, roles) /\ Wired(n + 12, roles)
    BY <1>5, <1>6, SimPasses DEF SimSound
  <1>8. /\ roles.attester[DEFAULT_ADMIN_ROLE] = {p.safe}
        /\ roles.attester[PAUSER_ROLE] = {p.safe}
        /\ roles.attester[ADMIN_ROLE] = {p.timelock}
        /\ roles.token[DEFAULT_ADMIN_ROLE] = {p.safe}
        /\ roles.token[ADMIN_ROLE] = {p.timelock}
        /\ roles.token[MINTER_ROLE] = {AttesterAddress}
        /\ roles.attester[VALIDATOR_ROLE] = Granted(p, n + 12)
    BY <1>7 DEF HandedOver, Wired, Row, From, Until
  <1>9. \A x : x \in Granted(p, n + 12) <=> \E i \in 1..n : x = p.validators[i]
    BY <1>1 DEF Granted
  <1>10. DOMAIN p.validators = 1..n /\ \A i \in 1..n : p.validators[i] # deployer
    BY <1>1, <1>4 DEF Range
  <1>11. \A r \in AttesterRole : deployer \notin roles.attester[r]
    BY <1>3, <1>8, <1>9, <1>10, RoleNames
  <1>12. AttesterAddress # deployer
    BY HandoffAssumption DEF deployer
  <1>13. \A r \in TokenRole : deployer \notin roles.token[r]
    BY <1>3, <1>8, <1>12, RoleNames
  <1>14. VerifyHandoff(roles, p)
    BY <1>3, <1>8, <1>9, <1>10, <1>11, <1>13 DEF VerifyHandoff, HasRole
  <1> QED BY <1>6, <1>7, <1>14, SimUnfold

(* A refused plan did not pass. *)
RefusedSound == plan \in Plans /\ (phase = "refused" => ~Simulates(plan))

(* GoodPlansPass: for any number of validators the script's transactions go through
   in their order and satisfy _verifyHandoff. *)
THEOREM GoodPlansSafety == Spec => []GoodPlansPass
  <1>1. Init => RefusedSound
    BY DEF Init, RefusedSound
  <1>2. RefusedSound /\ [Next]_vars => RefusedSound'
    <2> SUFFICES ASSUME RefusedSound, [Next]_vars PROVE RefusedSound'
      OBVIOUS
    <2>1. CASE Simulate
      BY <2>1 DEF Simulate, RefusedSound
    <2>2. CASE Broadcast
      BY <2>2 DEF Broadcast, RefusedSound
    <2>3. CASE StopOrResume
      BY <2>3 DEF StopOrResume, RefusedSound
    <2>4. CASE UNCHANGED script
      BY <2>4 DEF script, RefusedSound
    <2>5. CASE Tick \/ CallToken
      BY <2>4, <2>5 DEF Tick, CallToken
    <2>6. ASSUME NEW op \in SafeOps, SafeChanges(op[1], op[2], op[3]) PROVE RefusedSound'
      BY <2>6 DEF SafeChanges, RefusedSound
    <2>7. ASSUME NEW act, NEW m, Schedule(act, m) PROVE RefusedSound'
      BY <2>4, <2>7 DEF Schedule
    <2>8. ASSUME NEW q \in queue, Execute(q) PROVE RefusedSound'
      BY <2>4, <2>8 DEF Execute
    <2>9. CASE UNCHANGED vars
      BY <2>4, <2>9 DEF vars
    <2> QED BY <2>1, <2>2, <2>3, <2>5, <2>6, <2>7, <2>8, <2>9 DEF Next
  <1>3. RefusedSound => GoodPlansPass
    BY GoodPlanSimulates DEF RefusedSound, GoodPlansPass
  <1> QED BY <1>1, <1>2, <1>3, PTL DEF Spec
=============================================================================
