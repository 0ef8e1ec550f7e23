---------------------------- MODULE AccessControl ----------------------------
(***************************************************************************)
(* The OpenZeppelin AccessControl base contract, as the two Noethrion      *)
(* contracts use it: a mapping from a role to the set of its members.      *)
(* External code, modelled from its use in contracts/src.                  *)
(***************************************************************************)

DEFAULT_ADMIN_ROLE == "DEFAULT_ADMIN_ROLE"
ADMIN_ROLE         == "ADMIN_ROLE"

HasRole(members, role, account) == account \in members[role]

(* _grantRole: idempotent. *)
WithRole(members, role, account) ==
    [members EXCEPT ![role] = @ \cup {account}]

(* _revokeRole: a no-op for an account that does not hold the role. *)
WithoutRole(members, role, account) ==
    [members EXCEPT ![role] = @ \ {account}]

(* Every role is administered by DEFAULT_ADMIN_ROLE: no contract of the
   repository calls _setRoleAdmin. *)
MayAdminister(members, caller) == HasRole(members, DEFAULT_ADMIN_ROLE, caller)
=============================================================================
