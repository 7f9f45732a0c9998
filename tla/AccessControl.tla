---------------------------- MODULE AccessControl ----------------------------
(***************************************************************************)
(* Roles granted by one admin (contracts/access-control).                  *)
(***************************************************************************)
CONSTANTS
    Address,
    Person,         \* the addresses that can authorize a call
    Role

VARIABLES
    admin,
    roles           \* the granted pairs of a role and an account

vars == <<admin, roles>>

Init ==
    /\ admin \in Address
    /\ roles = {}

require_admin(caller) == caller = admin

GrantRole(caller, role, account) ==
    /\ require_admin(caller)
    /\ roles' = roles \cup {<<role, account>>}
    /\ UNCHANGED admin

RevokeRole(caller, role, account) ==
    /\ require_admin(caller)
    /\ roles' = roles \ {<<role, account>>}
    /\ UNCHANGED admin

TransferAdmin(caller, new_admin) ==
    /\ require_admin(caller)
    /\ admin' = new_admin
    /\ UNCHANGED roles

Next ==
    \E caller \in Person :
        \/ \E role \in Role, account \in Address :
               GrantRole(caller, role, account) \/ RevokeRole(caller, role, account)
        \/ \E new_admin \in Address : TransferAdmin(caller, new_admin)

-----------------------------------------------------------------------------
(* The admin and the grants are well typed.                                *)
TypeOK == admin \in Address /\ roles \subseteq Role \X Address

=============================================================================
