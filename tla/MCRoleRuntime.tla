---------------------------- MODULE MCRoleRuntime ----------------------------
(* A tree with a chain of three below "all" and a sibling of its top:      *)
(*                                                                         *)
(*     all - user - admin - root                                           *)
(*        \- guest                                                         *)
EXTENDS RoleRuntime, TLC

CONSTANTS user, admin, root, guest, search, insert

MCNamed == {user, admin, root, guest}
MCParent == (user :> All) @@ (admin :> user) @@ (root :> admin) @@ (guest :> All)

(* No rolemap, each single role, and combinations with and without overlap.*)
MCRolemaps ==
  {{}} \cup { {r} : r \in Assignable } \cup {{Default, All}, {root, guest}}
==============================================================================
