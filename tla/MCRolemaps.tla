------------------------------ MODULE MCRolemaps ------------------------------
(* Two roles and a misspelt one; two operations and two fields, and a name *)
(* that is neither.                                                        *)
EXTENDS Rolemaps, TLC

CONSTANTS user, admin, typo, insert, search, secret, id, gone

MCRoleLists ==
  {<<user>>, <<admin>>, <<user, admin>>, <<admin, user>>,
   <<user, user>>, <<admin, admin>>, <<user, None>>, <<admin, None>>, <<typo>>}

Symmetric == Permutations({insert, search}) \cup Permutations({secret, id})
               \cup Permutations({user, admin})
==============================================================================
