------------------------------- MODULE RoleTree -------------------------------
(***************************************************************************)
(* The tree of roles a configuration defines, and the four ways in which   *)
(* the code walks it to decide what a role may do:                         *)
(*                                                                         *)
(*   - audit.c walks from the current role up to the root,                 *)
(*   - the nodejs and rust generators print a role and all beneath it,     *)
(*   - the C generator describes edges and grants to sqlbox, which lets a  *)
(*     role do what its ancestors may,                                     *)
(*   - the C generator prints the roles a role may be exchanged for.       *)
(*                                                                         *)
(* A role walked upward is a chain of r->parent pointers; a role walked    *)
(* downward is a recursion over subrq.  Both are written here as least     *)
(* closed sets, which is what such a loop or recursion visits.             *)
(***************************************************************************)

CONSTANTS Named,    \* the roles of the "roles" block
          Parent,   \* r->parent of each of them
          All,      \* the reserved role "all", root of the block
          Default,  \* the reserved role "default"
          None      \* the reserved role "none"

(* parse_roles() allocates the reserved roles first and without parent;    *)
(* parse_role() refuses their names and gives "all", or a role already     *)
(* allocated, as parent: following parents from a named role ends at "all".*)
ASSUME ReservedAssumption ==
  /\ All \notin Named /\ Default \notin Named /\ None \notin Named
  /\ All # Default /\ All # None /\ Default # None

ASSUME ParentAssumption == Parent \in [Named -> Named \cup {All}]

ASSUME RootedAssumption ==
  \A S \in SUBSET Named : S # {} => \E r \in S : Parent[r] \notin S

Roles == Named \cup {All, Default, None}

(* Mutation: "all" is printed with the others.                             *)
EnterableAll == Roles

(* The roles of the generated enumeration: "all" is not one of them.       *)
Enterable == Roles \ {All}

(* The roles a rolemap may list: "none" cannot be assigned.                *)
Assignable == Roles \ {None}

(***************************************************************************)
(* Walking up: for (rc = r; rc != NULL; rc = rc->parent).                  *)
(***************************************************************************)
ClosedUp(S) == \A r \in S \cap Named : Parent[r] \in S

Chain == [r \in Roles |->
  { x \in Roles : \A S \in SUBSET Roles : r \in S /\ ClosedUp(S) => x \in S }]

(* rolemap_has(): the role, or an ancestor of it, is in the rolemap.       *)
RolemapHas(map, r) == Chain[r] \cap map # {}

(***************************************************************************)
(* Walking down: gen_role() prints "r" and recurses into its children, but *)
(* prints nothing for "all" itself.                                        *)
(***************************************************************************)
ClosedDown(S) == \A c \in Named : Parent[c] \in S => c \in S

Beneath == [r \in Roles |->
  { x \in Roles : \A S \in SUBSET Roles : r \in S /\ ClosedDown(S) => x \in S }]

(* Mutation: the switch does not descend to children.                    *)
CasesFlat(map) == map \ {All}

Cases(map) == (UNION { Beneath[r] : r \in map }) \ {All}

(***************************************************************************)
(* What the generated db_open() tells sqlbox.  gen_role_hier() prints an   *)
(* edge unless the parent is "all"; gen_role_stmt_all() replaces a grant   *)
(* to "all" by grants to its children; gen_role_stmt() prints no grant for *)
(* "all" and "none".                                                       *)
(***************************************************************************)
TopRoles == { r \in Named : Parent[r] = All }
HierChildren == Named \ TopRoles

(* Mutation: a grant to "all" reaches the reserved roles too.            *)
HierStmtsEveryone(map) ==
  IF All \in map THEN Enterable ELSE map \ {All, None}

(* Mutation: a grant to "all" is left out, as "all" is no role of sqlbox.  *)
HierStmtsNotAll(map) == map \ {All, None}

HierStmts(map) ==
  (map \ {All, None}) \cup (IF All \in map THEN TopRoles ELSE {})

(* External: in sqlbox a child has the statements of its parents.          *)
ClosedHier(S) == \A r \in S \cap HierChildren : Parent[r] \in S

HierChain == [r \in Roles |->
  { x \in Roles : \A S \in SUBSET Roles : r \in S /\ ClosedHier(S) => x \in S }]

BoxMayRun(map, r) == HierChain[r] \cap HierStmts(map) # {}

(* External: a role may be exchanged for itself and for an ancestor; the   *)
(* start role for any; the sink may be entered from everywhere.            *)
BoxMayBecome(from, to) ==
  \/ to \in HierChain[from]
  \/ from = Default
  \/ to = None

(* Mutation: only the parent can be entered.                             *)
RoleCasesParent(r) == IF r \in Named THEN {Parent[r]} \ {All} ELSE {}

(***************************************************************************)
(* gen_func_rolecases(): the proper ancestors below "all".                 *)
(***************************************************************************)
RoleCases(r) == IF r \in Named THEN Chain[Parent[r]] \ {All} ELSE {}
===============================================================================
