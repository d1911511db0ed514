--------------------------- MODULE RoleTree_proofs ---------------------------
(***************************************************************************)
(* The walks of RoleTree agree, for every tree of roles: upward in the     *)
(* audit, downward in the generated switches, and through the edges and    *)
(* grants handed to sqlbox.                                                *)
(***************************************************************************)
EXTENDS RoleTree, TLAPS

(* A chain starts with the role itself and has the parent of each member.  *)
LEMMA ChainHasSelf ==
  ASSUME NEW r \in Roles
  PROVE  r \in Chain[r]
BY DEF Chain

LEMMA ChainClosedUp ==
  ASSUME NEW r \in Roles
  PROVE  Chain[r] \subseteq Roles /\ ClosedUp(Chain[r])
<1>1. Chain[r] \subseteq Roles
  BY DEF Chain
<1>2. ASSUME NEW x \in Chain[r] \cap Named
      PROVE  Parent[x] \in Chain[r]
  <2>1. Parent[x] \in Roles
    BY ParentAssumption DEF Roles
  <2>2. ASSUME NEW S \in SUBSET Roles, r \in S, ClosedUp(S)
        PROVE  Parent[x] \in S
    BY <1>2, <2>2 DEF Chain, ClosedUp
  <2> QED BY <2>1, <2>2 DEF Chain
<1> QED BY <1>1, <1>2 DEF ClosedUp

(* A chain is the least set of its kind.                                   *)
LEMMA ChainLeast ==
  ASSUME NEW r \in Roles, NEW S \in SUBSET Roles, r \in S, ClosedUp(S)
  PROVE  Chain[r] \subseteq S
BY DEF Chain

(* The chain of an ancestor is part of the chain.                          *)
LEMMA ChainTransitive ==
  ASSUME NEW r \in Roles, NEW x \in Chain[r]
  PROVE  Chain[x] \subseteq Chain[r]
<1>1. Chain[r] \in SUBSET Roles /\ ClosedUp(Chain[r]) /\ x \in Roles
  BY ChainClosedUp
<1> QED BY <1>1, ChainLeast

(* A reserved role has no ancestor.                                        *)
LEMMA ChainReserved ==
  ASSUME NEW r \in {All, Default, None}
  PROVE  Chain[r] = {r}
<1>1. r \in Roles /\ {r} \in SUBSET Roles /\ ClosedUp({r})
  BY ReservedAssumption DEF Roles, ClosedUp
<1> QED BY <1>1, ChainLeast, ChainHasSelf

(* Every named role is beneath "all".                                      *)
LEMMA ChainReachesAll ==
  ASSUME NEW r \in Named
  PROVE  All \in Chain[r]
<1> DEFINE N == Chain[r] \cap Named
<1>1. r \in Roles
  BY DEF Roles
<1>2. r \in N
  BY <1>1, ChainHasSelf
<1>3. PICK x \in N : Parent[x] \notin N
  BY <1>2, RootedAssumption
<1>4. Parent[x] \in Chain[r]
  BY <1>1, ChainClosedUp DEF ClosedUp
<1>5. Parent[x] = All
  BY <1>3, <1>4, ParentAssumption
<1> QED BY <1>4, <1>5

(* Walking down from r meets x exactly if walking up from x meets r.       *)
LEMMA BeneathIsChain ==
  ASSUME NEW r \in Roles, NEW x \in Roles
  PROVE  x \in Beneath[r] <=> r \in Chain[x]
<1>1. ASSUME x \in Beneath[r]
      PROVE  r \in Chain[x]
  <2> DEFINE D == { y \in Roles : r \in Chain[y] }
  <2>1. r \in D
    BY ChainHasSelf
  <2>2. ASSUME NEW c \in Named, Parent[c] \in D
        PROVE  c \in D
    <3>1. c \in Roles
      BY DEF Roles
    <3>2. Parent[c] \in Chain[c]
      BY <3>1, ChainHasSelf, ChainClosedUp DEF ClosedUp
    <3> QED BY <2>2, <3>1, <3>2, ChainTransitive
  <2>3. ClosedDown(D)
    BY <2>2 DEF ClosedDown
  <2>4. x \in D
    BY <1>1, <2>1, <2>3 DEF Beneath
  <2> QED BY <2>4
<1>2. ASSUME r \in Chain[x]
      PROVE  x \in Beneath[r]
  <2>1. SUFFICES ASSUME NEW D \in SUBSET Roles, r \in D, ClosedDown(D)
                 PROVE  x \in D
    BY DEF Beneath
  <2> DEFINE U == Roles \ D
  <2>2. ASSUME x \notin D PROVE FALSE
    <3>1. ClosedUp(U)
      BY <2>1, ParentAssumption DEF ClosedUp, ClosedDown, Roles
    <3>2. Chain[x] \subseteq U
      BY <2>2, <3>1, ChainLeast
    <3> QED BY <1>2, <2>1, <3>2
  <2> QED BY <2>2
<1> QED BY <1>1, <1>2

(* The switch printed for a rolemap and the audit agree about every role   *)
(* a program can be in.                                                    *)
THEOREM CasesAreAudited ==
  ASSUME NEW map \in SUBSET Roles, NEW r \in Enterable
  PROVE  r \in Cases(map) <=> RolemapHas(map, r)
<1>1. r \in Roles /\ r # All
  BY DEF Enterable
<1>2. \A m \in map : r \in Beneath[m] <=> m \in Chain[r]
  BY <1>1, BeneathIsChain
<1> QED BY <1>1, <1>2 DEF Cases, RolemapHas

(* The chain through the edges given to sqlbox is the chain of parents     *)
(* without "all".                                                          *)
LEMMA HierChainIsChain ==
  ASSUME NEW r \in Enterable
  PROVE  HierChain[r] = Chain[r] \ {All}
<1>1. r \in Roles /\ r # All
  BY DEF Enterable
<1>2. HierChain[r] \subseteq Chain[r] \ {All}
  <2>1. ClosedHier(Chain[r] \ {All})
    BY <1>1, ChainClosedUp DEF ClosedHier, ClosedUp, HierChildren, TopRoles
  <2>2. r \in Chain[r] \ {All} /\ Chain[r] \ {All} \in SUBSET Roles
    BY <1>1, ChainHasSelf, ChainClosedUp
  <2> QED BY <1>1, <2>1, <2>2 DEF HierChain
<1>3. Chain[r] \ {All} \subseteq HierChain[r]
  <2>1. SUFFICES ASSUME NEW S \in SUBSET Roles, r \in S, ClosedHier(S)
                 PROVE  Chain[r] \subseteq S \cup {All}
    BY <1>1 DEF HierChain, Chain
  <2>2. ClosedUp(S \cup {All})
    BY <2>1, ReservedAssumption
       DEF ClosedUp, ClosedHier, HierChildren, TopRoles
  <2>3. S \cup {All} \in SUBSET Roles /\ r \in S \cup {All}
    BY <2>1 DEF Roles
  <2> QED BY <1>1, <2>2, <2>3, ChainLeast
<1> QED BY <1>2, <1>3

(* A role other than a reserved one is, or is beneath, a child of "all".   *)
LEMMA ChainHasTop ==
  ASSUME NEW r \in Named
  PROVE  Chain[r] \cap TopRoles # {}
<1>1. r \in Roles /\ r # All
  BY ReservedAssumption DEF Roles
<1>2. SUFFICES ASSUME Chain[r] \cap TopRoles = {} PROVE FALSE
  OBVIOUS
<1>3. ClosedUp(Chain[r] \ {All})
  BY <1>1, <1>2, ChainClosedUp DEF ClosedUp, TopRoles
<1>4. Chain[r] \subseteq Chain[r] \ {All}
  BY <1>1, <1>3, ChainHasSelf, ChainClosedUp, ChainLeast
<1> QED BY <1>4, ChainReachesAll

(* What sqlbox lets a role run is what the audit reports of the role.      *)
THEOREM BoxIsAudited ==
  ASSUME NEW map \in SUBSET Assignable, NEW r \in Enterable
  PROVE  BoxMayRun(map, r) <=> RolemapHas(map, r)
<1>1. r \in Roles /\ r # All /\ HierChain[r] = Chain[r] \ {All}
  BY HierChainIsChain DEF Enterable
<1>2. map \subseteq Roles /\ None \notin map
  BY DEF Assignable
<1>3. CASE r \in Named
  <2>1. All \in Chain[r] /\ Chain[r] \cap TopRoles # {}
    BY <1>3, ChainReachesAll, ChainHasTop
  <2>2. TopRoles \subseteq Named /\ All \notin TopRoles
    BY ReservedAssumption DEF TopRoles
  <2>3. ASSUME All \in map PROVE BoxMayRun(map, r) /\ RolemapHas(map, r)
    BY <1>1, <2>1, <2>2, <2>3 DEF BoxMayRun, RolemapHas, HierStmts
  <2>4. ASSUME All \notin map
        PROVE  BoxMayRun(map, r) <=> RolemapHas(map, r)
    BY <1>1, <1>2, <2>4 DEF BoxMayRun, RolemapHas, HierStmts
  <2> QED BY <2>3, <2>4
<1>4. CASE r \in {Default, None}
  <2>1. Chain[r] = {r} /\ HierChain[r] = {r}
    BY <1>1, <1>4, ChainReserved
  <2>2. r \notin TopRoles
    BY <1>4, ReservedAssumption DEF TopRoles
  <2> QED
    BY <1>1, <1>2, <1>4, <2>1, <2>2, ReservedAssumption
       DEF BoxMayRun, RolemapHas, HierStmts
<1> QED BY <1>1, <1>3, <1>4 DEF Enterable, Roles

(* Going up the tree loses rights and gains none.                          *)
THEOREM AncestorsMayLess ==
  ASSUME NEW map, NEW r \in Roles, NEW x \in Chain[r],
         RolemapHas(map, x)
  PROVE  RolemapHas(map, r)
BY ChainTransitive DEF RolemapHas
==============================================================================
