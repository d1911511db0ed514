-------------------------- MODULE RoleRuntime_proofs --------------------------
(***************************************************************************)
(* The invariants of RoleRuntime, for every tree of roles and every set of *)
(* rolemaps, and that the C back end implements AccessControl.             *)
(***************************************************************************)
EXTENDS RoleRuntime, RoleTree_proofs

(* The first role entered is recorded exactly while the default is left.   *)
StartLeft == role = Default <=> first = "nothing"

(* What the C back end adds: sqlbox and the context are in the same role,  *)
(* and every operation carried out was granted.                            *)
BoxInv == BoxAgrees /\ ExecutedGranted /\ DeniedUngranted /\ StartLeft

LEMMA EnterableRoles ==
  /\ Default \in Enterable /\ None \in Enterable
  /\ Named \subseteq Enterable /\ Enterable \subseteq Roles
  /\ Enterable = Named \cup {Default, None}
BY ReservedAssumption DEF Enterable, Roles

LEMMA TypeStep ==
  ASSUME TypeOK, [Next]_vars
  PROVE  TypeOK'
<1>1. ASSUME NEW r \in Enterable, DbRole(r) PROVE TypeOK'
  <2>1. CASE UsesBox /\ ~BoxMayBecome(box, r)
    BY <1>1, <2>1 DEF TypeOK, DbRole, RefuseRole, config
  <2>2. CASE ~(UsesBox /\ ~BoxMayBecome(box, r)) /\ (r = role \/ Switch(role, r))
    BY <1>1, <2>2, EnterableRoles DEF TypeOK, DbRole, Become, config
  <2>3. CASE ~(UsesBox /\ ~BoxMayBecome(box, r)) /\ ~(r = role \/ Switch(role, r))
    BY <1>1, <2>3, EnterableRoles DEF TypeOK, DbRole, RefuseRole, config
  <2> QED BY <2>1, <2>2, <2>3
<1>2. ASSUME NEW r \in Enterable, Export(r) PROVE TypeOK'
  BY <1>2 DEF TypeOK, Export, config
<1>3. ASSUME NEW op \in Ops, Run(op) PROVE TypeOK'
  BY <1>3, EnterableRoles DEF TypeOK, Run, Serve, Deny, config
<1>4. CASE UNCHANGED vars
  BY <1>4 DEF TypeOK, vars, config
<1> QED BY <1>1, <1>2, <1>3, <1>4 DEF Next

(* Every variable keeps to its type, with every back end: whatever db_role *)
(* is asked for, the program is never in the role "all".                   *)
THEOREM TypeCorrect == Spec => []TypeOK
<1>1. Init => TypeOK
  BY EnterableRoles DEF Init, TypeOK
<1> QED BY <1>1, TypeStep, PTL DEF Spec

(* A field that a rolemap hides from a role is never exported from an      *)
(* object created in that role or in one beneath it, with every back end.  *)
THEOREM FieldsHidden == Spec => []ExportGranted
<1>1. Init => ExportGranted
  BY DEF Init, ExportGranted
<1>2. TypeOK /\ ExportGranted /\ [Next]_vars => ExportGranted'
  <2> SUFFICES ASSUME TypeOK, ExportGranted, [Next]_vars PROVE ExportGranted'
    OBVIOUS
  <2>1. ASSUME NEW r \in Enterable, Export(r) PROVE ExportGranted'
    <3>1. noexport \in SUBSET Roles
      BY RolemapsAssumption DEF TypeOK, Assignable
    <3>2. r \notin Cases(noexport) => ~RolemapHas(noexport, r)
      BY <3>1, CasesAreAudited
    <3>3. exported' \subseteq exported \cup {r} /\ noexport' = noexport
          /\ (r \in Cases(noexport) => exported' = exported)
      BY <2>1 DEF Export, config
    <3> QED BY <3>2, <3>3 DEF ExportGranted
  <2>2. (\E r \in Enterable : DbRole(r)) \/ (\E op \in Ops : Run(op))
        \/ UNCHANGED vars
        => UNCHANGED <<noexport, exported>>
    BY DEF DbRole, RefuseRole, Become, Run, Serve, Deny, vars, config
  <2>3. UNCHANGED <<noexport, exported>> => ExportGranted'
    BY DEF ExportGranted
  <2> QED BY <2>1, <2>2, <2>3 DEF Next
<1> QED BY <1>1, <1>2, TypeCorrect, PTL DEF Spec

(* A role that the switch of the C back end lets be entered is an ancestor *)
(* of the current one; the default role is left for good.                  *)
LEMMA SwitchAscends ==
  ASSUME UsesBox, NEW from \in Enterable, from # Default,
         NEW to \in Enterable, Switch(from, to)
  PROVE  to \in Chain[from] /\ to # Default
<1>1. from \in Named /\ to \in Chain[Parent[from]] \ {All}
  BY DEF Switch, RoleCases
<1>2. from \in Roles /\ Parent[from] \in Chain[from]
  BY <1>1, EnterableRoles, ChainHasSelf, ChainClosedUp DEF ClosedUp
<1>3. to \in Chain[from]
  BY <1>1, <1>2, ChainTransitive
<1>4. Default \notin Chain[from]
  <2>1. Named \cup {All} \in SUBSET Roles /\ from \in Named \cup {All}
    BY <1>1 DEF Roles
  <2>2. ClosedUp(Named \cup {All})
    BY ParentAssumption, ReservedAssumption DEF ClosedUp
  <2>3. Chain[from] \subseteq Named \cup {All}
    BY <1>2, <2>1, <2>2, ChainLeast
  <2> QED BY <2>3, ReservedAssumption
<1> QED BY <1>3, <1>4

LEMMA BoxStep ==
  ASSUME UsesBox, TypeOK, BoxInv, [Next]_vars
  PROVE  BoxInv' /\ (role' # role => role = Default \/ role' \in Chain[role])
<1> USE DEF BoxInv
<1>1. ASSUME NEW r \in Enterable, DbRole(r)
      PROVE  BoxInv' /\ (role' # role => role = Default \/ role' \in Chain[role])
  <2>1. status = "running" /\ box = role /\ role \in Enterable
    BY <1>1, EnterableRoles DEF DbRole, BoxAgrees, TypeOK
  <2>2. rolemap' = rolemap /\ ExecutedGranted' /\ DeniedUngranted'
    BY <1>1 DEF DbRole, RefuseRole, Become, config, ExecutedGranted,
              DeniedUngranted
  <2>3. CASE ~BoxMayBecome(box, r)
    BY <1>1, <2>2, <2>3
       DEF DbRole, RefuseRole, BoxAgrees, StartLeft
  <2>4. CASE BoxMayBecome(box, r) /\ ~(r = role \/ Switch(role, r))
    BY <1>1, <2>2, <2>4
       DEF DbRole, RefuseRole, BoxAgrees, StartLeft
  <2>5. CASE BoxMayBecome(box, r) /\ (r = role \/ Switch(role, r))
    <3>1. box' = r /\ role' = r
          /\ first' = IF role = Default /\ r # Default THEN r ELSE first
      BY <1>1, <2>5 DEF DbRole, Become
    <3>2. r # role => role = Default \/ (r \in Chain[role] /\ r # Default)
      BY <2>1, <2>5, SwitchAscends
    <3>3. StartLeft'
      <4>1. r # "nothing"
        BY EnterableRoles, NothingAssumption
      <4> QED BY <3>1, <3>2, <4>1 DEF StartLeft
    <3> QED BY <2>2, <3>1, <3>2, <3>3 DEF BoxAgrees
  <2> QED BY <2>3, <2>4, <2>5
<1>2. ASSUME NEW r \in Enterable, Export(r) PROVE BoxInv' /\ role' = role
  BY <1>2 DEF Export, config, BoxAgrees, ExecutedGranted, DeniedUngranted,
              StartLeft
<1>3. ASSUME NEW op \in Ops, Run(op) PROVE BoxInv' /\ role' = role
  <2>1. status = "running" /\ box = role /\ role \in Enterable
    BY <1>3, EnterableRoles DEF Run, BoxAgrees, TypeOK
  <2>2. rolemap' = rolemap /\ role' = role /\ first' = first /\ box' = box
        /\ (status' = "running" => status = "running")
    BY <1>3, <2>1 DEF Run, Serve, Deny, config
  <2>3. CASE MayRun(Current, op) /\ Serve(op)
    <3>1. rolemap[op] \in SUBSET Assignable
      BY RolemapsAssumption DEF TypeOK
    <3>2. RolemapHas(rolemap[op], role)
      BY <2>1, <2>3, <3>1, BoxIsAudited DEF MayRun, Current
    <3>3. executed' = executed \cup {<<role, op>>} /\ denied' = denied
      BY <2>3 DEF Serve
    <3> QED BY <2>2, <3>2, <3>3
            DEF BoxAgrees, ExecutedGranted, DeniedUngranted, StartLeft
  <2>4. CASE ~(MayRun(Current, op) /\ MayFollow(op)) /\ Deny(op)
    <3>1. executed' = executed /\ denied' = {<<role, op>>}
      BY <2>4 DEF Deny
    <3>2. rolemap[op] \in SUBSET Assignable
      BY RolemapsAssumption DEF TypeOK
    <3>3. op \notin Following => ~RolemapHas(rolemap[op], role)
      BY <2>1, <2>4, <3>2, BoxIsAudited DEF MayRun, MayFollow, Current
    <3> QED BY <2>2, <3>1, <3>3
            DEF BoxAgrees, ExecutedGranted, DeniedUngranted, StartLeft
  <2> QED BY <1>3, <2>3, <2>4 DEF Run
<1>4. CASE UNCHANGED vars
  BY <1>4 DEF vars, config, BoxAgrees, ExecutedGranted, DeniedUngranted,
              StartLeft
<1> QED BY <1>1, <1>2, <1>3, <1>4 DEF Next

LEMMA BoxInvariant == ASSUME UsesBox PROVE Spec => []BoxInv
<1>1. Init => BoxInv
  BY NothingAssumption
     DEF Init, BoxInv, BoxAgrees, ExecutedGranted, DeniedUngranted,
         StartLeft, Enterable
<1>2. TypeOK /\ BoxInv /\ [Next]_vars => BoxInv'
  BY BoxStep
<1> QED BY <1>1, <1>2, TypeCorrect, PTL DEF Spec

(* With the C back end, the role stored in objects and the role of sqlbox  *)
(* are the same as long as the program runs.                               *)
THEOREM RolesAgree == ASSUME UsesBox PROVE Spec => []BoxAgrees
BY BoxInvariant, PTL DEF BoxInv

(* With the C back end, an operation is carried out only in a role the     *)
(* configuration, as src/audit.c reads it, grants it to.                   *)
THEOREM OperationsGranted == ASSUME UsesBox PROVE Spec => []ExecutedGranted
BY BoxInvariant, PTL DEF BoxInv

(* With the C back end, an operation the configuration grants to the role  *)
(* never ends the program, but to follow references that may be null.      *)
THEOREM GrantsHonoured == ASSUME UsesBox PROVE Spec => []DeniedUngranted
BY BoxInvariant, PTL DEF BoxInv

(* With the C back end, once the default role is left the program only     *)
(* goes up the tree of roles.                                              *)
THEOREM OnlyAscends == ASSUME UsesBox PROVE Spec => AncestorsOnly
<1>1. TypeOK /\ BoxInv /\ [Next]_vars
      => [role' # role => role = Default \/ role' = None
                          \/ role' \in Chain[role]]_vars
  BY BoxStep
<1> QED BY <1>1, TypeCorrect, BoxInvariant, PTL DEF Spec, AncestorsOnly

(* The proper ancestors of a named role are the ancestors of its parent.   *)
LEMMA ChainOfParent ==
  ASSUME NEW r \in Named
  PROVE  Chain[r] \subseteq {r} \cup Chain[Parent[r]]
<1>1. r \in Roles /\ Parent[r] \in Roles
  BY ParentAssumption DEF Roles
<1>2. Chain[Parent[r]] \subseteq Roles /\ ClosedUp(Chain[Parent[r]])
  BY <1>1, ChainClosedUp
<1>3. Parent[r] \in Chain[Parent[r]]
  BY <1>1, ChainHasSelf
<1>4. ClosedUp({r} \cup Chain[Parent[r]])
  BY <1>2, <1>3 DEF ClosedUp
<1>5. {r} \cup Chain[Parent[r]] \in SUBSET Roles
  BY <1>1, <1>2
<1> QED BY <1>1, <1>4, <1>5, ChainLeast

(* A refusal is remembered with the role it was made in, as the program    *)
(* has ended.                                                              *)
RefusedInv == AncestorsAccepted /\ (refused \in Enterable => status # "running")

LEMMA RefusedStep ==
  ASSUME UsesBox, TypeOK, BoxInv, RefusedInv, [Next]_vars
  PROVE  RefusedInv'
<1>1. ASSUME NEW r \in Enterable, DbRole(r) PROVE RefusedInv'
  <2>1. /\ status = "running" /\ box = role /\ role \in Enterable
        /\ refused \notin Enterable
    BY <1>1, EnterableRoles DEF DbRole, BoxAgrees, BoxInv, TypeOK, RefusedInv
  <2>2. role \in Roles /\ r \in Roles /\ r # All
    BY <2>1, EnterableRoles DEF Enterable
  <2>3. CASE ~BoxMayBecome(box, r)
    <3>1. refused' = r /\ role' = role /\ status' = "exited"
      BY <1>1, <2>3 DEF DbRole, RefuseRole
    <3>2. r \notin HierChain[role] /\ HierChain[role] = Chain[role] \ {All}
      BY <2>1, <2>3, HierChainIsChain DEF BoxMayBecome
    <3> QED BY <2>2, <3>1, <3>2 DEF RefusedInv, AncestorsAccepted
  <2>4. CASE BoxMayBecome(box, r) /\ ~(r = role \/ Switch(role, r))
    <3>1. refused' = r /\ role' = role /\ status' = "aborted"
      BY <1>1, <2>4 DEF DbRole, RefuseRole
    <3>2. r # role /\ role # Default
      BY <2>4 DEF Switch
    <3>3. r \notin Chain[role]
      <4>1. CASE role \in Named
        BY <2>2, <2>4, <3>2, <4>1, ChainOfParent DEF Switch, RoleCases
      <4>2. CASE role \notin Named
        BY <2>1, <3>2, <4>2, ChainReserved DEF Enterable, Roles
      <4> QED BY <4>1, <4>2
    <3> QED BY <3>1, <3>3 DEF RefusedInv, AncestorsAccepted
  <2>5. CASE BoxMayBecome(box, r) /\ (r = role \/ Switch(role, r))
    BY <1>1, <2>1, <2>5 DEF DbRole, Become, RefusedInv, AncestorsAccepted
  <2> QED BY <2>3, <2>4, <2>5
<1>2. ASSUME NEW r \in Enterable, Export(r) PROVE RefusedInv'
  BY <1>2 DEF Export, RefusedInv, AncestorsAccepted
<1>3. ASSUME NEW op \in Ops, Run(op) PROVE RefusedInv'
  BY <1>3 DEF Run, Serve, Deny, RefusedInv, AncestorsAccepted
<1>4. CASE UNCHANGED vars
  BY <1>4 DEF vars, RefusedInv, AncestorsAccepted
<1> QED BY <1>1, <1>2, <1>3, <1>4 DEF Next

(* With the C back end, neither sqlbox nor the switch refuses to go up.    *)
THEOREM AscentGranted == ASSUME UsesBox PROVE Spec => []AncestorsAccepted
<1>1. Init => RefusedInv
  BY NothingAssumption DEF Init, RefusedInv, AncestorsAccepted, Enterable
<1>2. TypeOK /\ BoxInv /\ RefusedInv /\ [Next]_vars => RefusedInv'
  BY RefusedStep
<1>3. RefusedInv => AncestorsAccepted
  BY DEF RefusedInv
<1> QED BY <1>1, <1>2, <1>3, TypeCorrect, BoxInvariant, PTL DEF Spec

(* In nodejs and Rust, the check in front of an operation with a rolemap   *)
(* lets through the roles that src/audit.c reports, and no others.         *)
THEOREM MappedOnly == ASSUME ~UsesBox PROVE Spec => []MappedGranted
<1>1. Init => MappedGranted
  BY DEF Init, MappedGranted
<1>2. TypeOK /\ MappedGranted /\ [Next]_vars => MappedGranted'
  <2> SUFFICES ASSUME TypeOK, MappedGranted, [Next]_vars PROVE MappedGranted'
    OBVIOUS
  <2>1. ASSUME NEW op \in Ops, Run(op) PROVE MappedGranted'
    <3>1. rolemap' = rolemap /\ role \in Enterable /\ rolemap[op] \in SUBSET Roles
      BY <2>1, RolemapsAssumption, EnterableRoles DEF Run, Serve, Deny, config, TypeOK, Assignable
    <3>2. CASE MayRun(Current, op) /\ Serve(op)
      <4>1. executed' = executed \cup {<<role, op>>}
        BY <3>2 DEF Serve
      <4>2. rolemap[op] # {} => RolemapHas(rolemap[op], role)
        BY <3>1, <3>2, CasesAreAudited DEF MayRun, Current
      <4> QED BY <3>1, <4>1, <4>2 DEF MappedGranted
    <3>3. CASE Deny(op)
      BY <3>1, <3>3 DEF Deny, MappedGranted
    <3> QED BY <2>1, <3>2, <3>3 DEF Run
  <2>2. (\E r \in Enterable : DbRole(r) \/ Export(r)) \/ UNCHANGED vars
        => UNCHANGED <<rolemap, executed>>
    BY DEF DbRole, RefuseRole, Become, Export, vars, config
  <2>3. UNCHANGED <<rolemap, executed>> => MappedGranted'
    BY DEF MappedGranted
  <2> QED BY <2>1, <2>2, <2>3 DEF Next
<1> QED BY <1>1, <1>2, TypeCorrect, PTL DEF Spec

(* The steps of the C back end, as AccessControl sees them.                *)
LEMMA RefinedRole ==
  ASSUME UsesBox, TypeOK, BoxInv, NEW r \in Enterable, DbRole(r)
  PROVE  AC!Assume \/ AC!Narrow \/ AC!Stop \/ UNCHANGED AC!vars
<1>1. status = "running" /\ box = role /\ role \in Enterable
      /\ rolemap' = rolemap /\ executed' = executed
  BY EnterableRoles DEF DbRole, RefuseRole, Become, config, BoxAgrees, TypeOK, BoxInv
<1>2. \A x : Allowed(x)' = Allowed(x)
  BY <1>1 DEF Allowed, MayRun
<1>3. CASE ~BoxMayBecome(box, r) \/ ~(r = role \/ Switch(role, r))
  <2>1. status' \in {"exited", "aborted"} /\ role' = role /\ first' = first
    BY <1>3 DEF DbRole, RefuseRole
  <2> QED BY <1>1, <1>2, <2>1 DEF AC!Stop, Allowed, MayRun
<1>4. CASE BoxMayBecome(box, r) /\ (r = role \/ Switch(role, r))
  <2>1. role' = r /\ status' = status
        /\ first' = IF role = Default /\ r # Default THEN r ELSE first
    BY <1>4 DEF DbRole, Become
  <2>2. r # "nothing"
    BY EnterableRoles, NothingAssumption
  <2>3. CASE r = role
    BY <1>1, <2>1, <2>3 DEF AC!vars, Allowed, MayRun
  <2>4. CASE r # role /\ role = Default
    <3>1. first = "nothing" /\ first' = r /\ role' = r
      BY <2>1, <2>4 DEF BoxInv, StartLeft
    <3> QED BY <1>1, <2>1, <2>2, <3>1 DEF AC!Assume, Allowed, MayRun
  <2>5. CASE r # role /\ role # Default
    <3>1. first # "nothing" /\ first' = first
      BY <2>1, <2>5 DEF BoxInv, StartLeft
    <3>2. r \in Chain[role] /\ role \in Roles
      BY <1>1, <1>4, <2>5, SwitchAscends, EnterableRoles
    <3>3. Allowed(r) \subseteq Allowed(role)
      <4>1. ASSUME NEW op \in Ops, BoxMayRun(rolemap[op], r)
            PROVE  BoxMayRun(rolemap[op], role)
        <5>1. rolemap[op] \in SUBSET Assignable
          BY RolemapsAssumption DEF TypeOK
        <5>2. RolemapHas(rolemap[op], r)
          BY <4>1, <5>1, BoxIsAudited
        <5>3. RolemapHas(rolemap[op], role)
          BY <3>2, <5>2, AncestorsMayLess
        <5> QED BY <1>1, <5>1, <5>3, BoxIsAudited
      <4> QED BY <4>1 DEF Allowed, MayRun
    <3> QED BY <1>1, <2>1, <3>1, <3>3 DEF AC!Narrow, Allowed, MayRun
  <2> QED BY <2>3, <2>4, <2>5
<1> QED BY <1>3, <1>4

LEMMA RefinedRun ==
  ASSUME UsesBox, TypeOK, BoxInv, NEW op \in Ops, Run(op)
  PROVE  AC!Use(op) \/ AC!Stop
<1>1. status = "running" /\ box = role /\ role \in Enterable
      /\ rolemap' = rolemap /\ role' = role /\ first' = first
  BY EnterableRoles DEF Run, Serve, Deny, config, BoxAgrees, TypeOK, BoxInv
<1>2. CASE MayRun(Current, op) /\ Serve(op)
  <2>1. executed' = executed \cup {<<role, op>>} /\ status' = status
    BY <1>2 DEF Serve
  <2>2. op \in Allowed(role)
    BY <1>1, <1>2 DEF Allowed, Current
  <2>3. { o \in Ops : \E r \in Enterable \ {Default} : <<r, o>> \in executed }'
        = IF first # "nothing"
          THEN { o \in Ops : \E r \in Enterable \ {Default} :
                               <<r, o>> \in executed } \cup {op}
          ELSE { o \in Ops : \E r \in Enterable \ {Default} :
                               <<r, o>> \in executed }
    BY <1>1, <2>1 DEF BoxInv, StartLeft
  <2> QED BY <1>1, <2>1, <2>2, <2>3 DEF AC!Use, Allowed, MayRun
<1>3. CASE Deny(op)
  BY <1>1, <1>3 DEF Deny, AC!Stop, Allowed, MayRun
<1> QED BY <1>2, <1>3 DEF Run

(* The C back end implements AccessControl: the operations a program can   *)
(* carry out are fixed when it leaves the default role and only lessen.    *)
THEOREM Refinement == ASSUME UsesBox PROVE Spec => ImplementsAccessControl
<1>1. Init => AC!Init
  BY DEF Init, AC!Init, Allowed
<1>2. TypeOK /\ BoxInv /\ [Next]_vars => [AC!Next]_(AC!vars)
  <2> SUFFICES ASSUME TypeOK, BoxInv, [Next]_vars
               PROVE  AC!Next \/ UNCHANGED AC!vars
    OBVIOUS
  <2>1. ASSUME NEW r \in Enterable, DbRole(r)
        PROVE  AC!Next \/ UNCHANGED AC!vars
    BY <2>1, RefinedRole DEF AC!Next
  <2>2. ASSUME NEW op \in Ops, Run(op) PROVE AC!Next
    BY <2>2, RefinedRun DEF AC!Next
  <2>3. ASSUME NEW r \in Enterable, Export(r) PROVE UNCHANGED AC!vars
    BY <2>3 DEF Export, config, AC!vars, Allowed, MayRun
  <2>4. CASE UNCHANGED vars
    BY <2>4 DEF vars, config, AC!vars, Allowed, MayRun
  <2> QED BY <2>1, <2>2, <2>3, <2>4 DEF Next
<1> QED BY <1>1, <1>2, TypeCorrect, BoxInvariant, PTL
        DEF Spec, ImplementsAccessControl, AC!Spec
===============================================================================
