------------------------------- MODULE Rolemaps -------------------------------
(***************************************************************************)
(* How the "roles" statements of a structure become the rolemaps of its    *)
(* operations and fields: rolemap_assign() of src/parser_struct.c collects *)
(* them, the three passes of linker_resolve() hand them out, and           *)
(* ort_parse_close() checks the result.                                    *)
(*                                                                         *)
(* Rolemaps are shared by pointer: opmap and fieldmap hold indices into    *)
(* maps, so that a change through one holder shows through every other.    *)
(***************************************************************************)
EXTENDS Naturals, SequencesExt

CONSTANTS RoleNames,     \* the names a statement may write
          Known,         \* those of them the configuration defines
          None,          \* the reserved role that cannot be assigned
          OpNames,       \* the operation names a statement may write
          Present,       \* the operations the structure has
          ExportNames,    \* the field names a statement may write
          Columns,       \* the fields the structure has
          RoleLists,     \* the role lists a statement may start with
          MaxWritten     \* bound on the roles written, over all targets

ASSUME TargetsAssumption ==
  /\ Known \subseteq RoleNames /\ None \in Known
  /\ Present \subseteq OpNames /\ Columns \subseteq ExportNames
  /\ OpNames \cap ExportNames = {}
  /\ {"all", "noexport"} \cap (OpNames \cup ExportNames) = {}
ASSUME RoleListsAssumption == RoleLists \subseteq Seq(RoleNames) \ {<<>>}

Targets == OpNames \cup ExportNames \cup {"all", "noexport"}

VARIABLES maps,      \* s->rq: <<[target, roles], ...>>
          opmap,     \* the rolemap of each operation, 0 if NULL
          fieldmap,  \* the rolemap of each field, 0 if NULL
          arolemap,  \* s->arolemap, 0 if NULL
          next,      \* position in the resolution queue
          pass,      \* "parse", "find", "post", "check", or an outcome
          missing,   \* a rolemap named nothing the structure has
          written,   \* history: the <<target, role>> of the statements
          repeated   \* history: those written more than once
roleVars == <<maps, opmap, fieldmap, arolemap, next, pass, missing,
              written, repeated>>

Outcomes == {"refused", "unknown role", "not found", "aborted",
             "duplicate role", "linked"}
Passes == {"parse", "find", "post", "check"} \cup Outcomes

RolesOf(k) == IF k = 0 THEN {} ELSE Range(maps[k].roles)
Twice(rs) == { r \in Range(rs) : \E i, j \in DOMAIN rs :
                                     i # j /\ rs[i] = r /\ rs[j] = r }

RolesInit ==
  /\ maps = <<>> /\ arolemap = 0 /\ next = 1
  /\ opmap = [o \in Present |-> 0]
  /\ fieldmap = [f \in Columns |-> 0]
  /\ pass = "parse" /\ missing = FALSE
  /\ written = {} /\ repeated = {}

(***************************************************************************)
(* The parser.                                                             *)
(***************************************************************************)
FinishRoles(outcome) ==
  /\ pass' = outcome
  /\ UNCHANGED <<maps, opmap, fieldmap, arolemap, next, missing,
                 written, repeated>>

(* Mutation: every statement makes a rolemap of its own.                 *)
RolemapAlways(target, ns) == Append(maps, [target |-> target, roles |-> ns])

(* The maps after the roles ns are given to a target: one map per target.  *)
RolemapAssign(target, ns) ==
  IF \E k \in DOMAIN maps : maps[k].target = target
  THEN [k \in DOMAIN maps |->
          IF maps[k].target = target
          THEN [maps[k] EXCEPT !.roles = @ \o ns] ELSE maps[k]]
  ELSE Append(maps, [target |-> target, roles |-> ns])

(* Bounds: MaxWritten, and no statement after one that repeats a role.     *)
Statement(target, ns) ==
  /\ pass = "parse" /\ None \notin Range(ns)
  /\ repeated = {} /\ Cardinality(written) < MaxWritten
  /\ maps' = RolemapAssign(target, ns)
  /\ written' = written \cup {<<target, r>> : r \in Range(ns)}
  /\ repeated' = repeated \cup {<<target, r>> : r \in Twice(ns)}
                          \cup {<<target, r>> : r \in
                                 { q \in Range(ns) : <<target, q>> \in written }}
  /\ UNCHANGED <<opmap, fieldmap, arolemap, next, pass, missing>>

RefuseNone(ns) ==
  pass = "parse" /\ None \in Range(ns) /\ FinishRoles("refused")

(***************************************************************************)
(* The linker.  Its first pass links the role names.                       *)
(***************************************************************************)
EndParse ==
  /\ pass = "parse"
  /\ FinishRoles(IF \A k \in DOMAIN maps : RolesOf(k) \subseteq Known
            THEN "find" ELSE "unknown role")

(* Noexport roles: a field without rolemap shares the one given; otherwise *)
(* its roles are copied, up to the first that is already there.            *)
MergeField(dst, src) ==
  LET known == { k \in DOMAIN src : \/ src[k] \in Range(dst)
                                    \/ \E j \in 1..(k - 1) : src[j] = src[k] }
  IN dst \o (IF known = {} THEN src ELSE SubSeq(src, 1, Min(known) - 1))

(* Mutation: a field that has a rolemap is left as it is.                *)
HideUnlessSet(k, fields) ==
  /\ fieldmap' = [f \in Columns |->
       IF f \in fields /\ fieldmap[f] = 0 THEN k ELSE fieldmap[f]]
  /\ UNCHANGED <<maps, opmap, arolemap, missing, pass>>

(* Mutation: a later rolemap replaces an earlier one.                    *)
HideReplacing(k, fields) ==
  /\ fieldmap' = [f \in Columns |-> IF f \in fields THEN k ELSE fieldmap[f]]
  /\ UNCHANGED <<maps, opmap, arolemap, missing, pass>>

Hide(k, fields) ==
  /\ fieldmap' = [f \in Columns |->
       IF f \in fields /\ fieldmap[f] = 0 THEN k ELSE fieldmap[f]]
  /\ maps' = [j \in DOMAIN maps |->
       IF \E f \in fields : fieldmap[f] = j
       THEN [maps[j] EXCEPT !.roles = MergeField(@, maps[k].roles)]
       ELSE maps[j]]
  /\ UNCHANGED <<opmap, arolemap, missing, pass>>

NotFound == missing' = TRUE /\ UNCHANGED <<maps, opmap, fieldmap, arolemap, pass>>
Abort == pass' = "aborted"
         /\ UNCHANGED <<maps, opmap, fieldmap, arolemap, missing>>

(* The second pass gives each rolemap to what it names, in the order of    *)
(* the statements that first wrote it.                                     *)
FindAll(k) ==
  IF arolemap # 0 THEN Abort
  ELSE arolemap' = k /\ UNCHANGED <<maps, opmap, fieldmap, missing, pass>>

FindOperation(k, op) ==
  IF op \notin Present THEN NotFound
  ELSE IF opmap[op] # 0 THEN Abort
  ELSE /\ opmap' = [opmap EXCEPT ![op] = k]
       /\ UNCHANGED <<maps, fieldmap, arolemap, missing, pass>>

FindNoexport(k, target) ==
  IF target = "noexport" THEN Hide(k, Columns)
  ELSE IF target \in Columns THEN Hide(k, {target})
  ELSE NotFound

ResolveRolemap ==
  /\ pass = "find" /\ next <= Len(maps)
  /\ LET target == maps[next].target IN
     CASE target = "all"       -> FindAll(next)
       [] target \in OpNames   -> FindOperation(next, target)
       [] OTHER                -> FindNoexport(next, target)
  /\ next' = next + 1
  /\ UNCHANGED <<written, repeated>>

EndFind ==
  /\ pass = "find" /\ next > Len(maps)
  /\ FinishRoles(IF missing THEN "not found" ELSE "post")

(* The third pass adds the roles of "all" to every operation.              *)
(* Mutation: copying ends at the first role that is there.               *)
PostCoverStops(dst, src) == MergeField(dst, src)

(* The positions of a set in their order.                                *)
InOrder(S) == CHOOSE at \in [1..Cardinality(S) -> S] :
                \A i, j \in 1..Cardinality(S) : i < j => at[i] < at[j]

PostCover(dst, src) ==
  LET new == { k \in DOMAIN src : /\ src[k] \notin Range(dst)
                                  /\ \A j \in 1..(k - 1) : src[j] # src[k] }
  IN dst \o [i \in 1..Cardinality(new) |-> src[InOrder(new)[i]]]

CoverAll ==
  /\ pass = "post" /\ pass' = "check"
  /\ IF arolemap = 0 THEN UNCHANGED <<maps, opmap>>
     ELSE /\ opmap' = [o \in Present |->
               IF opmap[o] = 0 THEN arolemap ELSE opmap[o]]
          /\ maps' = [k \in DOMAIN maps |->
               IF \E o \in Present : opmap[o] = k
               THEN [maps[k] EXCEPT !.roles = PostCover(@, maps[arolemap].roles)]
               ELSE maps[k]]
  /\ UNCHANGED <<fieldmap, arolemap, next, missing, written, repeated>>

(* ort_parse_close(): no rolemap has a role twice.                         *)
CheckUniqueRoles ==
  /\ pass = "check"
  /\ FinishRoles(IF \A k \in DOMAIN maps : Twice(maps[k].roles) = {}
            THEN "linked" ELSE "duplicate role")

RolesNext ==
  \/ \E target \in Targets, ns \in RoleLists : Statement(target, ns)
  \/ \E ns \in RoleLists : RefuseNone(ns)
  \/ EndParse \/ ResolveRolemap \/ EndFind
  \/ CoverAll \/ CheckUniqueRoles

RolesSpec == RolesInit /\ [][RolesNext]_roleVars

(***************************************************************************)
(* Properties.                                                             *)
(***************************************************************************)
RolesWritten(targets) == { r \in RoleNames : \E t \in targets : <<t, r>> \in written }

(* In a linked configuration an operation is granted to the roles written  *)
(* for it and for "all", in whatever order they were, and to no others.    *)
OperationsExact ==
  pass = "linked" =>
    \A op \in Present : RolesOf(opmap[op]) = RolesWritten({op, "all"})

(* The assertions of the linker that what a rolemap names has none yet.    *)
NeverAborts == pass # "aborted"

(* The first noexport statement for a field is honoured in full, whatever  *)
(* the later ones add.                                                     *)
Hiding(f) == { k \in DOMAIN maps : maps[k].target \in {f, "noexport"} }
FirstNoexportKept ==
  pass = "linked" =>
    \A f \in Columns : Hiding(f) # {} =>
      RolesWritten({maps[Min(Hiding(f))].target}) \subseteq RolesOf(fieldmap[f])

(* A noexport statement for all fields reaches each of them with one role  *)
(* at least, whatever was written for single fields before and after it.   *)
(* The audit looks for the roles of the structure only (Audit, Linked),    *)
(* and the other ones may be lost on the way to a field.                   *)
Reaches(k) == \E r \in RolesOf(k) : \A f \in Columns : r \in RolesOf(fieldmap[f])
NoexportReaches ==
  pass = "linked" =>
    \A k \in DOMAIN maps : maps[k].target = "noexport" => Reaches(k)

(* As much as the linker keeps of what noexport statements hide.           *)
NoexportKept == FirstNoexportKept /\ NoexportReaches

===============================================================================
