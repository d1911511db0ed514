----------------------------- MODULE RoleRuntime -----------------------------
(***************************************************************************)
(* A program built from the generated code, as far as roles go: db_open(), *)
(* db_role(), the operations, and the export of the objects they return,   *)
(* for the three back ends that generate these (src/lang-c-source.c,       *)
(* src/lang-nodejs.c and src/lang-rust.c).                                 *)
(*                                                                         *)
(* The model starts when db_open() has returned.  The rolemaps are those   *)
(* of an arbitrary linked configuration.                                   *)
(***************************************************************************)
EXTENDS RoleTree

CONSTANTS Backend,  \* which generator: "c", "nodejs" or "rust"
          Ops,      \* insert, search, update, ... of the structures
          Queries,  \* those of them that return objects
          Following, \* those whose objects have references that may be null
          Rolemaps  \* the role sets the rolemaps are taken from

ASSUME BackendAssumption == Backend \in {"c", "nodejs", "rust"}
ASSUME QueriesAssumption == Following \subseteq Queries /\ Queries \subseteq Ops
ASSUME RolemapsAssumption == Rolemaps \subseteq SUBSET Assignable
ASSUME NothingAssumption == "nothing" \notin Roles

VARIABLES rolemap,   \* per operation, the roles of its rolemap; {} if NULL
          noexport,  \* the roles of the noexport rolemap of a field
          role,      \* ctx->role, this.#role, self.role
          box,       \* the role sqlbox is in (the C back end)
          first,     \* history: the first role entered, or "nothing"
          status,    \* "running", or how the program was ended
          refused,   \* the db_role() argument that ended it, or "nothing"
          denied,    \* the <<role, operation>> that ended it, if one did
          stored,    \* the roles in which the objects held were created
          executed,  \* the <<role, operation>> carried out
          exported   \* the roles whose objects had the field exported
vars == <<rolemap, noexport, role, box, first, status, refused, denied,
          stored, executed, exported>>
config == <<rolemap, noexport>>

UsesBox == Backend = "c"

Init ==
  /\ rolemap \in [Ops -> Rolemaps]
  /\ noexport \in Rolemaps
  /\ role = Default /\ box = Default /\ first = "nothing"
  /\ status = "running" /\ refused = "nothing"
  /\ denied = {} /\ stored = {} /\ executed = {} /\ exported = {}

(***************************************************************************)
(* db_role().  To the C function sqlbox_role() comes first and ends the    *)
(* program when it fails; the switch that follows abort()s.                *)
(***************************************************************************)
Switch(from, to) ==
  \/ from = Default
  \/ /\ from \in Named
     /\ to \in IF UsesBox THEN RoleCases(from) ELSE Cases({from})

(* Mutation: "none" is entered without being recorded.                   *)
BecomeUnlessNone(to) ==
  /\ role' = IF to = None THEN role ELSE to
  /\ first' = IF role = Default /\ to # Default THEN to ELSE first
  /\ UNCHANGED <<config, status, refused, denied, stored, executed, exported>>

Become(to) ==
  /\ role' = to
  /\ first' = IF role = Default /\ to # Default THEN to ELSE first
  /\ UNCHANGED <<config, status, refused, denied, stored, executed, exported>>

RefuseRole(to, how) ==
  /\ status' = how
  /\ refused' = to
  /\ UNCHANGED <<config, role, first, denied, stored, executed, exported>>

(* Mutation: neither sqlbox nor the switch is asked.                     *)
DbRoleUnchecked(to) ==
  status = "running" /\ box' = to /\ Become(to)

DbRole(to) ==
  /\ status = "running"
  /\ IF UsesBox /\ ~BoxMayBecome(box, to)
     THEN RefuseRole(to, "exited") /\ UNCHANGED box
     ELSE /\ box' = IF UsesBox THEN to ELSE box
          /\ IF to = role \/ Switch(role, to)
             THEN Become(to)
             ELSE RefuseRole(to, "aborted")

(***************************************************************************)
(* An operation.  In C its prepared statement is run by sqlbox, which      *)
(* checks the grants of db_open(); in nodejs and rust gen_rolemap() prints *)
(* a check before it, and prints none when there is no rolemap.            *)
(***************************************************************************)
(* Mutation: the default role is not checked.                            *)
MayRunDefault(r, op) ==
  rolemap[op] = {} \/ r = Default \/ r \in Cases(rolemap[op])

MayRun(r, op) ==
  IF UsesBox THEN BoxMayRun(rolemap[op], r)
             ELSE rolemap[op] = {} \/ r \in Cases(rolemap[op])

Current == IF UsesBox THEN box ELSE role

(* db_xxx_reffind(): once a row is there, references that are not null are *)
(* followed with statements of their own.  gen_roles() grants these as if  *)
(* their rolemap were "all".                                               *)
MayFollow(op) == op \notin Following \/ ~UsesBox \/ BoxMayRun({All}, box)

(* What a query returns remembers the role it was created in.              *)
Serve(op) ==
  /\ executed' = executed \cup {<<role, op>>}
  /\ stored' = IF op \in Queries THEN stored \cup {role} ELSE stored
  /\ UNCHANGED <<config, role, box, first, status, refused, denied, exported>>

Deny(op) ==
  /\ status' = IF UsesBox THEN "exited" ELSE "aborted"
  /\ denied' = {<<role, op>>}
  /\ UNCHANGED <<config, role, box, first, refused, stored, executed, exported>>

(* With nothing to follow in the rows found, only the first check counts.  *)
Run(op) ==
  /\ status = "running"
  /\ \/ MayRun(Current, op) /\ Serve(op)
     \/ ~(MayRun(Current, op) /\ MayFollow(op)) /\ Deny(op)

(* json_xxx_data() and its likes: a switch over the stored role around     *)
(* the field, absent when the field has no rolemap.                        *)
Export(r) ==
  /\ status = "running" /\ r \in stored
  /\ exported' = IF r \in Cases(noexport) THEN exported ELSE exported \cup {r}
  /\ UNCHANGED <<config, role, box, first, status, refused, denied, stored,
                 executed>>

Next ==
  \/ \E r \in Enterable : DbRole(r) \/ Export(r)
  \/ \E op \in Ops : Run(op)

Spec == Init /\ [][Next]_vars

(***************************************************************************)
(* Properties.                                                             *)
(***************************************************************************)
(* The role the program is in is a named one, "default" or "none", and     *)
(* never "all", which groups roles and cannot be entered.                  *)
TypeOK ==
  /\ rolemap \in [Ops -> Rolemaps]
  /\ noexport \in Rolemaps
  /\ first \in Enterable \cup {"nothing"}
  /\ role \in Named \cup {Default, None} /\ box \in Named \cup {Default, None}
  /\ status \in {"running", "exited", "aborted"}
  /\ refused \in Enterable \cup {"nothing"}
  /\ stored \in SUBSET Enterable /\ exported \in SUBSET Enterable
  /\ executed \in SUBSET (Enterable \X Ops)
  /\ denied \in SUBSET (Enterable \X Ops)

(* As long as the program runs, the two places that record the current     *)
(* role agree: the generated context, which is stored in objects and       *)
(* decides on export, and sqlbox, which decides on statements.             *)
BoxAgrees == UsesBox /\ status = "running" => box = role

(* man/ort.5: an operation is carried out only if the current role is a    *)
(* subtype of a role of its rolemap.  This is also what src/audit.c        *)
(* reports of the role, by a walk in the other direction.                  *)
ExecutedGranted ==
  \A r \in Enterable, op \in Ops :
    <<r, op>> \in executed => RolemapHas(rolemap[op], r)

(* The same for the operations that have a rolemap.                        *)
MappedGranted ==
  \A r \in Enterable, op \in Ops :
    <<r, op>> \in executed /\ rolemap[op] # {} => RolemapHas(rolemap[op], r)

(* The converse: an operation ends the program only in a role it is not    *)
(* granted to, or for want of the statements that follow references.       *)
DeniedUngranted ==
  \A r \in Enterable, op \in Ops :
    <<r, op>> \in denied /\ op \notin Following => ~RolemapHas(rolemap[op], r)

(* A field is exported from an object only if the role in which the object *)
(* was created is beneath no role of the noexport rolemap.                 *)
ExportGranted ==
  \A r \in exported : ~RolemapHas(noexport, r)

(* man/ort-c-header.1, db_role(): transitions are to ancestors, except     *)
(* when leaving the default role or entering "none".                       *)
AncestorsOnly ==
  [][role' # role => role = Default \/ role' = None \/ role' \in Chain[role]]_vars

(* The converse: a transition to an ancestor is never refused.             *)
AncestorsAccepted ==
  refused \in Enterable => refused \notin Chain[role]

(***************************************************************************)
(* The program implements AccessControl: the roles it goes through allow   *)
(* less and less from the first one it assumes.                            *)
(***************************************************************************)
Allowed(r) == { op \in Ops : MayRun(r, op) }

AC == INSTANCE AccessControl WITH
  allowed <- Allowed(role),
  ceiling <- IF first = "nothing" THEN Ops ELSE Allowed(first),
  started <- (first # "nothing"),
  used    <- { op \in Ops : \E r \in Enterable \ {Default} :
                               <<r, op>> \in executed },
  alive   <- (status = "running")

ImplementsAccessControl == AC!Spec
==============================================================================
