-------------------------------- MODULE Audit --------------------------------
(***************************************************************************)
(* ort_audit() of src/audit.c: the operations a role may call, and of the  *)
(* structures it reaches by its queries, through which paths of fields,    *)
(* and what may be exported of them.  It is set against what a program of  *)
(* the C output prints as JSON in that role.                               *)
(*                                                                         *)
(* The configuration is a linked one: references make no circle.           *)
(***************************************************************************)
EXTENDS RoleTree, Naturals, SequencesExt

CONSTANTS Structs,    \* cfg->sq: a sequence of structures
          FieldsOf,   \* st->fq: a sequence of fields for each of them
          Embedded,   \* the structure of the fields of type struct
          Passwords,  \* the fields of type password
          Writes,     \* the insert, updates and deletes of each structure
          Searches,   \* st->sq: a sequence of queries for each structure
          Returns,    \* the structure of a query's rows: its own, or that of
                      \* its "distinct"
          Counts      \* the queries of type count

CONSTANTS Grants,     \* the rolemaps of operations that are tried,
          Noexports,  \* those of "noexport" for structures and for fields,
          Flags,      \* the sets of fields with a "noexport" of their own,
          Audited     \* and the roles

Fields == UNION { Range(FieldsOf[s]) : s \in Range(Structs) }
SearchesOf(s) == Range(Searches[s])
Operations == UNION { Writes[s] \cup SearchesOf(s) : s \in Range(Structs) }

(* A field or a query is in one structure.  A field of type struct is no   *)
(* password, and has a structure; so have the rows of a query.             *)
ASSUME StructsAssumption ==
  /\ Structs \in Seq(Range(Structs))
  /\ \A s \in Range(Structs) : /\ FieldsOf[s] \in Seq(Range(FieldsOf[s]))
                              /\ Searches[s] \in Seq(SearchesOf(s))
ASSUME FieldsAssumption ==
  /\ Range(Structs) \cap Fields = {}
  /\ \A s, t \in Range(Structs) :
       s # t => Range(FieldsOf[s]) \cap Range(FieldsOf[t]) = {}
ASSUME SearchesAssumption ==
  \A s, t \in Range(Structs) :
    /\ s # t => SearchesOf(s) \cap SearchesOf(t) = {}
    /\ \A q \in SearchesOf(s) : Returns[q] \in Range(Structs)
ASSUME EmbeddedAssumption ==
  /\ \A f \in DOMAIN Embedded : Embedded[f] \in Range(Structs)
  /\ Passwords \cap DOMAIN Embedded = {}

(* The linker refuses references in a circle, and none therefore goes      *)
(* through more structures than there are.                                 *)
Descends(rank) ==
  \A s \in Range(Structs) : \A f \in Range(FieldsOf[s]) \cap DOMAIN Embedded :
    rank[Embedded[f]] < rank[s]
ASSUME LinkedAssumption ==
  \E rank \in [Range(Structs) -> 1..Len(Structs)] : Descends(rank)

(* parse_rolemap() refuses "none"; every operation has a rolemap, which    *)
(* may be empty.                                                           *)
ASSUME RolesAssumption ==
  /\ Audited \subseteq Roles
  /\ Grants \subseteq [Operations -> SUBSET Assignable]
  /\ Noexports \subseteq [Range(Structs) \cup Fields -> SUBSET Assignable]

VARIABLES rolemap,     \* of the operations: the roles granted
          noexport,    \* of a structure and of the fields: those hidden from
          flagged,     \* the fields with FIELD_NOEXPORT
          role,        \* the role audited
          turn,        \* position in cfg->sq
          exported,    \* the local variable of ort_audit()
          todo,        \* the queries of the structure still to be visited
          calls,       \* the calls of follow(), the innermost first, each with
                      \* the fields it has still to visit
          operations,  \* the entries of type insert, update and query
          reached      \* the entries of type reachable, by structure
config == <<rolemap, noexport, flagged, role>>
vars == <<config, turn, exported, todo, calls, operations, reached>>

(* What the linker leaves of the noexport statements, in any order.  The   *)
(* roles of the one for a structure are copied to the rolemap of a field,  *)
(* up to the first that is there already, or the rolemap is shared and     *)
(* gets roles of the other fields later: no more is certain than that the  *)
(* first of those roles reaches every field.                               *)
Linked(n) ==
  \A s \in Range(Structs) :
    n[s] # {} => \E r \in n[s] : \A f \in Range(FieldsOf[s]) : r \in n[f]

Init ==
  /\ rolemap \in Grants /\ flagged \in Flags /\ role \in Audited
  /\ noexport \in { n \in Noexports : Linked(n) }
  /\ turn = 1 /\ exported = TRUE /\ todo = <<>> /\ calls = <<>>
  /\ operations = {} /\ reached = <<>>

(***************************************************************************)
(* The audit.                                                              *)
(***************************************************************************)
Granted(op) == RolemapHas(rolemap[op], role)
FieldExported(f) == f \notin flagged /\ ~RolemapHas(noexport[f], role)

AuditStruct ==
  /\ calls = <<>> /\ todo = <<>> /\ turn <= Len(Structs)
  /\ LET s == Structs[turn] IN
     /\ exported' = ~RolemapHas(noexport[s], role)
     /\ operations' = operations \cup { op \in Writes[s] : Granted(op) }
     /\ todo' = Searches[s]
  /\ turn' = turn + 1
  /\ UNCHANGED <<config, calls, reached>>

(* A structure has one entry, which is exported if it is on any path.      *)
Entry(c) ==
  LET path == [search |-> c.search, path |-> c.path, exported |-> c.exported] IN
  IF c.struct \in DOMAIN reached
  THEN [reached[c.struct] EXCEPT !.paths = Append(@, path),
                                 !.exported = @ \/ c.exported]
  ELSE [exported |-> c.exported, paths |-> <<path>>,
        fields |-> { f \in Range(FieldsOf[c.struct]) : FieldExported(f) }]

Enter(c) ==
  reached' = [s \in DOMAIN reached \cup {c.struct} |->
                IF s = c.struct THEN Entry(c) ELSE reached[s]]

(* Mutation: what a "distinct" returns is not considered.                *)
FirstOwn(q) ==
  [search |-> q, struct |-> Structs[turn - 1], path |-> <<>>,
   exported |-> exported, rest |-> FieldsOf[Structs[turn - 1]]]

First(q) ==
  [search |-> q, struct |-> Returns[q], path |-> <<>>,
   exported |-> exported, rest |-> FieldsOf[Returns[q]]]

AuditSearch ==
  /\ calls = <<>> /\ todo # <<>> /\ Granted(Head(todo))
  /\ operations' = operations \cup {Head(todo)}
  /\ calls' = <<First(Head(todo))>> /\ Enter(First(Head(todo)))
  /\ todo' = Tail(todo)
  /\ UNCHANGED <<config, turn, exported>>

SkipSearch ==
  /\ calls = <<>> /\ todo # <<>> /\ ~Granted(Head(todo))
  /\ todo' = Tail(todo)
  /\ UNCHANGED <<config, turn, exported, calls, operations, reached>>

(* Mutation: the field decides alone on what is beneath it.              *)
CallFieldOnly(c, f) ==
  [search |-> c.search, struct |-> Embedded[f], path |-> Append(c.path, f),
   exported |-> FieldExported(f), rest |-> FieldsOf[Embedded[f]]]

Call(c, f) ==
  [search |-> c.search, struct |-> Embedded[f], path |-> Append(c.path, f),
   exported |-> c.exported /\ FieldExported(f), rest |-> FieldsOf[Embedded[f]]]

(* The loop of follow() over the fields, which calls it again for those of *)
(* type struct, and its end.                                               *)
Passed(c) ==
  [search |-> c.search, struct |-> c.struct, path |-> c.path,
   exported |-> c.exported, rest |-> Tail(c.rest)]
Loop == <<Passed(Head(calls))>> \o Tail(calls)

Follow ==
  /\ calls # <<>> /\ Head(calls).rest # <<>>
  /\ LET f == Head(Head(calls).rest)  call == Call(Head(calls), f) IN
     /\ f \in DOMAIN Embedded
     /\ calls' = <<call>> \o Loop /\ Enter(call)
  /\ UNCHANGED <<config, turn, exported, todo, operations>>

SkipField ==
  /\ calls # <<>> /\ Head(calls).rest # <<>>
  /\ Head(Head(calls).rest) \notin DOMAIN Embedded
  /\ calls' = Loop
  /\ UNCHANGED <<config, turn, exported, todo, operations, reached>>

Return ==
  /\ calls # <<>> /\ Head(calls).rest = <<>>
  /\ calls' = Tail(calls)
  /\ UNCHANGED <<config, turn, exported, todo, operations, reached>>

Next == AuditStruct \/ AuditSearch \/ SkipSearch \/ Follow \/ SkipField \/ Return

Spec == Init /\ [][Next]_vars

Finished == calls = <<>> /\ todo = <<>> /\ turn > Len(Structs)

(***************************************************************************)
(* The program.  json_xxx_data() prints the fields of an object, and those *)
(* of the objects in it: the paths to all of them, in an object read in    *)
(* the audited role.                                                       *)
(***************************************************************************)
Printed(f) == f \notin flagged \cup Passwords /\ role \notin Cases(noexport[f])

(* One field after another, each but the first in the structure of the     *)
(* field before it.                                                        *)
Leads(s, p) ==
  \A i \in 1..Len(p) :
    IF i = 1 THEN p[1] \in Range(FieldsOf[s])
    ELSE p[i - 1] \in DOMAIN Embedded /\ p[i] \in Range(FieldsOf[Embedded[p[i - 1]]])

Json(search) ==
  { p \in UNION { [1..n -> Fields] : n \in 1..Len(Structs) } :
      Leads(Returns[search], p) /\ \A f \in Range(p) : Printed(f) }

MayCall == { op \in DOMAIN rolemap : role \in Enterable /\ BoxMayRun(rolemap[op], role) }
MayRead == MayCall \ (Counts \cup UNION { Writes[s] : s \in Range(Structs) })

(***************************************************************************)
(* Properties.                                                             *)
(***************************************************************************)
(* The fields of the objects a query returns that the report has, by the   *)
(* path to them, and those that may be exported along it.                  *)
Through(s, search) == { r \in Range(reached[s].paths) : r.search = search }

Reported(search) ==
  UNION { { Append(r.path, f) : r \in Through(s, search), f \in reached[s].fields } :
          s \in DOMAIN reached }

Exported(search) ==
  UNION { { Append(r.path, f) : r \in { t \in Through(s, search) : t.exported },
                                f \in reached[s].fields } : s \in DOMAIN reached }

(* man/ort_audit.3: a structure is marked as exported if it is through any *)
(* of the paths to it, whatever the order in which these are found.        *)
MarkedIfAny ==
  \A s \in DOMAIN reached :
    reached[s].exported <=> \E r \in Range(reached[s].paths) : r.exported

(* The report has the operations the program may call in the role and no   *)
(* others, and for all that it prints of what it reads the path, and the   *)
(* field as one that may be exported.                                      *)
AllReported ==
  Finished =>
    /\ role \in Enterable => operations = MayCall
    /\ \A q \in MayRead : Json(q) \subseteq Reported(q)

(* The linker may hide a structure from a role, and not all of its fields. *)
HiddenInPart(s) ==
  /\ RolemapHas(noexport[s], role)
  /\ \E f \in Range(FieldsOf[s]) : ~RolemapHas(noexport[f], role)
HiddenThroughout(s, q) ==
  RolemapHas(noexport[s], role) => Returns[q] = s /\ ~HiddenInPart(s)

(* man/ort_audit.3: what is reported as exported along a path is printed   *)
(* of the rows of the query, and what is printed is reported.  Passwords   *)
(* are reported and never printed.  The second half excepts the queries of *)
(* a structure hidden as a whole if they have a "distinct", as the objects *)
(* of another structure are printed, and if not all fields are hidden:     *)
(* nothing they return is reported as exported.                            *)
ExportsExact ==
  Finished =>
    \A s \in Range(Structs) : \A q \in SearchesOf(s) \cap MayRead :
      LET shown == { p \in Exported(q) : Last(p) \notin Passwords }
      IN /\ shown \subseteq Json(q)
         /\ HiddenThroughout(s, q) => Json(q) \subseteq shown
==============================================================================
