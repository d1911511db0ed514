-------------------------------- MODULE Diff --------------------------------
(***************************************************************************)
(* The differences between two configurations, as ort_diff() lists them    *)
(* (src/diff.c), the exit status of ort-diff (src/maindiff.c) and what it  *)
(* writes (src/writer-diff.c).                                             *)
(*                                                                         *)
(* A configuration maps its parts to their attributes.  A part is a tuple: *)
(* its kind, and the names that parts of that kind are matched by, from    *)
(* the outermost.  Queries and updates without a name are matched by all   *)
(* they consist of, unique statements by their fields: these are the name. *)
(* The order of parts is no attribute, but for the fields of a structure,  *)
(* which are the arguments of its insert function.                         *)
(***************************************************************************)
EXTENDS Naturals, FiniteSets, Sequences

(* What ort_diff_enms(), _bitfs(), _strcts() and _roles() go through.      *)
Whole == [eitem |-> "enm", bitidx |-> "bitf", role |-> "roles",
          field |-> "strct", insert |-> "strct", unique |-> "strct",
          update |-> "strct", search |-> "strct",
          anonupdate |-> "strct", anonsearch |-> "strct"]

IsTop(p) == p[1] \notin DOMAIN Whole
Parent(p) == IF p[1] = "role" THEN <<"roles">> ELSE <<Whole[p[1]], p[2]>>
Within(cfg, p) == { q \in DOMAIN cfg : ~IsTop(q) /\ Parent(q) = p }

Named(cfg, kind, s) == { p \in DOMAIN cfg : p[1] = kind /\ p[2] = s }

(***************************************************************************)
(* What has changed of a part that both configurations have.               *)
(***************************************************************************)
True(tests) == { what \in DOMAIN tests : tests[what] }

(* Mutation: only what the former has is looked for.                       *)
SameSetFormer(a, b) == a \subseteq b

(* Labels, limits and the roles of a rolemap have no order, and none of    *)
(* them is listed twice.                                                   *)
SameSet(a, b) == Cardinality(a) = Cardinality(b) /\ a \subseteq b

SameDefault(a, b) ==
  "hasdef" \in a.flags \cap b.flags /\ a.type = b.type =>
    a.def = b.def /\ (a.type = "enum" => a.of = b.of)

SameValids(a, b) ==
  /\ SameSet(a.valids, b.valids)
  /\ a.type = b.type \/ b.valids = {}

(* A struct field refers by another field, its source; others themselves.  *)
Source(a) == IF a.type = "struct" THEN a.of ELSE "itself"
SameReference(a, b) == a.ref = b.ref /\ (a.ref = <<>> \/ Source(a) = Source(b))

FieldMods(a, b) ==
  True([rolemap   |-> ~SameSet(a.rolemap, b.rolemap),
        type      |-> a.type # b.type,
        actions   |-> a.actdel # b.actdel \/ a.actup # b.actup,
        flags     |-> a.flags # b.flags,
        bitf      |-> a.type = "bitfield" /\ b.type = "bitfield" /\ a.of # b.of,
        enm       |-> a.type = "enum" /\ b.type = "enum" /\ a.of # b.of,
        def       |-> ~SameDefault(a, b),
        reference |-> ~SameReference(a, b),
        valids    |-> ~SameValids(a, b),
        comment   |-> a.comment # b.comment])

EitemMods(a, b) ==
  True([value   |-> a.value # b.value,
        comment |-> a.comment # b.comment,
        labels  |-> ~SameSet(a.labels, b.labels)])

BitidxMods(a, b) == EitemMods(a, b)

EnmMods(a, b) ==
  True([comment |-> a.comment # b.comment, labels |-> ~SameSet(a.labels, b.labels)])

BitfMods(a, b) ==
  True([comment |-> a.comment # b.comment,
        labels  |-> \/ ~SameSet(a.unset, b.unset)
                    \/ ~SameSet(a.labels, b.labels)])

UpdateMods(a, b) ==
  True([params  |-> a.mrq # b.mrq \/ a.crq # b.crq,
        comment |-> a.comment # b.comment,
        rolemap |-> ~SameSet(a.rolemap, b.rolemap),
        flags   |-> a.flags # b.flags])

SearchMods(a, b) ==
  { what \in DOMAIN a \ {"rolemap"} : a[what] # b[what] }
    \cup True([rolemap |-> ~SameSet(a.rolemap, b.rolemap)])

Arguments(cfg, s) ==
  LET fields == Named(cfg, "field", s)
  IN <<fields, IF Cardinality(fields) < 2 THEN "any" ELSE cfg[<<"strct", s>>].order>>

InsertMods(from, into, s) ==
  LET p == <<"insert", s>>
  IN True([rolemap |-> ~SameSet(from[p].rolemap, into[p].rolemap),
           params  |-> Arguments(from, s) # Arguments(into, s)])

Children(cfg, r) == { p \in DOMAIN cfg : p[1] = "role" /\ cfg[p].parent = r }

RoleMods(from, into, r) ==
  LET p == <<"role", r>>
  IN True([parent   |-> from[p].parent # into[p].parent,
           comment  |-> from[p].comment # into[p].comment,
           children |-> ~SameSet(Children(from, r), Children(into, r))])

Mods(from, into, p) ==
  CASE p[1] = "enm"    -> EnmMods(from[p], into[p])
    [] p[1] = "eitem"  -> EitemMods(from[p], into[p])
    [] p[1] = "bitf"   -> BitfMods(from[p], into[p])
    [] p[1] = "bitidx" -> BitidxMods(from[p], into[p])
    [] p[1] = "strct"  -> True([comment |-> from[p].comment # into[p].comment])
    [] p[1] = "field"  -> FieldMods(from[p], into[p])
    [] p[1] = "update" -> UpdateMods(from[p], into[p])
    [] p[1] = "search" -> SearchMods(from[p], into[p])
    [] p[1] = "insert" -> InsertMods(from, into, p[2])
    [] p[1] = "role"   -> RoleMods(from, into, p[2])
    [] OTHER -> {}

(***************************************************************************)
(* ort_diff().  For each kind, one loop goes through the former parts (one *)
(* without a match is deleted, one with a match the same or modified) and  *)
(* one through the latter, for those added.  What is within an added or a  *)
(* deleted part is not listed; a part is modified if an attribute is or if *)
(* anything within it is.  Unique statements are only added and deleted.   *)
(***************************************************************************)
Entry(how, p, what) == [how |-> how, part |-> p, what |-> what]

OnlyIn(a, b) ==
  { p \in DOMAIN a \ DOMAIN b : IsTop(p) \/ Parent(p) \in DOMAIN b }

Modified(from, into) ==
  LET own == { p \in DOMAIN from \cap DOMAIN into : Mods(from, into, p) # {} }
      inner == { p \in own \cup OnlyIn(from, into) \cup OnlyIn(into, from) : ~IsTop(p) }
  IN own \cup { Parent(p) : p \in inner }

Same(from, into) ==
  { p \in (DOMAIN from \cap DOMAIN into) \ Modified(from, into) : p[1] # "unique" }

Differences(from, into) ==
  UNION { { Entry("add", p, "part") : p \in OnlyIn(into, from) },
          { Entry("del", p, "part") : p \in OnlyIn(from, into) },
          { Entry("mod", p, "part") : p \in Modified(from, into) },
          { Entry("same", p, "part") : p \in Same(from, into) },
          UNION { { Entry("mod", p, what) : what \in Mods(from, into, p) }
                  : p \in DOMAIN from \cap DOMAIN into } }

Has(diff, how, p, what) == Entry(how, p, what) \in diff

ExitStatus(diff) == IF \E d \in diff : d.how # "same" THEN 1 ELSE 0

(***************************************************************************)
(* ort_write_diff_file().  A section is written if one of its parts is     *)
(* added, deleted or modified, and what is within a part if it is          *)
(* modified.  A deleted role is not written; each deleted item of an       *)
(* enumeration is written as if it were one.                               *)
(***************************************************************************)
Section(diff, top) ==
  IF \A d \in diff : d.part[1] = top => d.how = "same"
  THEN {}
  ELSE { d \in diff : \/ d.part[1] = top
                      \/ /\ ~IsTop(d.part) /\ Parent(d.part)[1] = top
                         /\ Has(diff, "mod", Parent(d.part), "part") }

NoRole == <<"role", "no role">>

(* Mutation: all deleted parts go unwritten.                               *)
RolesSectionAdds(diff) == { d \in Section(diff, "roles") : d.how \notin {"del", "mod"} }

RolesSection(diff) ==
  LET section == Section(diff, "roles")
      misread == { d \in diff : d.how = "del" /\ d.part[1] = "eitem" }
  IN { d \in section : ~(d.how = "del" /\ d.part[1] = "role") }
       \cup (IF Has(diff, "mod", <<"roles">>, "part") /\ misread # {}
             THEN {Entry("del", NoRole, "part")} ELSE {})

Written(diff) ==
  UNION { RolesSection(diff), Section(diff, "enm"), Section(diff, "bitf"),
          Section(diff, "strct") }
==============================================================================
