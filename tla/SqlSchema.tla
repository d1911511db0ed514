------------------------------ MODULE SqlSchema ------------------------------
(***************************************************************************)
(* The schema of a database made by the output of ort-sql, src/lang-sql.c, *)
(* for a configuration as in Diff.  An index is named by its table and the *)
(* fields, sorted: it is known by these.                                   *)
(***************************************************************************)
EXTENDS Naturals

Tables(cfg) == { p[2] : p \in { q \in DOMAIN cfg : q[1] = "strct" } }
Fields(cfg, s) ==
  { p[3] : p \in { q \in DOMAIN cfg : q[1] = "field" /\ q[2] = s } }
Columns(cfg, s) == { f \in Fields(cfg, s) : cfg[<<"field", s, f>>].type # "struct" }

SqlType(type) ==
  CASE type \in {"text", "password", "email"} -> "TEXT"
    [] type = "real" -> "REAL"
    [] type = "blob" -> "BLOB"
    [] OTHER -> "INTEGER"

Column(a) ==
  [type |-> SqlType(a.type),
   key |-> "rowid" \in a.flags,
   notnull |-> "rowid" \notin a.flags /\ "null" \notin a.flags,
   references |-> a.ref, actdel |-> a.actdel, actup |-> a.actup]

Indexes(cfg, s) ==
  { <<s, {f}>> : f \in { g \in Fields(cfg, s) :
                           "unique" \in cfg[<<"field", s, g>>].flags } }
    \cup { <<s, p[3]>> : p \in { q \in DOMAIN cfg : q[1] = "unique" /\ q[2] = s } }

(* The schema of a database made for a configuration.                      *)
Schema(cfg) ==
  [tables |-> [s \in Tables(cfg) |->
                 [f \in Columns(cfg, s) |-> Column(cfg[<<"field", s, f>>])]],
   indexes |-> UNION { Indexes(cfg, s) : s \in Tables(cfg) }]
==============================================================================
