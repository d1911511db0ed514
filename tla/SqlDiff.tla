------------------------------- MODULE SqlDiff -------------------------------
(***************************************************************************)
(* ort_lang_diff_sql(), src/lang-sql.c: which differences are refused, and *)
(* the statements written for the others.  They are written in the order   *)
(* of a few kinds; those of a kind follow the order of the configuration,  *)
(* which matters to none of them: they are a set.                          *)
(***************************************************************************)
EXTENDS Diff, SqlSchema

(***************************************************************************)
(* What is refused.                                                        *)
(***************************************************************************)
(* Mutation: a dropped column that was unique is let through.              *)
RefusedFieldUnique(from, into, d, destruct) ==
  LET p == d.part
  IN /\ p[1] = "field"
     /\ \/ /\ d.how = "del" /\ ~destruct /\ from[p].type # "struct"
           /\ "unique" \notin from[p].flags
        \/ d.how = "mod" /\ d.what \in {"bitf", "enm", "type", "actions"}
        \/ /\ d.how = "mod" /\ d.what = "flags"
           /\ from[p].flags \cap {"rowid", "null"} # into[p].flags \cap {"rowid", "null"}
        \/ /\ d.how = "mod" /\ d.what = "reference"
           /\ "struct" \notin {from[p].type, into[p].type}

RefusedField(from, into, d, destruct) ==
  LET p == d.part
  IN /\ p[1] = "field"
     /\ \/ d.how = "del" /\ ~destruct /\ from[p].type # "struct"
        \/ d.how = "mod" /\ d.what \in {"bitf", "enm", "type", "actions"}
        \/ /\ d.how = "mod" /\ d.what = "flags"
           /\ from[p].flags \cap {"rowid", "null"} # into[p].flags \cap {"rowid", "null"}
        \/ /\ d.how = "mod" /\ d.what = "reference"
           /\ "struct" \notin {from[p].type, into[p].type}

RefusedBitf(d, destruct) ==
  \/ d.how = "del" /\ ~destruct /\ d.part[1] \in {"bitf", "bitidx"}
  \/ d.how = "mod" /\ d.part[1] = "bitidx" /\ d.what = "value"

RefusedEnm(d, destruct) ==
  \/ d.how = "del" /\ ~destruct /\ d.part[1] \in {"enm", "eitem"}
  \/ d.how = "mod" /\ d.part[1] = "eitem" /\ d.what = "value"

RefusedStrct(d, destruct) == d.how = "del" /\ ~destruct /\ d.part[1] = "strct"

Refused(diff, from, into, destruct) ==
  \E d \in diff :
    \/ RefusedField(from, into, d, destruct)
    \/ RefusedBitf(d, destruct)
    \/ RefusedEnm(d, destruct)
    \/ RefusedStrct(d, destruct)

(***************************************************************************)
(* What is written for the rest.                                           *)
(***************************************************************************)
Statement(do, table, on) == [do |-> do, table |-> table, on |-> on]

Listed(diff, how, kind) ==
  { d.part : d \in { e \in diff :
                       e.how = how /\ e.what = "part" /\ e.part[1] = kind } }

Isunique(cfg, p) == "unique" \in cfg[p].flags

CreateTables(diff) ==
  { Statement("create_table", p[2], {}) : p \in Listed(diff, "add", "strct") }

(* gen_struct() writes the indexes of a table behind it.                   *)
IndexTables(diff, into) ==
  UNION { { Statement("create_index", ix[1], ix[2]) : ix \in Indexes(into, p[2]) }
          : p \in Listed(diff, "add", "strct") }

AddColumns(diff, into) ==
  { Statement("add_column", p[2], {p[3]}) :
      p \in { q \in Listed(diff, "add", "field") : into[q].type # "struct" } }

IndexColumns(diff, into) ==
  { Statement("create_index", p[2], {p[3]}) :
      p \in { q \in Listed(diff, "add", "field") :
                into[q].type # "struct" /\ Isunique(into, q) } }

AddUniques(diff) ==
  { Statement("create_index", p[2], p[3]) : p \in Listed(diff, "add", "unique") }

Reflagged(diff) ==
  { d.part : d \in { e \in diff : e.how = "mod" /\ e.what = "flags" /\ e.part[1] = "field" } }

ModUniques(diff, from, into) ==
  { Statement("drop_index", p[2], {p[3]}) :
      p \in { q \in Reflagged(diff) : Isunique(from, q) /\ ~Isunique(into, q) } }
    \cup
  { Statement("create_index", p[2], {p[3]}) :
      p \in { q \in Reflagged(diff) : ~Isunique(from, q) /\ Isunique(into, q) } }

DropIndexes(diff, from) ==
  { Statement("drop_index", p[2], {p[3]}) :
      p \in { q \in Listed(diff, "del", "field") : Isunique(from, q) } }
    \cup
  { Statement("drop_index", p[2], p[3]) : p \in Listed(diff, "del", "unique") }

(* A dropped column is a comment; a table takes its indexes with it.       *)
DropTables(diff, destruct) ==
  IF destruct
  THEN { Statement("drop_table", p[2], {}) : p \in Listed(diff, "del", "strct") }
  ELSE {}

(* Mutation: tables are dropped first.                                     *)
ScriptDropsFirst(diff, from, into, destruct) ==
  <<DropTables(diff, destruct), CreateTables(diff), IndexTables(diff, into),
    AddColumns(diff, into), IndexColumns(diff, into), AddUniques(diff),
    ModUniques(diff, from, into), DropIndexes(diff, from)>>

(* Mutation: unique statements are written in front of new columns.        *)
ScriptUniquesFirst(diff, from, into, destruct) ==
  <<CreateTables(diff), IndexTables(diff, into), AddUniques(diff),
    AddColumns(diff, into), IndexColumns(diff, into), ModUniques(diff, from, into),
    DropIndexes(diff, from), DropTables(diff, destruct)>>

Script(diff, from, into, destruct) ==
  <<CreateTables(diff), IndexTables(diff, into),
    AddColumns(diff, into), IndexColumns(diff, into), AddUniques(diff),
    ModUniques(diff, from, into), DropIndexes(diff, from),
    DropTables(diff, destruct)>>

(***************************************************************************)
(* SQLite, on a database [tables, indexes].                                *)
(***************************************************************************)
HasTable(db, t) == t \in DOMAIN db.tables

(* A statement fails if what it makes is there, or what it needs is not.   *)
NamesFit(db, st) ==
  CASE st.do = "create_table" -> ~HasTable(db, st.table)
    [] st.do = "drop_table"   -> HasTable(db, st.table)
    [] st.do = "add_column"   -> HasTable(db, st.table)
                                   /\ st.on \cap DOMAIN db.tables[st.table] = {}
    [] st.do = "create_index" -> /\ HasTable(db, st.table)
                                 /\ st.on \subseteq DOMAIN db.tables[st.table]
                                 /\ <<st.table, st.on>> \notin db.indexes
    [] st.do = "drop_index"   -> <<st.table, st.on>> \in db.indexes

(* With rows in a table, a column cannot be added that is neither null nor *)
(* has a default, nor a reference with one; one that is a key never can.   *)
ColumnFits(filled, a) ==
  /\ "rowid" \notin a.flags
  /\ filled /\ "null" \notin a.flags => "hasdef" \in a.flags
  /\ filled /\ a.ref # <<>> => "hasdef" \notin a.flags

Referred(db, t) ==
  { s \in DOMAIN db.tables \ {t} :
      \E f \in DOMAIN db.tables[s] : LET r == db.tables[s][f].references
                                     IN r # <<>> /\ r[1] = t }

(* Whether its rows fit a unique index, and whether rows refer to it, is   *)
(* not known of a table.                                                   *)
DataMayFit(db, rows, cfg, st) ==
  st.do = "add_column" =>
    \A f \in st.on : ColumnFits(st.table \in rows, cfg[<<"field", st.table, f>>])

DataMayNotFit(db, rows, cfg, st) ==
  \/ ~DataMayFit(db, rows, cfg, st)
  \/ st.do = "create_index" /\ st.table \in rows
  \/ st.do = "drop_table" /\ st.table \in rows /\ Referred(db, st.table) \cap rows # {}

Done(db, cfg, st) ==
  LET t == st.table
  IN CASE st.do = "create_table" ->
            [db EXCEPT !.tables = [s \in DOMAIN @ \cup {t} |->
                                     IF s = t THEN Schema(cfg).tables[t] ELSE @[s]]]
       [] st.do = "drop_table" ->
            [tables |-> [s \in DOMAIN db.tables \ {t} |-> db.tables[s]],
             indexes |-> { ix \in db.indexes : ix[1] # t }]
       [] st.do = "add_column" ->
            [db EXCEPT !.tables[t] =
               [f \in DOMAIN @ \cup st.on |->
                  IF f \in st.on THEN Column(cfg[<<"field", t, f>>]) ELSE @[f]]]
       [] st.do = "create_index" -> [db EXCEPT !.indexes = @ \cup {<<t, st.on>>}]
       [] st.do = "drop_index"   -> [db EXCEPT !.indexes = @ \ {<<t, st.on>>}]
==============================================================================
