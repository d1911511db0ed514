---------------------------- MODULE Upgrade_proofs ----------------------------
(***************************************************************************)
(* For every configuration that parser and linker accept, however it is    *)
(* edited, and every upgrade of its database: scripts name only what is    *)
(* there, lose nothing unasked, and lead where ort-sqldiff promises; the   *)
(* exit status of ort-diff is exact, and what it writes is complete.       *)
(*                                                                         *)
(* The invariant says where a database is.  Between upgrades, it is        *)
(* Settled: it has the schema of the deployed configuration.  During one,  *)
(* it is Halfway: what is left of the script is exactly what the tables,   *)
(* columns and indexes still differ by from the wanted configuration.  The *)
(* lemmas show in turn what the differences are, which statements a script *)
(* has for them (WrittenAt, PlannedTables, PlannedColumns,                 *)
(* PlannedIndexes), that a script starts with such a database (Starts),    *)
(* that its next statement fits (Fits) and keeps it so (Proceeds), and     *)
(* that a database is settled when none is left (Ends).                    *)
(***************************************************************************)
EXTENDS Upgrade, FiniteSetTheorems, TLAPS

(***************************************************************************)
(* Parts of configurations.                                                *)
(***************************************************************************)
Tops == {"enm", "bitf", "strct", "roles"}
OfStrct == {"field", "insert", "unique", "update", "search", "anonupdate", "anonsearch"}
Accepted(cfg) == Configuration(cfg) /\ Legal(cfg)

(* How the parts of each kind are named.                                   *)
LEMMA PartNames ==
  ASSUME NEW p, IsPart(p)
  PROVE  /\ p[1] \in Tops \cup OfStrct \cup {"eitem", "bitidx", "role"}
         /\ p[1] \in (OfStrct \ {"insert"}) \cup {"eitem", "bitidx"} => p = <<p[1], p[2], p[3]>>
         /\ p[1] \in {"enm", "bitf", "strct", "insert", "role"} => p = <<p[1], p[2]>>
         /\ p[1] = "roles" => p = <<"roles">>
BY DEF IsPart, Tops, OfStrct

(* Which parts are within others, and in which.                            *)
LEMMA PartParents ==
  ASSUME NEW p, IsPart(p)
  PROVE  /\ IsTop(p) <=> p[1] \in Tops
         /\ p[1] \in OfStrct => Parent(p) = <<"strct", p[2]>>
         /\ p[1] = "eitem" => Parent(p) = <<"enm", p[2]>>
         /\ p[1] = "bitidx" => Parent(p) = <<"bitf", p[2]>>
         /\ p[1] = "role" => Parent(p) = <<"roles">>
         /\ ~IsTop(p) => IsTop(Parent(p)) /\ Parent(p)[1] \in Tops
<1>1. DOMAIN Whole = (OfStrct \cup {"eitem", "bitidx", "role"})
  BY DEF Whole, OfStrct
<1>2. /\ Whole["eitem"] = "enm" /\ Whole["bitidx"] = "bitf"
      /\ \A kind \in OfStrct : Whole[kind] = "strct"
  BY DEF Whole, OfStrct
<1>3. p[1] \in Tops \cup OfStrct \cup {"eitem", "bitidx", "role"}
  BY PartNames
<1>4. Tops \cap (OfStrct \cup {"eitem", "bitidx", "role"}) = {}
  BY DEF Tops, OfStrct
<1>5. IsTop(p) <=> p[1] \in Tops
  BY <1>1, <1>3, <1>4 DEF IsTop
<1>6. p[1] \in OfStrct => Parent(p) = <<"strct", p[2]>>
  BY <1>2 DEF Parent, OfStrct
<1>7. /\ p[1] = "eitem" => Parent(p) = <<"enm", p[2]>>
      /\ p[1] = "bitidx" => Parent(p) = <<"bitf", p[2]>>
      /\ p[1] = "role" => Parent(p) = <<"roles">>
  BY <1>2 DEF Parent
<1>8. ~IsTop(p) => Parent(p)[1] \in Tops
  BY <1>3, <1>5, <1>6, <1>7 DEF Tops
<1>9. ~IsTop(p) => IsTop(Parent(p))
  BY <1>1, <1>4, <1>8 DEF IsTop
<1> QED BY <1>5, <1>6, <1>7, <1>8, <1>9

(* Structures, fields and unique statements, by their names.               *)
LEMMA TableNames ==
  ASSUME NEW cfg, Configuration(cfg), NEW s
  PROVE  /\ s \in Tables(cfg) <=> <<"strct", s>> \in DOMAIN cfg
         /\ \A f : f \in Fields(cfg, s) <=> <<"field", s, f>> \in DOMAIN cfg
         /\ \A f : f \in Columns(cfg, s) <=>
              <<"field", s, f>> \in DOMAIN cfg /\ cfg[<<"field", s, f>>].type # "struct"
<1>1. \A p \in DOMAIN cfg : p[1] = "strct" => p = <<"strct", p[2]>>
  BY PartNames DEF Configuration
<1>2. \A p \in DOMAIN cfg : p[1] = "field" => p = <<"field", p[2], p[3]>>
  BY PartNames DEF Configuration, OfStrct
<1>3. s \in Tables(cfg) <=> <<"strct", s>> \in DOMAIN cfg
  BY <1>1 DEF Tables
<1>4. \A f : f \in Fields(cfg, s) <=> <<"field", s, f>> \in DOMAIN cfg
  BY <1>2 DEF Fields
<1> QED BY <1>3, <1>4 DEF Columns

(* An index is that of a unique field, or of a unique statement, which has *)
(* two fields or more.                                                     *)
LEMMA IndexNames ==
  ASSUME NEW cfg, Configuration(cfg), NEW s
  PROVE  /\ \A ix \in Indexes(cfg, s) : ix = <<s, ix[2]>>
         /\ \A f : <<s, {f}>> \in Indexes(cfg, s) <=>
              <<"field", s, f>> \in DOMAIN cfg /\ "unique" \in cfg[<<"field", s, f>>].flags
         /\ \A on : (\A f : on # {f}) =>
              (<<s, on>> \in Indexes(cfg, s) <=> <<"unique", s, on>> \in DOMAIN cfg)
         /\ \A p \in DOMAIN cfg : p[1] = "unique" =>
              p = <<"unique", p[2], p[3]>> /\ \A f : p[3] # {f}
<1>1. \A p \in DOMAIN cfg : p[1] = "unique" => p = <<"unique", p[2], p[3]>>
  BY PartNames DEF Configuration, OfStrct
<1>2. ASSUME NEW p \in DOMAIN cfg, p[1] = "unique", NEW f
      PROVE  p[3] # {f}
  <2>1. Cardinality(p[3]) >= 2
    BY <1>2 DEF Configuration
  <2>2. Cardinality({f}) = 1
    BY FS_Singleton
  <2> QED BY <2>1, <2>2
<1>3. \A f : f \in Fields(cfg, s) <=> <<"field", s, f>> \in DOMAIN cfg
  BY TableNames
<1>4. ASSUME NEW f
      PROVE  <<s, {f}>> \in Indexes(cfg, s) <=>
               <<"field", s, f>> \in DOMAIN cfg /\ "unique" \in cfg[<<"field", s, f>>].flags
  <2>1. <<s, {f}>> \notin { <<s, p[3]>> : p \in { q \in DOMAIN cfg : q[1] = "unique" /\ q[2] = s } }
    BY <1>2
  <2>2. <<s, {f}>> \in { <<s, {g}>> : g \in { h \in Fields(cfg, s) :
                                                "unique" \in cfg[<<"field", s, h>>].flags } }
          <=> f \in Fields(cfg, s) /\ "unique" \in cfg[<<"field", s, f>>].flags
    OBVIOUS
  <2> QED BY <1>3, <2>1, <2>2 DEF Indexes
<1>5. ASSUME NEW on, \A f : on # {f}
      PROVE  <<s, on>> \in Indexes(cfg, s) <=> <<"unique", s, on>> \in DOMAIN cfg
  BY <1>1, <1>5 DEF Indexes
<1>6. ASSUME NEW ix \in Indexes(cfg, s)
      PROVE  ix = <<s, ix[2]>>
  <2>1. \E on : ix = <<s, on>>
    BY DEF Indexes
  <2> QED BY <2>1
<1> QED BY <1>1, <1>2, <1>4, <1>5, <1>6

(***************************************************************************)
(* Differences.                                                            *)
(***************************************************************************)
(* What the entries of a list say.                                         *)
LEMMA Entries ==
  ASSUME NEW from, NEW into, NEW p, NEW what
  PROVE  /\ Entry("add", p, "part") \in Differences(from, into) <=> p \in OnlyIn(into, from)
         /\ Entry("del", p, "part") \in Differences(from, into) <=> p \in OnlyIn(from, into)
         /\ Entry("mod", p, what) \in Differences(from, into) <=>
              \/ what = "part" /\ p \in Modified(from, into)
              \/ p \in DOMAIN from \cap DOMAIN into /\ what \in Mods(from, into, p)
<1> DEFINE D == Differences(from, into)
           mods == UNION { { Entry("mod", q, w) : w \in Mods(from, into, q) }
                           : q \in DOMAIN from \cap DOMAIN into }
<1>1. \A h, q, w, h2, q2, w2 :
        Entry(h, q, w) = Entry(h2, q2, w2) <=> h = h2 /\ q = q2 /\ w = w2
  BY DEF Entry
<1>2. \A e : e \in D <=>
        \/ \E q \in OnlyIn(into, from) : e = Entry("add", q, "part")
        \/ \E q \in OnlyIn(from, into) : e = Entry("del", q, "part")
        \/ \E q \in Modified(from, into) : e = Entry("mod", q, "part")
        \/ \E q \in Same(from, into) : e = Entry("same", q, "part")
        \/ e \in mods
  BY DEF Differences
<1>3. \A e : e \in mods <=>
        \E q \in DOMAIN from \cap DOMAIN into : \E w \in Mods(from, into, q) : e = Entry("mod", q, w)
  OBVIOUS
<1> HIDE DEF D, mods
<1>4. Entry("add", p, "part") \in D <=> p \in OnlyIn(into, from)
  BY <1>1, <1>2, <1>3
<1>5. Entry("del", p, "part") \in D <=> p \in OnlyIn(from, into)
  BY <1>1, <1>2, <1>3
<1>6. Entry("mod", p, what) \in D <=>
        \/ what = "part" /\ p \in Modified(from, into)
        \/ p \in DOMAIN from \cap DOMAIN into /\ what \in Mods(from, into, p)
  BY <1>1, <1>2, <1>3
<1> QED BY <1>4, <1>5, <1>6 DEF D

(* There are no others.                                                    *)
LEMMA EntryKinds ==
  ASSUME NEW from, NEW into, NEW d \in Differences(from, into)
  PROVE  /\ d = Entry(d.how, d.part, d.what)
         /\ \/ d.how = "add" /\ d.what = "part" /\ d.part \in OnlyIn(into, from)
            \/ d.how = "del" /\ d.what = "part" /\ d.part \in OnlyIn(from, into)
            \/ d.how = "mod" /\ d.what = "part" /\ d.part \in Modified(from, into)
            \/ d.how = "same" /\ d.what = "part" /\ d.part \in Same(from, into)
            \/ /\ d.how = "mod" /\ d.part \in DOMAIN from \cap DOMAIN into
               /\ d.what \in Mods(from, into, d.part)
<1>1. \E h, q, w : d = Entry(h, q, w)
  BY DEF Differences
<1>2. \A h, q, w : LET e == Entry(h, q, w) IN e.how = h /\ e.part = q /\ e.what = w
  BY DEF Entry
<1> QED BY <1>1, <1>2 DEF Differences

(* What may have changed of a field.                                       *)
LEMMA FieldChanges ==
  ASSUME NEW a, NEW b
  PROVE  /\ "type" \in FieldMods(a, b) <=> a.type # b.type
         /\ "actions" \in FieldMods(a, b) <=> a.actdel # b.actdel \/ a.actup # b.actup
         /\ "flags" \in FieldMods(a, b) <=> a.flags # b.flags
         /\ "bitf" \in FieldMods(a, b) <=>
              a.type = "bitfield" /\ b.type = "bitfield" /\ a.of # b.of
         /\ "enm" \in FieldMods(a, b) <=> a.type = "enum" /\ b.type = "enum" /\ a.of # b.of
         /\ "reference" \in FieldMods(a, b) <=> ~SameReference(a, b)
         /\ "rolemap" \in FieldMods(a, b) <=> ~SameSet(a.rolemap, b.rolemap)
         /\ "def" \in FieldMods(a, b) <=> ~SameDefault(a, b)
         /\ "valids" \in FieldMods(a, b) <=> ~SameValids(a, b)
         /\ "comment" \in FieldMods(a, b) <=> a.comment # b.comment
         /\ \A what \in FieldMods(a, b) :
              what \in {"rolemap", "type", "actions", "flags", "bitf", "enm", "def",
                        "reference", "valids", "comment"}
BY DEF FieldMods, True

(* Items of enumerations and of bitfields.                                 *)
LEMMA ItemChanges ==
  ASSUME NEW a, NEW b
  PROVE  /\ "value" \in EitemMods(a, b) <=> a.value # b.value
         /\ "comment" \in EitemMods(a, b) <=> a.comment # b.comment
         /\ "labels" \in EitemMods(a, b) <=> ~SameSet(a.labels, b.labels)
         /\ \A what \in EitemMods(a, b) : what \in {"value", "comment", "labels"}
BY DEF EitemMods, True

(* What has changed of a part, by its kind.                                *)
LEMMA ModsOf ==
  ASSUME NEW from, NEW into, NEW p
  PROVE  /\ p[1] = "field" => Mods(from, into, p) = FieldMods(from[p], into[p])
         /\ p[1] \in {"eitem", "bitidx"} => Mods(from, into, p) = EitemMods(from[p], into[p])
         /\ p[1] = "enm" => Mods(from, into, p) = EnmMods(from[p], into[p])
         /\ p[1] = "bitf" => Mods(from, into, p) = BitfMods(from[p], into[p])
         /\ p[1] = "strct" =>
              Mods(from, into, p) = True([comment |-> from[p].comment # into[p].comment])
         /\ p[1] = "update" => Mods(from, into, p) = UpdateMods(from[p], into[p])
         /\ p[1] = "search" => Mods(from, into, p) = SearchMods(from[p], into[p])
         /\ p[1] = "insert" => Mods(from, into, p) = InsertMods(from, into, p[2])
         /\ p[1] = "role" => Mods(from, into, p) = RoleMods(from, into, p[2])
         /\ p[1] \in {"roles", "unique", "anonupdate", "anonsearch"} => Mods(from, into, p) = {}
BY DEF Mods, BitidxMods

(* What the parser lets a field have.                                      *)
LEMMA FieldsParsed ==
  ASSUME NEW cfg, Configuration(cfg), NEW p \in DOMAIN cfg, p[1] = "field"
  PROVE  /\ p = <<"field", p[2], p[3]>> /\ FieldParsed(cfg[p]) /\ cfg[p] \in Attributes("field")
         /\ Legal(cfg) => <<"strct", p[2]>> \in DOMAIN cfg
<1>1. IsPart(p) /\ FieldParsed(cfg[p]) /\ cfg[p] \in Attributes("field")
  BY DEF Configuration
<1>2. p = <<"field", p[2], p[3]>>
  BY <1>1, PartNames DEF OfStrct
<1>3. Parent(p) = <<"strct", p[2]>> /\ ~IsTop(p)
  BY <1>1, PartParents DEF OfStrct, Tops
<1> QED BY <1>1, <1>2, <1>3 DEF Legal

(* A field whose differences are none of those that are refused is the     *)
(* same column.                                                            *)
LEMMA SameColumnIs ==
  ASSUME NEW a \in Attributes("field"), NEW b \in Attributes("field"),
         FieldParsed(a), FieldParsed(b)
  PROVE  Promise!SameColumn(a, b) <=>
           /\ a.type = b.type
           /\ ~(a.type = "bitfield" /\ b.type = "bitfield" /\ a.of # b.of)
           /\ ~(a.type = "enum" /\ b.type = "enum" /\ a.of # b.of)
           /\ a.actdel = b.actdel /\ a.actup = b.actup
           /\ a.flags \cap {"rowid", "null"} = b.flags \cap {"rowid", "null"}
           /\ "struct" \in {a.type, b.type} \/ SameReference(a, b)
<1> DEFINE key(x) == "rowid" \in x.flags
           notnull(x) == "rowid" \notin x.flags /\ "null" \notin x.flags
<1>1. a.flags \cap {"rowid", "null"} = b.flags \cap {"rowid", "null"}
        <=> ("rowid" \in a.flags <=> "rowid" \in b.flags) /\ ("null" \in a.flags <=> "null" \in b.flags)
  OBVIOUS
<1>2. (("rowid" \in a.flags <=> "rowid" \in b.flags) /\ ("null" \in a.flags <=> "null" \in b.flags))
        <=> (key(a) <=> key(b)) /\ (notnull(a) <=> notnull(b))
  BY DEF FieldParsed
<1>3. CASE a.type = b.type /\ a.type = "struct"
  BY <1>1, <1>3 DEF Promise!SameColumn, FieldParsed
<1>4. CASE a.type = b.type /\ a.type # "struct"
  <2>1. SameReference(a, b) <=> a.ref = b.ref
    BY <1>4 DEF SameReference, Source
  <2>2. Promise!Column(a) = Promise!Column(b) <=>
          /\ key(a) = key(b) /\ notnull(a) = notnull(b)
          /\ a.ref = b.ref /\ a.actdel = b.actdel /\ a.actup = b.actup
    BY <1>4 DEF Promise!Column, Promise!SqlType
  <2> QED BY <1>1, <1>2, <1>4, <2>1, <2>2 DEF Promise!SameColumn
<1>5. CASE a.type # b.type
  BY <1>5 DEF Promise!SameColumn
<1> QED BY <1>3, <1>4, <1>5

(* What is only in one of two configurations is an entry, or within one.   *)
LEMMA OnlyIs ==
  ASSUME NEW from, NEW into, Accepted(from), Accepted(into), NEW p \in DOMAIN from,
         p \notin DOMAIN into
  PROVE  p \in OnlyIn(from, into)
           \/ (~IsTop(p) /\ Parent(p) \in OnlyIn(from, into) /\ Parent(p) \notin DOMAIN into)
<1>1. IsPart(p)
  BY DEF Accepted, Configuration
<1>2. ~IsTop(p) => IsTop(Parent(p)) /\ Parent(p) \in DOMAIN from
  BY <1>1, PartParents DEF Accepted, Legal
<1> QED BY <1>2 DEF OnlyIn

Loss == {"enm", "eitem", "bitf", "bitidx", "strct"}
Loses(from, p) == p[1] \in Loss \/ (p[1] = "field" /\ from[p].type # "struct")

(* Nothing stored is lost if and only if no such part is deleted.          *)
LEMMA KeptIs ==
  ASSUME NEW from, NEW into, Accepted(from), Accepted(into)
  PROVE  Promise!Kept(from, into) <=> \A p \in OnlyIn(from, into) : ~Loses(from, p)
<1>1. /\ Promise!Tables(from) = Tables(from) /\ Promise!Tables(into) = Tables(into)
      /\ \A s : /\ Promise!Fields(into, s) = Fields(into, s)
                /\ Promise!Columns(from, s) = Columns(from, s)
  BY DEF Promise!Tables, Promise!Fields, Promise!Columns, Tables, Fields, Columns
<1>2. /\ Configuration(from) /\ Configuration(into)
      /\ \A p \in DOMAIN from : IsPart(p)
  BY DEF Accepted, Configuration
<1>3. ASSUME \A p \in OnlyIn(from, into) : ~Loses(from, p)
      PROVE  Promise!Kept(from, into)
  <2>1. ASSUME NEW p \in DOMAIN from, p[1] \in Loss \/ (p[1] = "field" /\ Loses(from, p)),
               p \notin DOMAIN into
        PROVE  p \notin OnlyIn(from, into) /\ <<"strct", p[2]>> \notin DOMAIN into /\ p[1] = "field"
    <3>1. Loses(from, p)
      BY <2>1 DEF Loses
    <3>2. ~IsTop(p) /\ Parent(p) \in OnlyIn(from, into) /\ Parent(p) \notin DOMAIN into
      BY <1>3, <2>1, <3>1, OnlyIs
    <3>3. ~Loses(from, Parent(p))
      BY <1>3, <3>2
    <3>4. p[1] \notin {"eitem", "bitidx"}
      BY <1>2, <3>3, PartParents DEF Loses, Loss
    <3>5. p[1] \notin Tops
      BY <1>2, <3>2, PartParents
    <3>6. p[1] = "field"
      BY <2>1, <3>4, <3>5 DEF Tops, Loss
    <3>7. Parent(p) = <<"strct", p[2]>>
      BY <1>2, <3>6, PartParents DEF OfStrct
    <3> QED BY <1>3, <3>1, <3>2, <3>6, <3>7
  <2>2. ASSUME NEW p \in DOMAIN from, p[1] \in Promise!ValueKinds
        PROVE  p \in DOMAIN into
    BY <2>1, <2>2 DEF Promise!ValueKinds, Loss
  <2>3. ASSUME NEW s \in Tables(from)
        PROVE  s \in Tables(into) /\ Columns(from, s) \subseteq Fields(into, s)
    <3>1. <<"strct", s>> \in DOMAIN from
      BY <1>2, TableNames
    <3>2. <<"strct", s>> \in DOMAIN into
      BY <2>1, <3>1 DEF Loss
    <3>3. s \in Tables(into)
      BY <1>2, <3>2, TableNames
    <3>4. ASSUME NEW f \in Columns(from, s)
          PROVE  <<"field", s, f>> \in DOMAIN into
      <4>1. <<"field", s, f>> \in DOMAIN from /\ from[<<"field", s, f>>].type # "struct"
        BY <1>2, TableNames
      <4>2. <<"field", s, f>>[1] = "field" /\ <<"field", s, f>>[2] = s
        OBVIOUS
      <4>3. Loses(from, <<"field", s, f>>)
        BY <4>1 DEF Loses
      <4> QED BY <2>1, <3>2, <4>1, <4>2, <4>3
    <3> QED BY <1>2, <3>3, <3>4, TableNames
  <2> QED BY <1>1, <2>2, <2>3 DEF Promise!Kept
<1>4. ASSUME Promise!Kept(from, into), NEW p \in OnlyIn(from, into), Loses(from, p)
      PROVE  FALSE
  <2>1. p \in DOMAIN from /\ p \notin DOMAIN into /\ IsPart(p)
    BY <1>2 DEF OnlyIn
  <2>2. p[1] \notin {"enm", "eitem", "bitf", "bitidx"}
    BY <1>4, <2>1 DEF Promise!Kept, Promise!ValueKinds
  <2>3. CASE p[1] = "strct"
    <3>1. p = <<"strct", p[2]>>
      BY <2>1, <2>3, PartNames
    <3>2. p[2] \in Tables(from) /\ p[2] \notin Tables(into)
      BY <1>2, <2>1, <3>1, TableNames
    <3> QED BY <1>1, <1>4, <3>2 DEF Promise!Kept
  <2>4. CASE p[1] = "field" /\ from[p].type # "struct"
    <3>1. p = <<"field", p[2], p[3]>> /\ <<"strct", p[2]>> \in DOMAIN from
      BY <1>2, <2>1, <2>4, FieldsParsed DEF Accepted
    <3>2. p[2] \in Tables(from) /\ p[3] \in Columns(from, p[2]) /\ p[3] \notin Fields(into, p[2])
      BY <1>2, <2>1, <2>4, <3>1, TableNames
    <3> QED BY <1>1, <1>4, <3>2 DEF Promise!Kept
  <2> QED BY <1>4, <2>2, <2>3, <2>4 DEF Loses, Loss
<1> QED BY <1>3, <1>4

(* ort-sqldiff refuses if and only if the configurations are not           *)
(* compatible.                                                             *)
LEMMA RefusedIs ==
  ASSUME NEW from, NEW into, Accepted(from), Accepted(into), NEW destruct \in BOOLEAN
  PROVE  Refused(Differences(from, into), from, into, destruct)
           <=> ~Promise!Compatible(from, into, destruct)
<1> DEFINE D == Differences(from, into)
           Both == DOMAIN from \cap DOMAIN into
           Lost == ~destruct /\ \E p \in OnlyIn(from, into) : Loses(from, p)
           Columns2 == \E p \in Both : p[1] = "field" /\ ~Promise!SameColumn(from[p], into[p])
           Values == \E p \in Both : p[1] \in {"eitem", "bitidx"} /\ from[p].value # into[p].value
<1>1. Promise!Compatible(from, into, destruct) <=> ~(Lost \/ Columns2 \/ Values)
  BY KeptIs DEF Promise!Compatible
<1>2. ASSUME NEW p \in Both, p[1] = "field"
      PROVE  /\ from[p] \in Attributes("field") /\ FieldParsed(from[p])
             /\ into[p] \in Attributes("field") /\ FieldParsed(into[p])
  BY <1>2, FieldsParsed DEF Accepted
<1>3. ASSUME NEW d \in D, \/ RefusedField(from, into, d, destruct)
                          \/ RefusedBitf(d, destruct) \/ RefusedEnm(d, destruct)
                          \/ RefusedStrct(d, destruct)
      PROVE  Lost \/ Columns2 \/ Values
  <2>1. CASE d.how = "del"
    <3>1. d.part \in OnlyIn(from, into)
      BY <2>1, EntryKinds
    <3>2. ~destruct /\ Loses(from, d.part)
      BY <1>3, <2>1 DEF RefusedField, RefusedBitf, RefusedEnm, RefusedStrct, Loses, Loss
    <3> QED BY <3>1, <3>2
  <2>2. CASE d.how = "mod"
    <3>1. \/ /\ d.part[1] = "field"
             /\ d.what \in {"bitf", "enm", "type", "actions", "flags", "reference"}
          \/ d.part[1] \in {"eitem", "bitidx"} /\ d.what = "value"
      BY <1>3, <2>2 DEF RefusedField, RefusedBitf, RefusedEnm, RefusedStrct
    <3>2. d.part \in Both /\ d.what \in Mods(from, into, d.part)
      BY <2>2, <3>1, EntryKinds
    <3>3. CASE d.part[1] = "field"
      <4>1. d.what \in FieldMods(from[d.part], into[d.part])
        BY <3>2, <3>3, ModsOf
      <4>2. RefusedField(from, into, d, destruct)
        BY <1>3, <2>2, <3>3 DEF RefusedBitf, RefusedEnm, RefusedStrct
      <4>3. ~Promise!SameColumn(from[d.part], into[d.part])
        BY <1>2, <2>2, <3>2, <3>3, <4>1, <4>2, FieldChanges, SameColumnIs DEF RefusedField
      <4> QED BY <3>2, <3>3, <4>3
    <3>4. CASE d.part[1] \in {"eitem", "bitidx"} /\ d.what = "value"
      <4>1. from[d.part].value # into[d.part].value
        <5>1. Mods(from, into, d.part) = EitemMods(from[d.part], into[d.part])
          BY <3>4 DEF Mods, BitidxMods
        <5>2. "value" \in EitemMods(from[d.part], into[d.part])
          BY <3>2, <3>4, <5>1
        <5> QED BY <5>2, ItemChanges
      <4> QED BY <3>2, <3>4, <4>1
    <3> QED BY <3>1, <3>3, <3>4
  <2> QED BY <1>3, <2>1, <2>2 DEF RefusedField, RefusedBitf, RefusedEnm, RefusedStrct
<1>4. ASSUME Lost
      PROVE  Refused(D, from, into, destruct)
  <2>1. PICK p \in OnlyIn(from, into) : Loses(from, p)
    BY <1>4
  <2>2. Entry("del", p, "part") \in D
    BY Entries
  <2>3. LET d == Entry("del", p, "part") IN d.how = "del" /\ d.part = p
    BY DEF Entry
  <2>4. LET d == Entry("del", p, "part")
        IN \/ RefusedField(from, into, d, destruct)
           \/ RefusedBitf(d, destruct) \/ RefusedEnm(d, destruct) \/ RefusedStrct(d, destruct)
    BY <1>4, <2>1, <2>3 DEF Loses, Loss, RefusedField, RefusedBitf, RefusedEnm, RefusedStrct
  <2> QED BY <2>2, <2>4 DEF Refused
<1>5. ASSUME Columns2
      PROVE  Refused(D, from, into, destruct)
  <2>1. PICK p \in Both : p[1] = "field" /\ ~Promise!SameColumn(from[p], into[p])
    BY <1>5
  <2> DEFINE a == from[p]
             b == into[p]
  <2>2. \A what \in FieldMods(a, b) : Entry("mod", p, what) \in D
    <3>1. Mods(from, into, p) = FieldMods(a, b)
      BY <2>1 DEF Mods, BitidxMods
    <3> QED BY <3>1, Entries
  <2>3. \A what : LET d == Entry("mod", p, what) IN d.how = "mod" /\ d.part = p /\ d.what = what
    BY DEF Entry
  <2>4. \E what \in FieldMods(a, b) :
           \/ what \in {"bitf", "enm", "type", "actions"}
           \/ what = "flags" /\ a.flags \cap {"rowid", "null"} # b.flags \cap {"rowid", "null"}
           \/ what = "reference" /\ "struct" \notin {a.type, b.type}
    <3>1. ~Promise!SameColumn(a, b)
      BY <2>1
    <3>2. /\ a \in Attributes("field") /\ FieldParsed(a) /\ b \in Attributes("field") /\ FieldParsed(b)
      BY <1>2, <2>1
    <3> HIDE DEF a, b
    <3> QED BY <3>1, <3>2, FieldChanges, SameColumnIs
  <2>5. PICK what \in FieldMods(a, b) :
           \/ what \in {"bitf", "enm", "type", "actions"}
           \/ what = "flags" /\ a.flags \cap {"rowid", "null"} # b.flags \cap {"rowid", "null"}
           \/ what = "reference" /\ "struct" \notin {a.type, b.type}
    BY <2>4
  <2>6. RefusedField(from, into, Entry("mod", p, what), destruct)
    BY <2>1, <2>3, <2>5 DEF RefusedField
  <2> QED BY <2>2, <2>5, <2>6 DEF Refused
<1>6. ASSUME Values
      PROVE  Refused(D, from, into, destruct)
  <2>1. PICK p \in Both : p[1] \in {"eitem", "bitidx"} /\ from[p].value # into[p].value
    BY <1>6
  <2>2. "value" \in Mods(from, into, p)
    <3>1. Mods(from, into, p) = EitemMods(from[p], into[p])
      BY <2>1 DEF Mods, BitidxMods
    <3> QED BY <2>1, <3>1, ItemChanges
  <2>3. Entry("mod", p, "value") \in D
    BY <2>2, Entries
  <2>4. LET d == Entry("mod", p, "value") IN d.how = "mod" /\ d.part = p /\ d.what = "value"
    BY DEF Entry
  <2>5. LET d == Entry("mod", p, "value") IN RefusedBitf(d, destruct) \/ RefusedEnm(d, destruct)
    BY <2>1, <2>4 DEF RefusedBitf, RefusedEnm
  <2> QED BY <2>3, <2>5 DEF Refused
<1> QED BY <1>1, <1>3, <1>4, <1>5, <1>6 DEF Refused

(***************************************************************************)
(* Scripts.                                                                *)
(***************************************************************************)
Plan(from, into, destruct) == Script(Differences(from, into), from, into, destruct)
Planned(plan, do, t, on) == \E k \in 1..8 : Statement(do, t, on) \in plan[k]
HasField(cfg, t, f) == <<"field", t, f>> \in DOMAIN cfg
HasUnique(cfg, t, on) == <<"unique", t, on>> \in DOMAIN cfg

(* What is within a structure is not without it.                           *)
LEMMA NoTable ==
  ASSUME NEW cfg, Accepted(cfg), NEW t, t \notin Tables(cfg)
  PROVE  /\ \A f : ~HasField(cfg, t, f)
         /\ \A on : ~HasUnique(cfg, t, on)
         /\ Indexes(cfg, t) = {} /\ Fields(cfg, t) = {} /\ Columns(cfg, t) = {}
<1>1. Configuration(cfg) /\ <<"strct", t>> \notin DOMAIN cfg
  BY TableNames DEF Accepted
<1>2. ASSUME NEW x, NEW kind \in {"field", "unique"}
      PROVE  <<kind, t, x>> \notin DOMAIN cfg
  <2>1. ASSUME <<kind, t, x>> \in DOMAIN cfg
        PROVE  FALSE
    <3>1. IsPart(<<kind, t, x>>)
      BY <1>1, <2>1 DEF Configuration
    <3>2. <<kind, t, x>>[1] = kind /\ <<kind, t, x>>[2] = t
      OBVIOUS
    <3>3. Parent(<<kind, t, x>>) = <<"strct", t>> /\ ~IsTop(<<kind, t, x>>)
      BY <3>1, <3>2, PartParents DEF OfStrct, Tops
    <3> QED BY <1>1, <2>1, <3>3 DEF Accepted, Legal
  <2> QED BY <2>1
<1>3. \A f : ~HasField(cfg, t, f)
  BY <1>2 DEF HasField
<1>4. \A on : ~HasUnique(cfg, t, on)
  BY <1>2 DEF HasUnique
<1>5. Fields(cfg, t) = {} /\ Columns(cfg, t) = {}
  BY <1>1, <1>3, TableNames DEF HasField
<1>6. \A q \in DOMAIN cfg : ~(q[1] = "unique" /\ q[2] = t)
  BY <1>1, <1>4, IndexNames DEF HasUnique
<1>7. Indexes(cfg, t) = {}
  BY <1>5, <1>6 DEF Indexes
<1> QED BY <1>3, <1>4, <1>5, <1>7

(* The parts that are listed as added, deleted or changed in their flags.  *)
LEMMA ListedIs ==
  ASSUME NEW from, NEW into, NEW p, NEW kind
  PROVE  /\ p \in Listed(Differences(from, into), "add", kind)
              <=> p \in OnlyIn(into, from) /\ p[1] = kind
         /\ p \in Listed(Differences(from, into), "del", kind)
              <=> p \in OnlyIn(from, into) /\ p[1] = kind
         /\ p \in Reflagged(Differences(from, into))
              <=> /\ p \in DOMAIN from \cap DOMAIN into /\ p[1] = "field"
                  /\ from[p].flags # into[p].flags
<1> DEFINE D == Differences(from, into)
<1>1. \A how, q, what : LET e == Entry(how, q, what) IN e.how = how /\ e.part = q /\ e.what = what
  BY DEF Entry
<1>2. \A d \in D : d = Entry(d.how, d.part, d.what)
  BY EntryKinds
<1>3. \A how : p \in Listed(D, how, kind) <=> Entry(how, p, "part") \in D /\ p[1] = kind
  <2> HIDE DEF D
  <2> QED BY <1>1, <1>2 DEF Listed
<1>4. p \in Reflagged(D) <=> Entry("mod", p, "flags") \in D /\ p[1] = "field"
  <2> HIDE DEF D
  <2> QED BY <1>1, <1>2 DEF Reflagged
<1>5. Entry("mod", p, "flags") \in D
        <=> p \in DOMAIN from \cap DOMAIN into /\ "flags" \in Mods(from, into, p)
  BY Entries
<1>6. p[1] = "field" => ("flags" \in Mods(from, into, p) <=> from[p].flags # into[p].flags)
  <2>1. p[1] = "field" => Mods(from, into, p) = FieldMods(from[p], into[p])
    BY DEF Mods, BitidxMods
  <2> QED BY <2>1, FieldChanges
<1> QED BY <1>3, <1>4, <1>5, <1>6, Entries

(* What is added to, or deleted from, structures that remain.              *)
LEMMA FieldsListed ==
  ASSUME NEW from, NEW into, Accepted(from), Accepted(into), NEW p
  PROVE  /\ p \in OnlyIn(into, from) /\ p[1] \in {"field", "unique"} =>
              /\ p = <<p[1], p[2], p[3]>> /\ p[2] \in Tables(from) \cap Tables(into)
              /\ p \in DOMAIN into \ DOMAIN from
         /\ p \in DOMAIN into \ DOMAIN from /\ p[1] \in {"field", "unique"}
              /\ p[2] \in Tables(from) => p \in OnlyIn(into, from)
<1>1. ASSUME p \in DOMAIN into, p[1] \in {"field", "unique"}
      PROVE  /\ p = <<p[1], p[2], p[3]>> /\ Parent(p) = <<"strct", p[2]>> /\ ~IsTop(p)
             /\ p[2] \in Tables(into)
  <2>1. IsPart(p) /\ Configuration(into)
    BY <1>1 DEF Accepted, Configuration
  <2>2. p = <<p[1], p[2], p[3]>> /\ Parent(p) = <<"strct", p[2]>> /\ ~IsTop(p)
    BY <1>1, <2>1, PartNames, PartParents DEF OfStrct, Tops
  <2>3. <<"strct", p[2]>> \in DOMAIN into
    BY <1>1, <2>2 DEF Accepted, Legal
  <2> QED BY <2>1, <2>2, <2>3, TableNames
<1>2. p[2] \in Tables(from) <=> <<"strct", p[2]>> \in DOMAIN from
  BY TableNames DEF Accepted
<1> QED BY <1>1, <1>2 DEF OnlyIn

(* The statements of each kind, in the order in which they are written.    *)
WrittenAt(from, into, destruct, k, do, t, on) ==
  \/ /\ k = 1 /\ do = "create_table" /\ on = {} /\ t \in Tables(into) \ Tables(from)
  \/ /\ k = 2 /\ do = "create_index" /\ t \in Tables(into) \ Tables(from)
     /\ <<t, on>> \in Indexes(into, t)
  \/ /\ k = 3 /\ do = "add_column" /\ t \in Tables(from) \cap Tables(into)
     /\ \E f \in Columns(into, t) : on = {f} /\ ~HasField(from, t, f)
  \/ /\ k = 4 /\ do = "create_index" /\ t \in Tables(from) \cap Tables(into)
     /\ <<t, on>> \in Indexes(into, t) \ Indexes(from, t)
     /\ \E f : on = {f} /\ ~HasField(from, t, f)
  \/ /\ k = 5 /\ do = "create_index" /\ t \in Tables(from) \cap Tables(into)
     /\ <<t, on>> \in Indexes(into, t) \ Indexes(from, t)
     /\ HasUnique(into, t, on)
  \/ /\ k = 6 /\ t \in Tables(from) \cap Tables(into)
     /\ \E f : on = {f} /\ HasField(from, t, f) /\ HasField(into, t, f)
     /\ \/ do = "create_index" /\ <<t, on>> \in Indexes(into, t) \ Indexes(from, t)
        \/ do = "drop_index" /\ <<t, on>> \in Indexes(from, t) \ Indexes(into, t)
  \/ /\ k = 7 /\ do = "drop_index" /\ t \in Tables(from) \cap Tables(into)
     /\ <<t, on>> \in Indexes(from, t) \ Indexes(into, t)
     /\ HasUnique(from, t, on) \/ \E f : on = {f} /\ ~HasField(into, t, f)
  \/ /\ k = 8 /\ do = "drop_table" /\ on = {} /\ destruct
     /\ t \in Tables(from) \ Tables(into)

(* A statement is known by what it does, its table and its columns.        *)
LEMMA StatementIs ==
  ASSUME NEW do, NEW t, NEW on
  PROVE  /\ LET st == Statement(do, t, on) IN st.do = do /\ st.table = t /\ st.on = on
         /\ \A do2, t2, on2 : Statement(do, t, on) = Statement(do2, t2, on2)
              <=> do = do2 /\ t = t2 /\ on = on2
BY DEF Statement

(* Fields and unique statements that only one of two configurations has,   *)
(* of a structure that both have.                                          *)
Gained(kind, a, b, p) ==
  \E t, x : /\ p = <<kind, t, x>> /\ t \in Tables(a) \cap Tables(b)
            /\ <<kind, t, x>> \in DOMAIN b /\ <<kind, t, x>> \notin DOMAIN a

(* They are what is only in one of them, of these kinds.                   *)
LEMMA OnlyInTable ==
  ASSUME NEW a, NEW b, Accepted(a), Accepted(b), NEW kind \in {"field", "unique"}, NEW p
  PROVE  p \in OnlyIn(b, a) /\ p[1] = kind <=> Gained(kind, a, b, p)
<1>1. ASSUME p \in OnlyIn(b, a), p[1] = kind
      PROVE  Gained(kind, a, b, p)
  <2>1. /\ p = <<p[1], p[2], p[3]>> /\ p[2] \in Tables(a) \cap Tables(b)
        /\ p \in DOMAIN b \ DOMAIN a
    BY <1>1, FieldsListed
  <2> QED BY <1>1, <2>1 DEF Gained
<1>2. ASSUME NEW t, NEW x, p = <<kind, t, x>>, t \in Tables(a) \cap Tables(b),
             p \in DOMAIN b, p \notin DOMAIN a
      PROVE  p \in OnlyIn(b, a) /\ p[1] = kind
  <2>1. p[1] = kind /\ p[2] = t
    BY <1>2
  <2> QED BY <1>2, <2>1, FieldsListed
<1> QED BY <1>1, <1>2 DEF Gained

(* The fields and unique statements that a script finds added: those of    *)
(* structures that both configurations have.                               *)
LEMMA FieldsAdded ==
  ASSUME NEW from, NEW into, Accepted(from), Accepted(into), NEW p
  PROVE  /\ p \in Listed(Differences(from, into), "add", "field") <=>
              \E t, f : /\ p = <<"field", t, f>> /\ t \in Tables(from) \cap Tables(into)
                      /\ HasField(into, t, f) /\ ~HasField(from, t, f)
         /\ p \in Listed(Differences(from, into), "add", "unique") <=>
              \E t, on : /\ p = <<"unique", t, on>> /\ t \in Tables(from) \cap Tables(into)
                       /\ HasUnique(into, t, on) /\ ~HasUnique(from, t, on)
<1>1. p \in OnlyIn(into, from) /\ p[1] = "field" <=> Gained("field", from, into, p)
  BY OnlyInTable
<1>2. p \in OnlyIn(into, from) /\ p[1] = "unique" <=> Gained("unique", from, into, p)
  BY OnlyInTable
<1> QED BY ZenonT(30), <1>1, <1>2, ListedIs DEF Gained, HasField, HasUnique

(* And those that it finds deleted.                                        *)
LEMMA FieldsDeleted ==
  ASSUME NEW from, NEW into, Accepted(from), Accepted(into), NEW p
  PROVE  /\ p \in Listed(Differences(from, into), "del", "field") <=>
              \E t, f : /\ p = <<"field", t, f>> /\ t \in Tables(from) \cap Tables(into)
                      /\ HasField(from, t, f) /\ ~HasField(into, t, f)
         /\ p \in Listed(Differences(from, into), "del", "unique") <=>
              \E t, on : /\ p = <<"unique", t, on>> /\ t \in Tables(from) \cap Tables(into)
                       /\ HasUnique(from, t, on) /\ ~HasUnique(into, t, on)
<1>1. p \in OnlyIn(from, into) /\ p[1] = "field" <=> Gained("field", into, from, p)
  BY OnlyInTable
<1>2. p \in OnlyIn(from, into) /\ p[1] = "unique" <=> Gained("unique", into, from, p)
  BY OnlyInTable
<1> QED BY <1>1, <1>2, ListedIs DEF Gained, HasField, HasUnique

(* Indexes by the names of fields and unique statements.                   *)
LEMMA IndexIs ==
  ASSUME NEW cfg, Configuration(cfg), NEW t
  PROVE  /\ \A f : <<t, {f}>> \in Indexes(cfg, t) <=>
              HasField(cfg, t, f) /\ Isunique(cfg, <<"field", t, f>>)
         /\ \A on : HasUnique(cfg, t, on) => \A f : on # {f}
         /\ \A on : (\A f : on # {f}) => (<<t, on>> \in Indexes(cfg, t) <=> HasUnique(cfg, t, on))
<1>1. ASSUME NEW on, HasUnique(cfg, t, on)
      PROVE  \A f : on # {f}
  <2>1. <<"unique", t, on>>[1] = "unique" /\ <<"unique", t, on>>[3] = on
    OBVIOUS
  <2> QED BY <1>1, <2>1, IndexNames DEF HasUnique
<1> QED BY <1>1, IndexNames DEF HasUnique, HasField, Isunique

(* Every statement of the first four kinds is where and what it should be: *)
(* tables and their indexes, columns and theirs.                           *)
LEMMA WrittenFirst ==
  ASSUME NEW from, NEW into, Accepted(from), Accepted(into), NEW destruct \in BOOLEAN,
         NEW k \in 1..4, NEW st \in Plan(from, into, destruct)[k]
  PROVE  \E do, t, on : /\ st = Statement(do, t, on)
                        /\ WrittenAt(from, into, destruct, k, do, t, on)
<1> DEFINE D == Differences(from, into)
           At(do, t, on) == WrittenAt(from, into, destruct, k, do, t, on)
<1>0. Configuration(from) /\ Configuration(into)
  BY DEF Accepted
<1>1. ASSUME NEW p \in Listed(D, "add", "strct")
      PROVE  p[2] \in Tables(into) \ Tables(from)
  <2>1. p \in DOMAIN into \ DOMAIN from /\ p[1] = "strct"
    BY <1>1, ListedIs DEF OnlyIn
  <2>2. p = <<"strct", p[2]>>
    BY <1>0, <2>1, PartNames DEF Configuration
  <2> QED BY <1>0, <2>1, <2>2, TableNames
<1>2. CASE k = 1
  <2>1. PICK p \in Listed(D, "add", "strct") : st = Statement("create_table", p[2], {})
    BY <1>2 DEF Plan, Script, CreateTables
  <2>2. At("create_table", p[2], {})
    BY <1>1, <1>2, <2>1 DEF WrittenAt
  <2> QED BY <2>1, <2>2
<1>3. CASE k = 2
  <2>1. PICK p \in Listed(D, "add", "strct") :
           \E ix \in Indexes(into, p[2]) : st = Statement("create_index", ix[1], ix[2])
    BY <1>3 DEF Plan, Script, IndexTables
  <2>2. PICK ix \in Indexes(into, p[2]) : st = Statement("create_index", ix[1], ix[2])
    BY <2>1
  <2>3. ix = <<p[2], ix[2]>>
    BY <1>0, IndexNames
  <2>4. At("create_index", p[2], ix[2])
    BY <1>1, <1>3, <2>3 DEF WrittenAt
  <2>5. ix[1] = p[2]
    BY <2>3
  <2>6. st = Statement("create_index", p[2], ix[2])
    BY <2>2, <2>5
  <2> QED BY <2>4, <2>6
<1>4. CASE k = 3
  <2>1. PICK p \in Listed(D, "add", "field") :
           into[p].type # "struct" /\ st = Statement("add_column", p[2], {p[3]})
    BY <1>4 DEF Plan, Script, AddColumns
  <2>2. PICK t, f : /\ p = <<"field", t, f>> /\ t \in Tables(from) \cap Tables(into)
                    /\ HasField(into, t, f) /\ ~HasField(from, t, f)
    BY <2>1, FieldsAdded
  <2>3. f \in Columns(into, t)
    BY <1>0, <2>1, <2>2, TableNames DEF HasField
  <2>4. At("add_column", t, {f})
    BY <1>4, <2>2, <2>3 DEF WrittenAt
  <2>5. st = Statement("add_column", t, {f})
    BY <2>1, <2>2
  <2> QED BY <2>4, <2>5
<1>5. CASE k = 4
  <2>1. PICK p \in Listed(D, "add", "field") :
           Isunique(into, p) /\ st = Statement("create_index", p[2], {p[3]})
    BY <1>5 DEF Plan, Script, IndexColumns
  <2>2. PICK t, f : /\ p = <<"field", t, f>> /\ t \in Tables(from) \cap Tables(into)
                    /\ HasField(into, t, f) /\ ~HasField(from, t, f)
    BY <2>1, FieldsAdded
  <2>3. <<t, {f}>> \in Indexes(into, t) \ Indexes(from, t)
    BY <1>0, <2>1, <2>2, IndexIs
  <2>4. At("create_index", t, {f})
    BY <1>5, <2>2, <2>3 DEF WrittenAt
  <2>5. st = Statement("create_index", t, {f})
    BY <2>1, <2>2
  <2> QED BY <2>4, <2>5
<1> QED BY <1>2, <1>3, <1>4, <1>5

(* And every one of the last four: unique statements, changed flags, what  *)
(* is dropped.                                                             *)
LEMMA WrittenLast ==
  ASSUME NEW from, NEW into, Accepted(from), Accepted(into), NEW destruct \in BOOLEAN,
         NEW k \in 5..8, NEW st \in Plan(from, into, destruct)[k]
  PROVE  \E do, t, on : /\ st = Statement(do, t, on)
                        /\ WrittenAt(from, into, destruct, k, do, t, on)
<1> DEFINE D == Differences(from, into)
           At(do, t, on) == WrittenAt(from, into, destruct, k, do, t, on)
<1>0. Configuration(from) /\ Configuration(into)
  BY DEF Accepted
<1>1. CASE k = 5
  <2>1. PICK p \in Listed(D, "add", "unique") : st = Statement("create_index", p[2], p[3])
    BY <1>1 DEF Plan, Script, AddUniques
  <2>2. PICK t, on : /\ p = <<"unique", t, on>> /\ t \in Tables(from) \cap Tables(into)
                     /\ HasUnique(into, t, on) /\ ~HasUnique(from, t, on)
    BY <2>1, FieldsAdded
  <2>3. <<t, on>> \in Indexes(into, t) \ Indexes(from, t)
    BY <1>0, <2>2, IndexIs
  <2>4. At("create_index", t, on)
    BY <1>1, <2>2, <2>3 DEF WrittenAt
  <2>5. st = Statement("create_index", t, on)
    BY <2>1, <2>2
  <2> QED BY <2>4, <2>5
<1>2. CASE k = 6
  <2>1. PICK p \in Reflagged(D) :
          \/ Isunique(from, p) /\ ~Isunique(into, p) /\ st = Statement("drop_index", p[2], {p[3]})
          \/ ~Isunique(from, p) /\ Isunique(into, p) /\ st = Statement("create_index", p[2], {p[3]})
    BY <1>2 DEF Plan, Script, ModUniques
  <2>2. p \in DOMAIN from \cap DOMAIN into /\ p[1] = "field"
    BY <2>1, ListedIs
  <2>3. /\ p = <<"field", p[2], p[3]>>
        /\ <<"strct", p[2]>> \in DOMAIN from /\ <<"strct", p[2]>> \in DOMAIN into
    BY <1>0, <2>2, FieldsParsed DEF Accepted
  <2>4. PICK t, f : p = <<"field", t, f>> /\ t = p[2] /\ f = p[3]
    BY <2>3
  <2>5. /\ t \in Tables(from) \cap Tables(into) /\ HasField(from, t, f) /\ HasField(into, t, f)
    BY <1>0, <2>2, <2>3, <2>4, TableNames DEF HasField
  <2>6. /\ <<t, {f}>> \in Indexes(from, t) <=> Isunique(from, p)
        /\ <<t, {f}>> \in Indexes(into, t) <=> Isunique(into, p)
    BY <1>0, <2>4, <2>5, IndexIs
  <2>7. CASE Isunique(from, p) /\ ~Isunique(into, p)
    <3>1. At("drop_index", t, {f}) /\ st = Statement("drop_index", t, {f})
      BY <1>2, <2>1, <2>4, <2>5, <2>6, <2>7 DEF WrittenAt
    <3> QED BY <3>1
  <2>8. CASE ~Isunique(from, p) /\ Isunique(into, p)
    <3>1. At("create_index", t, {f}) /\ st = Statement("create_index", t, {f})
      BY <1>2, <2>1, <2>4, <2>5, <2>6, <2>8 DEF WrittenAt
    <3> QED BY <3>1
  <2> QED BY <2>1, <2>7, <2>8
<1>3. CASE k = 7
  <2>1. CASE \E p \in Listed(D, "del", "field") :
               Isunique(from, p) /\ st = Statement("drop_index", p[2], {p[3]})
    <3>1. PICK p \in Listed(D, "del", "field") :
            Isunique(from, p) /\ st = Statement("drop_index", p[2], {p[3]})
      BY <2>1
    <3>2. PICK t, f : /\ p = <<"field", t, f>> /\ t \in Tables(from) \cap Tables(into)
                      /\ HasField(from, t, f) /\ ~HasField(into, t, f)
      BY <3>1, FieldsDeleted
    <3>3. <<t, {f}>> \in Indexes(from, t) \ Indexes(into, t)
      BY <1>0, <3>1, <3>2, IndexIs
    <3>4. At("drop_index", t, {f}) /\ st = Statement("drop_index", t, {f})
      BY <1>3, <3>1, <3>2, <3>3 DEF WrittenAt
    <3> QED BY <3>4
  <2>2. CASE \E p \in Listed(D, "del", "unique") : st = Statement("drop_index", p[2], p[3])
    <3>1. PICK p \in Listed(D, "del", "unique") : st = Statement("drop_index", p[2], p[3])
      BY <2>2
    <3>2. PICK t, on : /\ p = <<"unique", t, on>> /\ t \in Tables(from) \cap Tables(into)
                       /\ HasUnique(from, t, on) /\ ~HasUnique(into, t, on)
      BY <3>1, FieldsDeleted
    <3>3. <<t, on>> \in Indexes(from, t) \ Indexes(into, t)
      BY <1>0, <3>2, IndexIs
    <3>4. At("drop_index", t, on) /\ st = Statement("drop_index", t, on)
      BY <1>3, <3>1, <3>2, <3>3 DEF WrittenAt
    <3> QED BY <3>4
  <2> QED BY <1>3, <2>1, <2>2 DEF Plan, Script, DropIndexes
<1>4. CASE k = 8
  <2>1. destruct
    BY <1>4 DEF Plan, Script, DropTables
  <2>2. PICK p \in Listed(D, "del", "strct") : st = Statement("drop_table", p[2], {})
    BY <1>4 DEF Plan, Script, DropTables
  <2>3. p \in DOMAIN from \ DOMAIN into /\ p[1] = "strct"
    BY <2>2, ListedIs DEF OnlyIn
  <2>4. p = <<"strct", p[2]>>
    BY <1>0, <2>3, PartNames DEF Configuration
  <2>5. p[2] \in Tables(from) \ Tables(into)
    BY <1>0, <2>3, <2>4, TableNames
  <2>6. At("drop_table", p[2], {})
    BY <1>4, <2>1, <2>5 DEF WrittenAt
  <2> QED BY <2>2, <2>6
<1> QED BY <1>1, <1>2, <1>3, <1>4

(* What the place of a statement says of it.                               *)
Placed(from, into, k, do, t, on) ==
  /\ do \in {"create_table", "add_column", "drop_table", "create_index", "drop_index"}
  /\ do = "create_table" <=> k = 1
  /\ do = "add_column" <=> k = 3
  /\ do = "drop_table" <=> k = 8
  /\ do = "create_index" => k \in {2, 4, 5, 6}
  /\ do = "drop_index" => k \in {6, 7}
  /\ k = 2 <=> do = "create_index" /\ t \notin Tables(from)
  /\ k = 5 \/ (k = 7 /\ HasUnique(from, t, on)) => \A f : on # {f}
  /\ k = 4 => \E f : on = {f} /\ ~HasField(from, t, f)
  /\ k = 6 => \E f : on = {f} /\ HasField(from, t, f) /\ HasField(into, t, f)
  /\ k = 7 /\ ~HasUnique(from, t, on) => \E f : on = {f} /\ ~HasField(into, t, f)

(* What a statement does tells where in the script it may be.              *)
LEMMA WrittenDo ==
  ASSUME NEW from, NEW into, Accepted(from), Accepted(into), NEW destruct \in BOOLEAN,
         NEW k \in 1..8, NEW do, NEW t, NEW on, WrittenAt(from, into, destruct, k, do, t, on)
  PROVE  Placed(from, into, k, do, t, on)
<1>1. /\ HasUnique(from, t, on) => \A f : on # {f}
      /\ HasUnique(into, t, on) => \A f : on # {f}
  BY IndexIs DEF Accepted
<1>2. /\ do \in {"create_table", "add_column", "drop_table", "create_index", "drop_index"}
      /\ do = "create_table" <=> k = 1
      /\ do = "add_column" <=> k = 3
      /\ do = "drop_table" <=> k = 8
      /\ do = "create_index" => k \in {2, 4, 5, 6}
      /\ do = "drop_index" => k \in {6, 7}
  BY DEF WrittenAt
<1>3. k = 2 <=> do = "create_index" /\ t \notin Tables(from)
  BY DEF WrittenAt
<1>4. k = 5 \/ (k = 7 /\ HasUnique(from, t, on)) => \A f : on # {f}
  BY <1>1 DEF WrittenAt
<1>5. /\ k = 4 => \E f : on = {f} /\ ~HasField(from, t, f)
      /\ k = 6 => \E f : on = {f} /\ HasField(from, t, f) /\ HasField(into, t, f)
      /\ k = 7 /\ ~HasUnique(from, t, on) => \E f : on = {f} /\ ~HasField(into, t, f)
  BY DEF WrittenAt
<1> QED BY <1>2, <1>3, <1>4, <1>5 DEF Placed

(* No statement is written twice.                                          *)
LEMMA WrittenOnce ==
  ASSUME NEW from, NEW into, Accepted(from), Accepted(into), NEW destruct \in BOOLEAN,
         NEW j \in 1..8, NEW k \in 1..8, NEW do, NEW t, NEW on,
         WrittenAt(from, into, destruct, j, do, t, on),
         WrittenAt(from, into, destruct, k, do, t, on)
  PROVE  j = k
<1>1. Placed(from, into, j, do, t, on) /\ Placed(from, into, k, do, t, on)
  BY WrittenDo
<1>2. \A f, g : on = {f} /\ on = {g} => f = g
  OBVIOUS
<1> QED BY <1>1, <1>2 DEF Placed

(* A statement of a script, by its place.                                  *)
LEMMA WrittenIs ==
  ASSUME NEW from, NEW into, Accepted(from), Accepted(into), NEW destruct \in BOOLEAN,
         NEW k \in 1..8
  PROVE  /\ \A do, t, on : Statement(do, t, on) \in Plan(from, into, destruct)[k] =>
              WrittenAt(from, into, destruct, k, do, t, on)
         /\ \A st \in Plan(from, into, destruct)[k] : st = Statement(st.do, st.table, st.on)
<1>1. ASSUME NEW st \in Plan(from, into, destruct)[k]
      PROVE  \E do, t, on : /\ st = Statement(do, t, on)
                            /\ WrittenAt(from, into, destruct, k, do, t, on)
  <2>1. CASE k \in 1..4
    BY <2>1, WrittenFirst
  <2>2. CASE k \in 5..8
    BY <2>2, WrittenLast
  <2>3. k \in 1..4 \/ k \in 5..8
    OBVIOUS
  <2> QED BY <2>1, <2>2, <2>3
<1>2. ASSUME NEW do, NEW t, NEW on, Statement(do, t, on) \in Plan(from, into, destruct)[k]
      PROVE  WrittenAt(from, into, destruct, k, do, t, on)
  <2>1. PICK do2, t2, on2 : /\ Statement(do, t, on) = Statement(do2, t2, on2)
                            /\ WrittenAt(from, into, destruct, k, do2, t2, on2)
    BY <1>1, <1>2
  <2>2. do = do2 /\ t = t2 /\ on = on2
    BY <2>1, StatementIs
  <2> QED BY <2>1, <2>2
<1>3. ASSUME NEW st \in Plan(from, into, destruct)[k]
      PROVE  st = Statement(st.do, st.table, st.on)
  <2>1. PICK do, t, on : st = Statement(do, t, on)
    BY <1>1
  <2>2. st.do = do /\ st.table = t /\ st.on = on
    BY <2>1, StatementIs
  <2> QED BY <2>1, <2>2
<1> QED BY <1>2, <1>3

(* Tables are made and dropped where structures come and go.               *)
LEMMA PlannedTables ==
  ASSUME NEW from, NEW into, Accepted(from), Accepted(into), NEW destruct \in BOOLEAN, NEW t
  PROVE  /\ Planned(Plan(from, into, destruct), "create_table", t, {})
              <=> t \in Tables(into) \ Tables(from)
         /\ Planned(Plan(from, into, destruct), "drop_table", t, {})
              <=> destruct /\ t \in Tables(from) \ Tables(into)
<1> DEFINE D == Differences(from, into)
           P == Plan(from, into, destruct)
<1>0. Configuration(from) /\ Configuration(into)
  BY DEF Accepted
<1>1. ASSUME Planned(P, "create_table", t, {})
      PROVE  t \in Tables(into) \ Tables(from)
  <2>1. PICK k \in 1..8 : WrittenAt(from, into, destruct, k, "create_table", t, {})
    BY <1>1, WrittenIs DEF Planned
  <2> QED BY <2>1 DEF WrittenAt
<1>2. ASSUME Planned(P, "drop_table", t, {})
      PROVE  destruct /\ t \in Tables(from) \ Tables(into)
  <2>1. PICK k \in 1..8 : WrittenAt(from, into, destruct, k, "drop_table", t, {})
    BY <1>2, WrittenIs DEF Planned
  <2> QED BY <2>1 DEF WrittenAt
<1>3. ASSUME NEW a, NEW b, Configuration(a), Configuration(b), t \in Tables(b) \ Tables(a)
      PROVE  <<"strct", t>> \in OnlyIn(b, a) /\ <<"strct", t>>[1] = "strct"
                /\ <<"strct", t>>[2] = t
  <2>1. <<"strct", t>> \in DOMAIN b /\ <<"strct", t>> \notin DOMAIN a
    BY <1>3, TableNames
  <2>2. IsPart(<<"strct", t>>) /\ <<"strct", t>>[1] = "strct" /\ <<"strct", t>>[2] = t
    BY <1>3, <2>1 DEF Configuration
  <2>3. IsTop(<<"strct", t>>)
    BY <2>2, PartParents DEF Tops
  <2> QED BY <2>1, <2>2, <2>3 DEF OnlyIn
<1>4. ASSUME t \in Tables(into) \ Tables(from)
      PROVE  Planned(P, "create_table", t, {})
  <2>1. <<"strct", t>> \in Listed(D, "add", "strct") /\ <<"strct", t>>[2] = t
    BY <1>0, <1>3, <1>4, ListedIs
  <2>2. Statement("create_table", t, {}) \in CreateTables(D)
    BY <2>1 DEF CreateTables
  <2>3. P[1] = CreateTables(D)
    BY DEF Plan, Script
  <2> QED BY <2>2, <2>3 DEF Planned
<1>5. ASSUME destruct, t \in Tables(from) \ Tables(into)
      PROVE  Planned(P, "drop_table", t, {})
  <2>1. <<"strct", t>> \in Listed(D, "del", "strct") /\ <<"strct", t>>[2] = t
    BY <1>0, <1>3, <1>5, ListedIs
  <2>2. Statement("drop_table", t, {}) \in DropTables(D, destruct)
    BY <1>5, <2>1 DEF DropTables
  <2>3. P[8] = DropTables(D, destruct)
    BY DEF Plan, Script
  <2> QED BY <2>2, <2>3 DEF Planned
<1> QED BY <1>1, <1>2, <1>4, <1>5

(* Columns are added where fields come.                                    *)
LEMMA PlannedColumns ==
  ASSUME NEW from, NEW into, Accepted(from), Accepted(into), NEW destruct \in BOOLEAN,
         NEW t, NEW f
  PROVE  Planned(Plan(from, into, destruct), "add_column", t, {f})
           <=> /\ t \in Tables(from) \cap Tables(into)
               /\ f \in Columns(into, t) /\ ~HasField(from, t, f)
<1> DEFINE D == Differences(from, into)
           P == Plan(from, into, destruct)
<1>0. Configuration(from) /\ Configuration(into)
  BY DEF Accepted
<1>1. ASSUME Planned(P, "add_column", t, {f})
      PROVE  /\ t \in Tables(from) \cap Tables(into)
             /\ f \in Columns(into, t) /\ ~HasField(from, t, f)
  <2>1. PICK k \in 1..8 : WrittenAt(from, into, destruct, k, "add_column", t, {f})
    BY <1>1, WrittenIs DEF Planned
  <2> QED BY <2>1 DEF WrittenAt
<1>2. ASSUME t \in Tables(from) \cap Tables(into), f \in Columns(into, t), ~HasField(from, t, f)
      PROVE  Planned(P, "add_column", t, {f})
  <2> DEFINE p == <<"field", t, f>>
  <2>1. HasField(into, t, f) /\ into[p].type # "struct"
    BY <1>0, <1>2, TableNames DEF HasField
  <2>2. p \in Listed(D, "add", "field")
    BY <1>2, <2>1, FieldsAdded
  <2>3. p[2] = t /\ p[3] = f
    OBVIOUS
  <2>4. Statement("add_column", t, {f}) \in AddColumns(D, into)
    <3> HIDE DEF p, D
    <3> QED BY <2>1, <2>2, <2>3 DEF AddColumns
  <2>5. P[3] = AddColumns(D, into)
    BY DEF Plan, Script
  <2> QED BY <2>4, <2>5 DEF Planned
<1> QED BY <1>1, <1>2

(* Indexes are made and dropped where they come and go, of structures that *)
(* are wanted.                                                             *)
LEMMA IndexesMade ==
  ASSUME NEW from, NEW into, Accepted(from), Accepted(into), NEW destruct \in BOOLEAN,
         NEW t \in Tables(into), NEW on,
         <<t, on>> \in Indexes(into, t), <<t, on>> \notin Indexes(from, t)
  PROVE  Planned(Plan(from, into, destruct), "create_index", t, on)
<1> DEFINE D == Differences(from, into)
           P == Plan(from, into, destruct)
           p(f) == <<"field", t, f>>
<1>0. Configuration(from) /\ Configuration(into)
  BY DEF Accepted
<1>1. CASE t \notin Tables(from)
  <2>1. <<"strct", t>> \in DOMAIN into /\ <<"strct", t>> \notin DOMAIN from
    BY <1>0, <1>1, TableNames
  <2>2. IsPart(<<"strct", t>>) /\ <<"strct", t>>[1] = "strct" /\ <<"strct", t>>[2] = t
    BY <1>0, <2>1 DEF Configuration
  <2>3. IsTop(<<"strct", t>>)
    BY <2>2, PartParents DEF Tops
  <2>4. <<"strct", t>> \in Listed(D, "add", "strct")
    BY <2>1, <2>2, <2>3, ListedIs DEF OnlyIn
  <2>5. <<t, on>>[1] = t /\ <<t, on>>[2] = on
    OBVIOUS
  <2>6. Statement("create_index", t, on) \in IndexTables(D, into)
    <3> HIDE DEF D
    <3>1. Statement("create_index", t, on) \in
            { Statement("create_index", ix[1], ix[2]) : ix \in Indexes(into, t) }
      BY <2>5
    <3> QED BY <2>2, <2>4, <3>1 DEF IndexTables
  <2>7. P[2] = IndexTables(D, into)
    BY DEF Plan, Script
  <2> QED BY <2>6, <2>7 DEF Planned
<1>2. ASSUME t \in Tables(from), NEW f, on = {f}
      PROVE  Planned(P, "create_index", t, on)
  <2>1. /\ HasField(into, t, f) /\ Isunique(into, p(f))
        /\ HasField(from, t, f) => ~Isunique(from, p(f))
    BY <1>0, <1>2, IndexIs
  <2>2. p(f)[1] = "field" /\ p(f)[2] = t /\ p(f)[3] = f
    OBVIOUS
  <2>3. CASE ~HasField(from, t, f)
    <3>1. p(f) \in Listed(D, "add", "field")
      BY <1>2, <2>1, <2>3, FieldsAdded
    <3>2. into[p(f)].type # "struct"
      <4>1. FieldParsed(into[p(f)])
        BY <1>0, <2>1, <2>2, FieldsParsed DEF HasField
      <4> QED BY <2>1, <4>1 DEF FieldParsed, Isunique
    <3>3. Statement("create_index", t, {f}) \in IndexColumns(D, into)
      <4> HIDE DEF p, D
      <4> QED BY <2>1, <2>2, <3>1, <3>2 DEF IndexColumns
    <3>4. P[4] = IndexColumns(D, into)
      BY DEF Plan, Script
    <3> QED BY <1>2, <3>3, <3>4 DEF Planned
  <2>4. CASE HasField(from, t, f)
    <3>1. p(f) \in Reflagged(D)
      BY <2>1, <2>2, <2>4, ListedIs DEF HasField, Isunique
    <3>2. Statement("create_index", t, {f}) \in ModUniques(D, from, into)
      <4> HIDE DEF p, D
      <4> QED BY <2>1, <2>2, <2>4, <3>1 DEF ModUniques
    <3>3. P[6] = ModUniques(D, from, into)
      BY DEF Plan, Script
    <3> QED BY <1>2, <3>2, <3>3 DEF Planned
  <2> QED BY <2>3, <2>4
<1>3. ASSUME t \in Tables(from), \A f : on # {f}
      PROVE  Planned(P, "create_index", t, on)
  <2> DEFINE u == <<"unique", t, on>>
  <2>1. HasUnique(into, t, on) /\ ~HasUnique(from, t, on)
    BY <1>0, <1>3, IndexIs
  <2>2. u \in Listed(D, "add", "unique")
    BY <1>3, <2>1, FieldsAdded
  <2>3. u[2] = t /\ u[3] = on
    OBVIOUS
  <2>4. Statement("create_index", t, on) \in AddUniques(D)
    <3> HIDE DEF u, D
    <3> QED BY <2>2, <2>3 DEF AddUniques
  <2>5. P[5] = AddUniques(D)
    BY DEF Plan, Script
  <2> QED BY <2>4, <2>5 DEF Planned
<1> QED BY <1>1, <1>2, <1>3

(* An index that is not wanted any more is dropped by some statement, if   *)
(* its table stays.                                                        *)
LEMMA IndexesDropped ==
  ASSUME NEW from, NEW into, Accepted(from), Accepted(into), NEW destruct \in BOOLEAN,
         NEW t \in Tables(into), NEW on,
         <<t, on>> \in Indexes(from, t), <<t, on>> \notin Indexes(into, t)
  PROVE  Planned(Plan(from, into, destruct), "drop_index", t, on)
<1> DEFINE D == Differences(from, into)
           P == Plan(from, into, destruct)
           p(f) == <<"field", t, f>>
<1>0. Configuration(from) /\ Configuration(into)
  BY DEF Accepted
<1>1. t \in Tables(from)
  BY NoTable
<1>2. ASSUME NEW f, on = {f}
      PROVE  Planned(P, "drop_index", t, on)
  <2>1. /\ HasField(from, t, f) /\ Isunique(from, p(f))
        /\ HasField(into, t, f) => ~Isunique(into, p(f))
    BY <1>0, <1>2, IndexIs
  <2>2. p(f)[1] = "field" /\ p(f)[2] = t /\ p(f)[3] = f
    OBVIOUS
  <2>3. CASE ~HasField(into, t, f)
    <3>1. p(f) \in Listed(D, "del", "field")
      BY <1>1, <2>1, <2>3, FieldsDeleted
    <3>2. Statement("drop_index", t, {f}) \in DropIndexes(D, from)
      <4> HIDE DEF p, D
      <4> QED BY <2>1, <2>2, <3>1 DEF DropIndexes
    <3>3. P[7] = DropIndexes(D, from)
      BY DEF Plan, Script
    <3> QED BY <1>2, <3>2, <3>3 DEF Planned
  <2>4. CASE HasField(into, t, f)
    <3>1. p(f) \in Reflagged(D)
      BY <2>1, <2>2, <2>4, ListedIs DEF HasField, Isunique
    <3>2. Statement("drop_index", t, {f}) \in ModUniques(D, from, into)
      <4> HIDE DEF p, D
      <4> QED BY <2>1, <2>2, <2>4, <3>1 DEF ModUniques
    <3>3. P[6] = ModUniques(D, from, into)
      BY DEF Plan, Script
    <3> QED BY <1>2, <3>2, <3>3 DEF Planned
  <2> QED BY <2>3, <2>4
<1>3. ASSUME \A f : on # {f}
      PROVE  Planned(P, "drop_index", t, on)
  <2> DEFINE u == <<"unique", t, on>>
  <2>1. HasUnique(from, t, on) /\ ~HasUnique(into, t, on)
    BY <1>0, <1>3, IndexIs
  <2>2. u \in Listed(D, "del", "unique")
    BY <1>1, <2>1, FieldsDeleted
  <2>3. u[2] = t /\ u[3] = on
    OBVIOUS
  <2>4. Statement("drop_index", t, on) \in DropIndexes(D, from)
    <3> HIDE DEF u, D
    <3> QED BY <2>2, <2>3 DEF DropIndexes
  <2>5. P[7] = DropIndexes(D, from)
    BY DEF Plan, Script
  <2> QED BY <2>4, <2>5 DEF Planned
<1> QED BY <1>2, <1>3

(* The indexes that a script makes and drops, of tables that stay or are   *)
(* made, are just those that the configurations do not share.              *)
LEMMA PlannedIndexes ==
  ASSUME NEW from, NEW into, Accepted(from), Accepted(into), NEW destruct \in BOOLEAN,
         NEW t \in Tables(into), NEW on
  PROVE  /\ Planned(Plan(from, into, destruct), "create_index", t, on)
              <=> <<t, on>> \in Indexes(into, t) \ Indexes(from, t)
         /\ Planned(Plan(from, into, destruct), "drop_index", t, on)
              <=> <<t, on>> \in Indexes(from, t) \ Indexes(into, t)
<1> DEFINE P == Plan(from, into, destruct)
<1>1. ASSUME Planned(P, "create_index", t, on)
      PROVE  <<t, on>> \in Indexes(into, t) \ Indexes(from, t)
  <2>1. PICK k \in 1..8 : WrittenAt(from, into, destruct, k, "create_index", t, on)
    BY <1>1, WrittenIs DEF Planned
  <2>2. t \notin Tables(from) => Indexes(from, t) = {}
    BY NoTable
  <2> QED BY <2>1, <2>2 DEF WrittenAt
<1>2. ASSUME Planned(P, "drop_index", t, on)
      PROVE  <<t, on>> \in Indexes(from, t) \ Indexes(into, t)
  <2>1. PICK k \in 1..8 : WrittenAt(from, into, destruct, k, "drop_index", t, on)
    BY <1>2, WrittenIs DEF Planned
  <2> QED BY <2>1 DEF WrittenAt
<1> QED BY <1>1, <1>2, IndexesMade, IndexesDropped

(***************************************************************************)
(* Databases.                                                              *)
(***************************************************************************)
Shaped(b) == b = [tables |-> b.tables, indexes |-> b.indexes]

(* One that has the schema of a configuration; but columns that were only  *)
(* noted as dropped are still there if a script was destructive.           *)
Settled(cfg, b, lossy) ==
  /\ Shaped(b)
  /\ DOMAIN b.tables = Tables(cfg)
  /\ \A t \in Tables(cfg) : \A f \in Columns(cfg, t) :
       f \in DOMAIN b.tables[t] /\ b.tables[t][f] = Column(cfg[<<"field", t, f>>])
  /\ ~lossy => \A t \in Tables(cfg) : DOMAIN b.tables[t] \subseteq Columns(cfg, t)
  /\ \A ix : ix \in b.indexes <=> \E t \in Tables(cfg) : ix \in Indexes(cfg, t)

(* What is left of a script: tables are dropped after everything else.     *)
Remaining(from, into, destruct, plan) ==
  /\ DOMAIN plan = 1..8
  /\ \A k \in 1..8 : plan[k] \subseteq Plan(from, into, destruct)[k]
  /\ (\E j \in 1..7 : plan[j] # {}) => plan[8] = Plan(from, into, destruct)[8]

(* One on the way to the schema of a configuration: what is left of the    *)
(* script is what it differs by.                                           *)
TablesFit(into, plan, b) ==
  \A t : t \in DOMAIN b.tables <=>
           IF t \in Tables(into) THEN ~Planned(plan, "create_table", t, {})
           ELSE Planned(plan, "drop_table", t, {})

ColumnsFit(into, plan, b) ==
  \A t \in DOMAIN b.tables \cap Tables(into) : \A f \in Columns(into, t) :
    \/ Planned(plan, "add_column", t, {f})
    \/ f \in DOMAIN b.tables[t] /\ b.tables[t][f] = Column(into[<<"field", t, f>>])

NoneLeft(into, plan, b) ==
  \A t \in DOMAIN b.tables \cap Tables(into) : \A f \in DOMAIN b.tables[t] :
    f \in Columns(into, t) /\ ~Planned(plan, "add_column", t, {f})

IndexesFit(into, plan, b) ==
  /\ \A ix \in b.indexes : ix = <<ix[1], ix[2]>> /\ ix[1] \in DOMAIN b.tables
  /\ \A t \in Tables(into) : \A on :
       <<t, on>> \in b.indexes <=>
         IF <<t, on>> \in Indexes(into, t) THEN ~Planned(plan, "create_index", t, on)
         ELSE Planned(plan, "drop_index", t, on)

Halfway(from, into, destruct, plan, b, lossy) ==
  /\ Shaped(b)
  /\ Remaining(from, into, destruct, plan)
  /\ TablesFit(into, plan, b)
  /\ ColumnsFit(into, plan, b)
  /\ ~lossy => NoneLeft(into, plan, b)
  /\ IndexesFit(into, plan, b)

(* What is not refused leaves columns as they are.                         *)
LEMMA ColumnsStay ==
  ASSUME NEW from, NEW into, Accepted(from), Accepted(into), NEW destruct \in BOOLEAN,
         ~Refused(Differences(from, into), from, into, destruct)
  PROVE  /\ ~destruct => Tables(from) \subseteq Tables(into)
         /\ ~destruct => \A t, f : f \in Columns(from, t) => HasField(into, t, f)
         /\ \A t, f : HasField(from, t, f) /\ HasField(into, t, f) =>
              /\ f \in Columns(from, t) <=> f \in Columns(into, t)
              /\ f \in Columns(into, t) =>
                   Column(from[<<"field", t, f>>]) = Column(into[<<"field", t, f>>])
<1>0. Configuration(from) /\ Configuration(into)
  BY DEF Accepted
<1>1. Promise!Compatible(from, into, destruct)
  BY RefusedIs
<1>2. /\ Promise!Tables(from) = Tables(from) /\ Promise!Tables(into) = Tables(into)
      /\ \A s : /\ Promise!Fields(into, s) = Fields(into, s)
                /\ Promise!Columns(from, s) = Columns(from, s)
  BY DEF Promise!Tables, Promise!Fields, Promise!Columns, Tables, Fields, Columns
<1>3. \A a : Promise!Column(a) = Column(a)
  BY DEF Promise!Column, Promise!SqlType, Column, SqlType
<1>4. ~destruct => Tables(from) \subseteq Tables(into)
  BY <1>1, <1>2 DEF Promise!Compatible, Promise!Kept
<1>5. ASSUME ~destruct, NEW t, NEW f, f \in Columns(from, t)
      PROVE  HasField(into, t, f)
  <2>1. t \in Tables(from)
    BY <1>5, NoTable
  <2>2. f \in Fields(into, t)
    BY <1>1, <1>2, <1>5, <2>1 DEF Promise!Compatible, Promise!Kept
  <2> QED BY <1>0, <2>2, TableNames DEF HasField
<1>6. ASSUME NEW t, NEW f, HasField(from, t, f), HasField(into, t, f)
      PROVE  /\ f \in Columns(from, t) <=> f \in Columns(into, t)
             /\ f \in Columns(into, t) =>
                  Column(from[<<"field", t, f>>]) = Column(into[<<"field", t, f>>])
  <2> DEFINE p == <<"field", t, f>>
  <2>1. p \in DOMAIN from \cap DOMAIN into /\ p[1] = "field"
    BY <1>6 DEF HasField
  <2>2. Promise!SameColumn(from[p], into[p])
    BY <1>1, <2>1 DEF Promise!Compatible
  <2>3. from[p].type = into[p].type
    BY <2>2 DEF Promise!SameColumn
  <2>4. from[p].type # "struct" => Column(from[p]) = Column(into[p])
    BY <1>3, <2>2 DEF Promise!SameColumn
  <2>5. /\ f \in Columns(from, t) <=> from[p].type # "struct"
        /\ f \in Columns(into, t) <=> into[p].type # "struct"
    BY <1>0, <2>1, TableNames
  <2> QED BY <2>3, <2>4, <2>5
<1> QED BY <1>4, <1>5, <1>6

(* A script starts from a settled database.                                *)
LEMMA Starts ==
  ASSUME NEW from, NEW into, Accepted(from), Accepted(into), NEW destruct \in BOOLEAN,
         ~Refused(Differences(from, into), from, into, destruct),
         NEW b, NEW lossy \in BOOLEAN, Settled(from, b, lossy)
  PROVE  Halfway(from, into, destruct, Plan(from, into, destruct), b, lossy \/ destruct)
<1> DEFINE P == Plan(from, into, destruct)
<1>0. Configuration(from) /\ Configuration(into) /\ DOMAIN b.tables = Tables(from)
  BY DEF Accepted, Settled
<1>1. Remaining(from, into, destruct, P)
  BY DEF Remaining, Plan, Script
<1>2. TablesFit(into, P, b)
  BY <1>0, ColumnsStay, PlannedTables DEF TablesFit
<1>3. ASSUME NEW t \in DOMAIN b.tables \cap Tables(into), NEW f \in Columns(into, t)
      PROVE  \/ Planned(P, "add_column", t, {f})
             \/ f \in DOMAIN b.tables[t] /\ b.tables[t][f] = Column(into[<<"field", t, f>>])
  <2>1. CASE ~HasField(from, t, f)
    BY <1>0, <1>3, <2>1, PlannedColumns
  <2>2. CASE HasField(from, t, f)
    <3>1. HasField(into, t, f)
      BY <1>0, <1>3, TableNames DEF HasField
    <3>2. f \in Columns(from, t)
             /\ Column(from[<<"field", t, f>>]) = Column(into[<<"field", t, f>>])
      BY <1>3, <2>2, <3>1, ColumnsStay
    <3> QED BY <1>0, <1>3, <3>2 DEF Settled
  <2> QED BY <2>1, <2>2
<1>4. ASSUME ~lossy, ~destruct, NEW t \in DOMAIN b.tables \cap Tables(into),
             NEW f \in DOMAIN b.tables[t]
      PROVE  f \in Columns(into, t) /\ ~Planned(P, "add_column", t, {f})
  <2>1. f \in Columns(from, t)
    BY <1>0, <1>4 DEF Settled
  <2>2. HasField(from, t, f) /\ HasField(into, t, f)
    BY ZenonT(30), <1>0, <1>4, <2>1, TableNames, ColumnsStay DEF HasField
  <2>3. f \in Columns(into, t)
    BY <2>1, <2>2, ColumnsStay
  <2>4. ~Planned(P, "add_column", t, {f})
    BY <2>2, PlannedColumns
  <2> QED BY <2>3, <2>4
<1>5. ASSUME NEW ix \in b.indexes
      PROVE  ix = <<ix[1], ix[2]>> /\ ix[1] \in DOMAIN b.tables
  <2>1. PICK t \in Tables(from) : ix \in Indexes(from, t)
    BY DEF Settled
  <2>2. ix = <<t, ix[2]>>
    BY <1>0, <2>1, IndexNames
  <2> QED BY <1>0, <2>1, <2>2
<1>6. ASSUME NEW t \in Tables(into), NEW on
      PROVE  <<t, on>> \in b.indexes <=>
               IF <<t, on>> \in Indexes(into, t) THEN ~Planned(P, "create_index", t, on)
               ELSE Planned(P, "drop_index", t, on)
  <2>1. <<t, on>> \in b.indexes <=> <<t, on>> \in Indexes(from, t)
    <3>1. \A s : <<t, on>> \in Indexes(from, s) => s = t
      BY <1>0, IndexNames
    <3>2. <<t, on>> \in Indexes(from, t) => t \in Tables(from)
      BY NoTable
    <3> QED BY <3>1, <3>2 DEF Settled
  <2> QED BY <1>6, <2>1, PlannedIndexes
<1>7. Shaped(b)
  BY DEF Settled
<1> QED BY <1>1, <1>2, <1>3, <1>4, <1>5, <1>6, <1>7
    DEF Halfway, ColumnsFit, NoneLeft, IndexesFit

(* One that ends leaves a settled database.                                *)
LEMMA Ends ==
  ASSUME NEW from, NEW into, Accepted(into), NEW destruct \in BOOLEAN, NEW b,
         NEW lossy \in BOOLEAN, NEW plan, Halfway(from, into, destruct, plan, b, lossy),
         \A k \in DOMAIN plan : plan[k] = {}
  PROVE  Settled(into, b, lossy)
<1>0. Configuration(into)
  BY DEF Accepted
<1>1. \A do, t, on : ~Planned(plan, do, t, on)
  BY DEF Halfway, Remaining, Planned
<1>2. DOMAIN b.tables = Tables(into)
  BY <1>1 DEF Halfway, TablesFit
<1>3. \A ix \in b.indexes : ix = <<ix[1], ix[2]>> /\ ix[1] \in Tables(into)
  BY <1>2 DEF Halfway, IndexesFit
<1>4. \A t \in Tables(into) : \A on : <<t, on>> \in b.indexes <=> <<t, on>> \in Indexes(into, t)
  BY <1>1 DEF Halfway, IndexesFit
<1>5. \A t \in Tables(into) : \A ix \in Indexes(into, t) : ix = <<t, ix[2]>>
  BY <1>0, IndexNames
<1>6. \A ix : ix \in b.indexes <=> \E t \in Tables(into) : ix \in Indexes(into, t)
  BY <1>3, <1>4, <1>5
<1>7. \A t \in Tables(into) : \A f \in Columns(into, t) :
        f \in DOMAIN b.tables[t] /\ b.tables[t][f] = Column(into[<<"field", t, f>>])
  BY <1>1, <1>2 DEF Halfway, ColumnsFit
<1>8. ~lossy => \A t \in Tables(into) : DOMAIN b.tables[t] \subseteq Columns(into, t)
  BY <1>2 DEF Halfway, NoneLeft
<1>9. Shaped(b)
  BY DEF Halfway
<1> QED BY <1>2, <1>6, <1>7, <1>8, <1>9 DEF Settled

(* A statement that is left is a statement of the script.                  *)
LEMMA Left ==
  ASSUME NEW from, NEW into, Accepted(from), Accepted(into), NEW destruct \in BOOLEAN,
         NEW plan, Remaining(from, into, destruct, plan),
         NEW k \in DOMAIN plan, NEW st \in plan[k]
  PROVE  /\ k \in 1..8 /\ st = Statement(st.do, st.table, st.on)
         /\ WrittenAt(from, into, destruct, k, st.do, st.table, st.on)
         /\ Planned(plan, st.do, st.table, st.on)
<1>1. k \in 1..8 /\ st \in Plan(from, into, destruct)[k]
  BY DEF Remaining
<1>2. st = Statement(st.do, st.table, st.on)
  BY <1>1, WrittenIs
<1>3. WrittenAt(from, into, destruct, k, st.do, st.table, st.on)
  BY <1>1, <1>2, WrittenIs
<1>4. Planned(plan, st.do, st.table, st.on)
  BY <1>1, <1>2 DEF Planned
<1> QED BY <1>1, <1>2, <1>3, <1>4

(* Executing a statement takes it, and nothing else, from a script.        *)
Rest(plan, k, st) == [plan EXCEPT ![k] = @ \ {st}]
Taken(plan, rest, st) ==
  \A do, t, on : Planned(rest, do, t, on) <=>
    Planned(plan, do, t, on) /\ ~(do = st.do /\ t = st.table /\ on = st.on)

(* Taking one statement off a script takes just that one from what is      *)
(* planned, as none is written twice.                                      *)
LEMMA Executed ==
  ASSUME NEW from, NEW into, Accepted(from), Accepted(into), NEW destruct \in BOOLEAN,
         NEW plan, Remaining(from, into, destruct, plan),
         NEW k \in DOMAIN plan, NEW st \in plan[k],
         \A j \in 1..(k - 1) : plan[j] = {}
  PROVE  /\ Remaining(from, into, destruct, Rest(plan, k, st))
         /\ Taken(plan, Rest(plan, k, st), st)
<1> DEFINE P == Plan(from, into, destruct)
           rest == Rest(plan, k, st)
<1>1. /\ DOMAIN plan = 1..8 /\ \A i \in 1..8 : plan[i] \subseteq P[i]
      /\ k \in 1..8 /\ st \in P[k]
  BY DEF Remaining
<1>2. /\ DOMAIN rest = 1..8 /\ rest[k] = plan[k] \ {st}
      /\ \A i \in 1..8 \ {k} : rest[i] = plan[i]
  BY <1>1 DEF Rest
<1> HIDE DEF rest
<1>3. Remaining(from, into, destruct, rest)
  <2>1. (\E j \in 1..7 : rest[j] # {}) => rest[8] = P[8]
    <3>1. CASE k = 8
      BY <1>1, <1>2, <3>1
    <3>2. CASE k \in 1..7
      BY <1>1, <1>2, <3>2 DEF Remaining
    <3> QED BY <1>1, <3>1, <3>2
  <2> QED BY <1>1, <1>2, <2>1 DEF Remaining
<1>4. st = Statement(st.do, st.table, st.on)
         /\ WrittenAt(from, into, destruct, k, st.do, st.table, st.on)
  BY Left
<1>5. ASSUME NEW do, NEW t, NEW on
      PROVE  Planned(rest, do, t, on) <=>
               Planned(plan, do, t, on) /\ ~(do = st.do /\ t = st.table /\ on = st.on)
  <2>1. Statement(do, t, on) = st <=> do = st.do /\ t = st.table /\ on = st.on
    BY <1>4, StatementIs
  <2>2. ASSUME NEW i \in 1..8, st \in plan[i]
        PROVE  i = k
    <3>1. WrittenAt(from, into, destruct, i, st.do, st.table, st.on)
      BY <1>1, <1>4, <2>2, WrittenIs
    <3> QED BY <1>1, <1>4, <3>1, WrittenOnce
  <2>3. \A i \in 1..8 : Statement(do, t, on) \in rest[i] <=>
                          Statement(do, t, on) \in plan[i] /\ Statement(do, t, on) # st
    BY <1>2, <2>2
  <2> QED BY <2>1, <2>3 DEF Planned
<1> QED BY <1>3, <1>5 DEF Taken, rest

(* What is made is not there and what is dropped is; the table and the     *)
(* columns of an index are there.                                          *)
LEMMA Fits ==
  ASSUME NEW from, NEW into, Accepted(from), Accepted(into), NEW destruct \in BOOLEAN,
         NEW b, NEW lossy \in BOOLEAN, NEW plan,
         Halfway(from, into, destruct, plan, b, lossy),
         NEW k \in DOMAIN plan, NEW st \in plan[k],
         \A j \in 1..(k - 1) : plan[j] = {}
  PROVE  NamesFit(b, st) \/ (lossy /\ st.do = "add_column")
<1> DEFINE t == st.table
           on == st.on
           P == Plan(from, into, destruct)
<1>0. Configuration(from) /\ Configuration(into) /\ Remaining(from, into, destruct, plan)
  BY DEF Accepted, Halfway
<1>1. /\ k \in 1..8 /\ st = Statement(st.do, t, on)
      /\ WrittenAt(from, into, destruct, k, st.do, t, on) /\ Planned(plan, st.do, t, on)
  BY <1>0, Left
<1>2. \A do2, t2, on2 : Planned(plan, do2, t2, on2) =>
        \E i \in 1..8 : i >= k /\ WrittenAt(from, into, destruct, i, do2, t2, on2)
  <2>1. ASSUME NEW do2, NEW t2, NEW on2, Planned(plan, do2, t2, on2)
        PROVE  \E i \in 1..8 : i >= k /\ WrittenAt(from, into, destruct, i, do2, t2, on2)
    <3>1. PICK i \in 1..8 : Statement(do2, t2, on2) \in plan[i]
      BY <2>1 DEF Planned
    <3>2. i >= k
      BY <1>1, <3>1
    <3>3. Statement(do2, t2, on2) \in P[i]
      BY <1>0, <3>1 DEF Remaining
    <3> QED BY <3>2, <3>3, WrittenIs
  <2> QED BY <2>1
<1>3. CASE k = 1
  <2>1. st.do = "create_table" /\ on = {} /\ t \in Tables(into)
    BY <1>1, <1>3 DEF WrittenAt
  <2>2. t \notin DOMAIN b.tables
    BY <1>1, <2>1 DEF Halfway, TablesFit
  <2> QED BY <2>1, <2>2 DEF NamesFit, HasTable
<1>4. CASE k = 8
  <2>1. st.do = "drop_table" /\ on = {} /\ t \notin Tables(into)
    BY <1>1, <1>4 DEF WrittenAt
  <2>2. t \in DOMAIN b.tables
    BY <1>1, <2>1 DEF Halfway, TablesFit
  <2> QED BY <2>1, <2>2 DEF NamesFit, HasTable
<1>5. ASSUME k \in 2..7
      PROVE  t \in DOMAIN b.tables /\ t \in Tables(into)
  <2>1. t \in Tables(into)
    BY <1>1, <1>5 DEF WrittenAt
  <2>2. \A i \in 1..8 : i >= k => ~WrittenAt(from, into, destruct, i, "create_table", t, {})
    BY <1>1, <1>5 DEF WrittenAt
  <2>3. ~Planned(plan, "create_table", t, {})
    BY <1>2, <2>2
  <2> QED BY <2>1, <2>3 DEF Halfway, TablesFit
<1>6. CASE k = 3
  <2>1. PICK f : st.do = "add_column" /\ on = {f}
    BY <1>1, <1>6 DEF WrittenAt
  <2>2. ASSUME ~lossy
        PROVE  f \notin DOMAIN b.tables[t]
    BY <1>1, <1>5, <1>6, <2>1, <2>2 DEF Halfway, NoneLeft
  <2> QED BY <1>5, <1>6, <2>1, <2>2 DEF NamesFit, HasTable
<1>7. CASE st.do = "drop_index"
  <2>1. k \in {6, 7} /\ <<t, on>> \notin Indexes(into, t)
    BY <1>1, <1>7 DEF WrittenAt
  <2>2. <<t, on>> \in b.indexes
    BY <1>1, <1>5, <1>7, <2>1 DEF Halfway, IndexesFit
  <2> QED BY <1>7, <2>2 DEF NamesFit
<1>8. CASE st.do = "create_index"
  <2>1. k \in {2, 4, 5, 6} /\ <<t, on>> \in Indexes(into, t)
    BY <1>1, <1>8 DEF WrittenAt
  <2>2. t \in DOMAIN b.tables /\ t \in Tables(into)
    BY <1>5, <2>1
  <2>3. <<t, on>> \notin b.indexes
    BY <1>1, <1>8, <2>1, <2>2 DEF Halfway, IndexesFit
  <2>4. on \subseteq Columns(into, t)
    <3>1. CASE \E f : on = {f}
      <4>1. PICK f : on = {f}
        BY <3>1
      <4>2. HasField(into, t, f) /\ Isunique(into, <<"field", t, f>>)
        BY <1>0, <2>1, <4>1, IndexIs
      <4>3. <<"field", t, f>>[1] = "field"
        OBVIOUS
      <4>4. FieldParsed(into[<<"field", t, f>>])
        BY <1>0, <4>2, <4>3, FieldsParsed DEF HasField
      <4>5. into[<<"field", t, f>>].type # "struct"
        BY <4>2, <4>4 DEF FieldParsed, Isunique
      <4> QED BY <1>0, <4>1, <4>2, <4>5, TableNames DEF HasField
    <3>2. CASE \A f : on # {f}
      <4>1. HasUnique(into, t, on)
        BY <1>0, <2>1, <3>2, IndexIs
      <4>2. /\ <<"unique", t, on>>[1] = "unique" /\ <<"unique", t, on>>[2] = t
            /\ <<"unique", t, on>>[3] = on
        OBVIOUS
      <4> QED BY <4>1, <4>2 DEF HasUnique, Accepted, Legal
    <3> QED BY <3>1, <3>2
  <2>5. ASSUME NEW f \in on
        PROVE  f \in DOMAIN b.tables[t]
    <3>1. \A i \in 1..8 : i >= k => ~WrittenAt(from, into, destruct, i, "add_column", t, {f})
      BY <1>1, <2>1 DEF WrittenAt
    <3>2. ~Planned(plan, "add_column", t, {f})
      BY <1>2, <3>1
    <3> QED BY <2>2, <2>4, <3>2 DEF Halfway, ColumnsFit
  <2> QED BY <1>8, <2>2, <2>3, <2>5 DEF NamesFit, HasTable
<1>9. k \in {1, 3, 8} \/ st.do \in {"create_index", "drop_index"}
  BY <1>1 DEF WrittenAt
<1> QED BY <1>3, <1>4, <1>6, <1>7, <1>8, <1>9

(* What a statement does to a database.                                    *)
Dos == {"create_table", "add_column", "drop_table", "create_index", "drop_index"}

Outcome(into, b, st, b2) ==
  /\ st.do = "create_table" =>
       b2.tables = [s \in DOMAIN b.tables \cup {st.table} |->
                      IF s = st.table THEN Schema(into).tables[st.table] ELSE b.tables[s]]
  /\ st.do = "drop_table" =>
       /\ b2.tables = [s \in DOMAIN b.tables \ {st.table} |-> b.tables[s]]
       /\ b2.indexes = { ix \in b.indexes : ix[1] # st.table }
  /\ st.do = "add_column" =>
       b2.tables = [b.tables EXCEPT ![st.table] =
                      [f \in DOMAIN @ \cup st.on |->
                         IF f \in st.on THEN Column(into[<<"field", st.table, f>>]) ELSE @[f]]]
  /\ st.do = "create_index" => b2.indexes = b.indexes \cup {<<st.table, st.on>>}
  /\ st.do = "drop_index" => b2.indexes = b.indexes \ {<<st.table, st.on>>}
  /\ st.do \in {"create_table", "add_column"} => b2.indexes = b.indexes
  /\ st.do \in {"create_index", "drop_index"} => b2.tables = b.tables

(* What executing a statement does to the tables, and to the indexes.      *)
LEMMA DoneIs ==
  ASSUME NEW into, NEW b, Shaped(b), NEW st, st.do \in Dos
  PROVE  Shaped(Done(b, into, st)) /\ Outcome(into, b, st, Done(b, into, st))
<1> DEFINE t == st.table
           b2 == Done(b, into, st)
<1>1. CASE st.do = "create_table"
  <2>1. b2 = [b EXCEPT !.tables = [s \in DOMAIN @ \cup {t} |->
                                     IF s = t THEN Schema(into).tables[t] ELSE @[s]]]
    BY <1>1 DEF Done
  <2> QED BY <1>1, <2>1 DEF Shaped, Outcome
<1>2. CASE st.do = "drop_table"
  <2>1. b2 = [tables |-> [s \in DOMAIN b.tables \ {t} |-> b.tables[s]],
              indexes |-> { ix \in b.indexes : ix[1] # t }]
    BY <1>2 DEF Done
  <2> QED BY <1>2, <2>1 DEF Shaped, Outcome
<1>3. CASE st.do = "add_column"
  <2>1. b2 = [b EXCEPT !.tables[t] =
                [f \in DOMAIN @ \cup st.on |->
                   IF f \in st.on THEN Column(into[<<"field", t, f>>]) ELSE @[f]]]
    BY <1>3 DEF Done
  <2> QED BY <1>3, <2>1 DEF Shaped, Outcome
<1>4. CASE st.do = "create_index"
  <2>1. b2 = [b EXCEPT !.indexes = @ \cup {<<t, st.on>>}]
    BY <1>4 DEF Done
  <2> QED BY <1>4, <2>1 DEF Shaped, Outcome
<1>5. CASE st.do = "drop_index"
  <2>1. b2 = [b EXCEPT !.indexes = @ \ {<<t, st.on>>}]
    BY <1>5 DEF Done
  <2> QED BY <1>5, <2>1 DEF Shaped, Outcome
<1> QED BY <1>1, <1>2, <1>3, <1>4, <1>5 DEF Dos

(* What is left was planned.                                               *)
LEMMA LeftPlanned ==
  ASSUME NEW from, NEW into, NEW destruct \in BOOLEAN, NEW plan,
         Remaining(from, into, destruct, plan), NEW do, NEW t, NEW on, Planned(plan, do, t, on)
  PROVE  Planned(Plan(from, into, destruct), do, t, on)
BY DEF Remaining, Planned

(* A statement that is executed brings the database closer.                *)
LEMMA TablesProceed ==
  ASSUME NEW into, NEW plan, NEW rest, NEW b, NEW b2, NEW st,
         TablesFit(into, plan, b), NamesFit(b, st),
         st.do \in Dos,
         st.do = "create_table" => st.table \in Tables(into) /\ st.on = {},
         st.do = "drop_table" => st.table \notin Tables(into) /\ st.on = {},
         Taken(plan, rest, st),
         Outcome(into, b, st, b2)
  PROVE  TablesFit(into, rest, b2)
<1>1. CASE st.do = "create_table"
  <2>1. DOMAIN b2.tables = DOMAIN b.tables \cup {st.table}
    BY <1>1 DEF Outcome
  <2> QED BY <1>1, <2>1 DEF TablesFit, Taken
<1>2. CASE st.do = "drop_table"
  <2>1. DOMAIN b2.tables = DOMAIN b.tables \ {st.table}
    BY <1>2 DEF Outcome
  <2> QED BY <1>2, <2>1 DEF TablesFit, Taken
<1>3. CASE st.do = "add_column"
  <2>1. DOMAIN b2.tables = DOMAIN b.tables
    BY <1>3 DEF Outcome
  <2> QED BY <1>3, <2>1 DEF TablesFit, Taken
<1>4. CASE st.do \in {"create_index", "drop_index"}
  <2>1. DOMAIN b2.tables = DOMAIN b.tables
    BY <1>4 DEF Outcome
  <2> QED BY <1>4, <2>1 DEF TablesFit, Taken
<1> QED BY <1>1, <1>2, <1>3, <1>4 DEF Dos

(* The columns of the tables after a statement.                            *)
After(into, b, st, b2, s) ==
  /\ st.do = "create_table" /\ s = st.table =>
       b2.tables[s] = [f \in Columns(into, s) |-> Column(into[<<"field", s, f>>])]
  /\ st.do = "add_column" /\ s = st.table =>
       b2.tables[s] = [f \in DOMAIN b.tables[s] \cup st.on |->
                         IF f \in st.on THEN Column(into[<<"field", s, f>>])
                         ELSE b.tables[s][f]]
  /\ ~(st.do \in {"create_table", "add_column"} /\ s = st.table) =>
       s \in DOMAIN b.tables /\ b2.tables[s] = b.tables[s]

(* What executing a statement does to the columns of a table.              *)
LEMMA DoneColumns ==
  ASSUME NEW into, NEW b, NEW b2, NEW st, Outcome(into, b, st, b2),
         st.do \in Dos,
         st.do = "create_table" => st.table \in Tables(into),
         NamesFit(b, st), NEW s \in DOMAIN b2.tables
  PROVE  After(into, b, st, b2, s)
<1>1. CASE st.do = "create_table"
  <2>1. b2.tables = [r \in DOMAIN b.tables \cup {st.table} |->
                       IF r = st.table THEN Schema(into).tables[st.table] ELSE b.tables[r]]
    BY <1>1 DEF Outcome
  <2>2. Schema(into).tables[st.table] =
          [f \in Columns(into, st.table) |-> Column(into[<<"field", st.table, f>>])]
    BY <1>1 DEF Schema
  <2> QED BY <1>1, <2>1, <2>2 DEF After
<1>2. CASE st.do = "add_column"
  <2>1. b2.tables = [b.tables EXCEPT ![st.table] =
                       [f \in DOMAIN @ \cup st.on |->
                          IF f \in st.on THEN Column(into[<<"field", st.table, f>>]) ELSE @[f]]]
    BY <1>2 DEF Outcome
  <2> QED BY <1>2, <2>1 DEF After
<1>3. CASE st.do = "drop_table"
  <2>1. b2.tables = [r \in DOMAIN b.tables \ {st.table} |-> b.tables[r]]
    BY <1>3 DEF Outcome
  <2> QED BY <1>3, <2>1 DEF After
<1>4. CASE st.do \in {"create_index", "drop_index"}
  <2>1. b2.tables = b.tables
    BY <1>4 DEF Outcome
  <2> QED BY <1>4, <2>1 DEF After
<1> QED BY <1>1, <1>2, <1>3, <1>4 DEF Dos

(* So for columns: those made are as the configuration wants them, and     *)
(* none is made that was there.                                            *)
LEMMA ColumnsProceed ==
  ASSUME NEW into, NEW plan, NEW rest, NEW b, NEW b2, NEW st, NEW lossy \in BOOLEAN,
         ColumnsFit(into, plan, b), ~lossy => NoneLeft(into, plan, b), NamesFit(b, st),
         st.do \in Dos,
         st.do = "create_table" =>
           st.table \in Tables(into) /\ \A f : ~Planned(plan, "add_column", st.table, {f}),
         st.do = "add_column" => \E f \in Columns(into, st.table) : st.on = {f},
         Taken(plan, rest, st),
         Outcome(into, b, st, b2)
  PROVE  ColumnsFit(into, rest, b2) /\ (~lossy => NoneLeft(into, rest, b2))
<1>1. \A f, g : {f} = {g} <=> f = g
  OBVIOUS
<1>2. \A s \in DOMAIN b2.tables : After(into, b, st, b2, s)
  BY DoneColumns
<1>3. ASSUME NEW s \in DOMAIN b2.tables \cap Tables(into), NEW f \in Columns(into, s)
      PROVE  \/ Planned(rest, "add_column", s, {f})
             \/ f \in DOMAIN b2.tables[s] /\ b2.tables[s][f] = Column(into[<<"field", s, f>>])
  <2>1. CASE st.do = "create_table" /\ s = st.table
    <3>1. b2.tables[s] = [g \in Columns(into, s) |-> Column(into[<<"field", s, g>>])]
      BY <2>1, <1>2 DEF After
    <3> QED BY <3>1
  <2>2. CASE st.do = "add_column" /\ s = st.table
    <3>1. b2.tables[s] = [g \in DOMAIN b.tables[s] \cup st.on |->
                            IF g \in st.on THEN Column(into[<<"field", s, g>>])
                            ELSE b.tables[s][g]]
      BY <2>2, <1>2 DEF After
    <3>2. s \in DOMAIN b.tables
      BY <2>2 DEF NamesFit, HasTable
    <3>3. CASE f \in st.on
      BY <3>1, <3>3
    <3>4. CASE f \notin st.on
      <4>1. {f} # st.on
        BY <3>4
      <4>2. \/ Planned(plan, "add_column", s, {f})
            \/ f \in DOMAIN b.tables[s] /\ b.tables[s][f] = Column(into[<<"field", s, f>>])
        BY <1>3, <3>2 DEF ColumnsFit
      <4> QED BY <3>1, <3>4, <4>1, <4>2 DEF Taken
    <3> QED BY <3>3, <3>4
  <2>3. CASE ~(st.do \in {"create_table", "add_column"} /\ s = st.table)
    <3>1. s \in DOMAIN b.tables /\ b2.tables[s] = b.tables[s]
      BY <2>3, <1>2 DEF After
    <3>2. Planned(plan, "add_column", s, {f}) => Planned(rest, "add_column", s, {f})
      BY <2>3 DEF Taken
    <3> QED BY <1>3, <3>1, <3>2 DEF ColumnsFit
  <2> QED BY <2>1, <2>2, <2>3
<1>4. ASSUME ~lossy, NEW s \in DOMAIN b2.tables \cap Tables(into), NEW f \in DOMAIN b2.tables[s]
      PROVE  f \in Columns(into, s) /\ ~Planned(rest, "add_column", s, {f})
  <2>1. CASE st.do = "create_table" /\ s = st.table
    <3>1. b2.tables[s] = [g \in Columns(into, s) |-> Column(into[<<"field", s, g>>])]
      BY <2>1, <1>2 DEF After
    <3> QED BY <1>4, <2>1, <3>1 DEF Taken
  <2>2. CASE st.do = "add_column" /\ s = st.table
    <3>1. b2.tables[s] = [g \in DOMAIN b.tables[s] \cup st.on |->
                            IF g \in st.on THEN Column(into[<<"field", s, g>>])
                            ELSE b.tables[s][g]]
      BY <2>2, <1>2 DEF After
    <3>2. s \in DOMAIN b.tables
      BY <2>2 DEF NamesFit, HasTable
    <3>3. PICK g \in Columns(into, s) : st.on = {g}
      BY <2>2
    <3>4. f = g \/ f \in DOMAIN b.tables[s]
      BY <1>4, <3>1, <3>3
    <3>5. CASE f = g
      BY <2>2, <3>3, <3>5 DEF Taken
    <3>6. CASE f \in DOMAIN b.tables[s]
      BY <1>4, <3>2, <3>6 DEF NoneLeft, Taken
    <3> QED BY <3>4, <3>5, <3>6
  <2>3. CASE ~(st.do \in {"create_table", "add_column"} /\ s = st.table)
    <3>1. s \in DOMAIN b.tables /\ b2.tables[s] = b.tables[s]
      BY <2>3, <1>2 DEF After
    <3> QED BY <1>4, <3>1 DEF NoneLeft, Taken
  <2> QED BY <2>1, <2>2, <2>3
<1> QED BY <1>3, <1>4 DEF ColumnsFit, NoneLeft

(* So for indexes.                                                         *)
LEMMA IndexesProceed ==
  ASSUME NEW into, NEW plan, NEW rest, NEW b, NEW b2, NEW st,
         IndexesFit(into, plan, b), NamesFit(b, st),
         st.do \in Dos,
         st.do = "drop_table" => st.table \notin Tables(into),
         st.do = "create_index" => <<st.table, st.on>> \in Indexes(into, st.table),
         st.do = "drop_index" => <<st.table, st.on>> \notin Indexes(into, st.table),
         Taken(plan, rest, st),
         Outcome(into, b, st, b2)
  PROVE  IndexesFit(into, rest, b2)
<1> DEFINE Right(plan2, b3) ==
             \A t \in Tables(into) : \A on :
               <<t, on>> \in b3.indexes <=>
                 IF <<t, on>> \in Indexes(into, t) THEN ~Planned(plan2, "create_index", t, on)
                 ELSE Planned(plan2, "drop_index", t, on)
           Whole2(b3) == \A ix \in b3.indexes : ix = <<ix[1], ix[2]>> /\ ix[1] \in DOMAIN b3.tables
<1>0. Right(plan, b) /\ Whole2(b)
  BY DEF IndexesFit
<1>1. CASE st.do \in {"create_table", "add_column"}
  <2>1. b2.indexes = b.indexes
    BY <1>1 DEF Outcome
  <2>2. DOMAIN b.tables \subseteq DOMAIN b2.tables
    <3>1. CASE st.do = "create_table"
      <4>1. b2.tables = [s \in DOMAIN b.tables \cup {st.table} |->
                           IF s = st.table THEN Schema(into).tables[st.table] ELSE b.tables[s]]
        BY <3>1 DEF Outcome
      <4> QED BY <4>1
    <3>2. CASE st.do = "add_column"
      <4>1. DOMAIN b2.tables = DOMAIN b.tables
        BY <3>2 DEF Outcome
      <4> QED BY <4>1
    <3> QED BY <1>1, <3>1, <3>2
  <2>3. Right(rest, b2) /\ Whole2(b2)
    BY <1>0, <1>1, <2>1, <2>2 DEF Taken
  <2> QED BY <2>3 DEF IndexesFit
<1>2. CASE st.do = "drop_table"
  <2>1. /\ b2.indexes = { ix \in b.indexes : ix[1] # st.table }
        /\ DOMAIN b2.tables = DOMAIN b.tables \ {st.table}
    BY <1>2 DEF Outcome
  <2>2. \A t, on : <<t, on>>[1] = t
    OBVIOUS
  <2>3. Right(rest, b2)
    BY <1>0, <1>2, <2>1, <2>2 DEF Taken
  <2>4. Whole2(b2)
    BY <1>0, <2>1
  <2> QED BY <2>3, <2>4 DEF IndexesFit
<1>3. CASE st.do = "create_index"
  <2>1. b2.indexes = b.indexes \cup {<<st.table, st.on>>} /\ b2.tables = b.tables
    BY <1>3 DEF Outcome
  <2>2. st.table \in DOMAIN b.tables
    BY <1>3 DEF NamesFit, HasTable
  <2>3. \A t, on : <<t, on>> = <<st.table, st.on>> <=> t = st.table /\ on = st.on
    OBVIOUS
  <2>4. Right(rest, b2)
    BY <1>0, <1>3, <2>1, <2>3 DEF Taken
  <2>5. Whole2(b2)
    BY <1>0, <2>1, <2>2
  <2> QED BY <2>4, <2>5 DEF IndexesFit
<1>4. CASE st.do = "drop_index"
  <2>1. b2.indexes = b.indexes \ {<<st.table, st.on>>} /\ b2.tables = b.tables
    BY <1>4 DEF Outcome
  <2>2. \A t, on : <<t, on>> = <<st.table, st.on>> <=> t = st.table /\ on = st.on
    OBVIOUS
  <2>3. Right(rest, b2)
    BY <1>0, <1>4, <2>1, <2>2 DEF Taken
  <2>4. Whole2(b2)
    BY <1>0, <2>1
  <2> QED BY <2>3, <2>4 DEF IndexesFit
<1> QED BY <1>1, <1>2, <1>3, <1>4 DEF Dos

(* Together: a statement that can be executed leaves the database on its   *)
(* way, with one statement less to go.                                     *)
LEMMA Proceeds ==
  ASSUME NEW from, NEW into, Accepted(from), Accepted(into), NEW destruct \in BOOLEAN,
         NEW b, NEW lossy \in BOOLEAN, NEW plan,
         Halfway(from, into, destruct, plan, b, lossy),
         NEW k \in DOMAIN plan, NEW st \in plan[k],
         \A j \in 1..(k - 1) : plan[j] = {}, NamesFit(b, st)
  PROVE  Halfway(from, into, destruct, Rest(plan, k, st), Done(b, into, st), lossy)
<1> DEFINE t == st.table
           rest == Rest(plan, k, st)
           b2 == Done(b, into, st)
<1>0. /\ Remaining(from, into, destruct, plan)
      /\ Shaped(b)
      /\ TablesFit(into, plan, b) /\ ColumnsFit(into, plan, b)
      /\ ~lossy => NoneLeft(into, plan, b)
      /\ IndexesFit(into, plan, b)
  BY DEF Halfway
<1>1. k \in 1..8 /\ WrittenAt(from, into, destruct, k, st.do, t, st.on)
  BY <1>0, Left
<1>2. Remaining(from, into, destruct, rest) /\ Taken(plan, rest, st)
  BY <1>0, Executed
<1>3. st.do \in Dos
  BY <1>1 DEF WrittenAt, Dos
<1>4. /\ st.do = "create_table" => t \in Tables(into) \ Tables(from) /\ st.on = {}
      /\ st.do = "drop_table" => t \notin Tables(into) /\ st.on = {}
  BY <1>1 DEF WrittenAt
<1>5. st.do = "add_column" => \E f \in Columns(into, t) : st.on = {f}
  BY <1>1 DEF WrittenAt
<1>6. /\ st.do = "create_index" => <<t, st.on>> \in Indexes(into, t)
      /\ st.do = "drop_index" => <<t, st.on>> \notin Indexes(into, t)
  BY <1>1 DEF WrittenAt
<1>7. ASSUME st.do = "create_table", NEW f
      PROVE  ~Planned(plan, "add_column", t, {f})
  <2>1. Planned(plan, "add_column", t, {f}) => Planned(Plan(from, into, destruct), "add_column", t, {f})
    BY <1>0, LeftPlanned
  <2> QED BY <1>4, <1>7, <2>1, PlannedColumns
<1>11. Shaped(b2) /\ Outcome(into, b, st, b2)
  BY <1>0, <1>3, DoneIs
<1> HIDE DEF rest, b2
<1>8. TablesFit(into, rest, b2)
  BY <1>0, <1>2, <1>3, <1>4, <1>11, TablesProceed
<1>9. ColumnsFit(into, rest, b2) /\ (~lossy => NoneLeft(into, rest, b2))
  BY <1>0, <1>2, <1>3, <1>4, <1>5, <1>7, <1>11, ColumnsProceed
<1>10. IndexesFit(into, rest, b2)
  BY <1>0, <1>2, <1>3, <1>4, <1>6, <1>11, IndexesProceed
<1> QED BY <1>2, <1>8, <1>9, <1>10, <1>11 DEF Halfway, rest, b2

(***************************************************************************)
(* The invariant.  Of an upgrade that failed nothing is said but why: it   *)
(* is where the database stays.                                            *)
(***************************************************************************)
Quiet ==
  verdict # "script" => Settled(deployed, db, destroyed) /\ failed = NoStatement

Underway ==
  verdict = "script" /\ failed = NoStatement =>
    Halfway(deployed, edited, asked, script, db, destroyed)

Granted ==
  verdict = "script" =>
    /\ asked => destroyed
    /\ ~Refused(Differences(deployed, edited), deployed, edited, asked)

IInv ==
  /\ Accepted(deployed) /\ Accepted(edited)
  /\ asked \in BOOLEAN /\ destroyed \in BOOLEAN
  /\ verdict \in {"none", "script", "refused"}
  /\ rows \subseteq DOMAIN db.tables
  /\ Quiet /\ Underway /\ Granted /\ NamesExist

(* The schema made for a configuration is what it is to be.                *)
LEMMA SchemaSettled ==
  ASSUME NEW cfg, NEW lossy
  PROVE  Settled(cfg, Schema(cfg), lossy)
<1>1. /\ Shaped(Schema(cfg)) /\ DOMAIN Schema(cfg).tables = Tables(cfg)
      /\ \A t \in Tables(cfg) :
           Schema(cfg).tables[t] = [f \in Columns(cfg, t) |-> Column(cfg[<<"field", t, f>>])]
      /\ Schema(cfg).indexes = UNION { Indexes(cfg, s) : s \in Tables(cfg) }
  BY DEF Shaped, Schema
<1>2. \A ix : ix \in Schema(cfg).indexes <=> \E t \in Tables(cfg) : ix \in Indexes(cfg, t)
  BY <1>1
<1> QED BY <1>1, <1>2 DEF Settled

(* Edits leave a configuration one that can be parsed.                     *)
LEMMA Edited ==
  ASSUME NEW cfg, Configuration(cfg)
  PROVE  /\ \A new \in Options : Configuration(With(cfg, new))
         /\ \A p \in DOMAIN cfg : Configuration(Without(cfg, p))
<1>1. ASSUME NEW new \in Options
      PROVE  Configuration(With(cfg, new))
  <2>1. Configuration(new)
    BY OptionsAssumption
  <2>2. /\ DOMAIN With(cfg, new) = DOMAIN cfg \cup DOMAIN new
        /\ \A p \in DOMAIN cfg \cup DOMAIN new :
             With(cfg, new)[p] = IF p \in DOMAIN new THEN new[p] ELSE cfg[p]
    BY DEF With
  <2>3. IsFiniteSet(DOMAIN cfg \cup DOMAIN new)
    BY <2>1, FS_Union DEF Configuration
  <2>4. ASSUME NEW p \in DOMAIN cfg \cup DOMAIN new
        PROVE  /\ IsPart(p) /\ With(cfg, new)[p] \in Attributes(p[1])
               /\ p[1] = "field" => FieldParsed(With(cfg, new)[p])
               /\ p[1] = "unique" => Cardinality(p[3]) >= 2
    <3>1. CASE p \in DOMAIN new
      BY <2>1, <2>2, <3>1 DEF Configuration
    <3>2. CASE p \notin DOMAIN new
      BY <2>2, <3>2 DEF Configuration
    <3> QED BY <3>1, <3>2
  <2> QED BY <2>2, <2>3, <2>4 DEF Configuration
<1>2. ASSUME NEW p \in DOMAIN cfg
      PROVE  Configuration(Without(cfg, p))
  <2>1. /\ DOMAIN Without(cfg, p) \subseteq DOMAIN cfg
        /\ \A q \in DOMAIN Without(cfg, p) : Without(cfg, p)[q] = cfg[q]
    BY DEF Without
  <2>2. IsFiniteSet(DOMAIN Without(cfg, p))
    BY <2>1, FS_Subset DEF Configuration
  <2> QED BY <2>1, <2>2 DEF Configuration
<1> QED BY <1>1, <1>2

(* At first, the database is as the program was made for.                  *)
LEMMA InitInv == Init => IInv
<1> SUFFICES ASSUME Init PROVE IInv
  OBVIOUS
<1>1. Accepted(deployed) /\ Accepted(edited)
  BY BasesAssumption DEF Init, Accepted
<1>2. Quiet
  BY SchemaSettled DEF Quiet, Init
<1>3. Underway /\ Granted
  BY DEF Underway, Granted, Init
<1>4. failed.why # "names"
  BY DEF Init, NoStatement
<1>5. rows \subseteq DOMAIN db.tables
  BY DEF Init
<1> QED BY <1>1, <1>2, <1>3, <1>4, <1>5 DEF IInv, NamesExist, Init

(* Editing touches nothing but the edited configuration, which parser and  *)
(* linker accept again.                                                    *)
LEMMA EditInv == IInv /\ Edit => IInv'
<1> SUFFICES ASSUME IInv, Edit PROVE IInv'
  OBVIOUS
<1>1. Configuration(edited')
  <2>1. \/ \E new \in Options : edited' = With(edited, new)
        \/ \E p \in DOMAIN edited : edited' = Without(edited, p)
    BY DEF Edit
  <2> QED BY <2>1, Edited DEF IInv, Accepted
<1>2. Accepted(edited') /\ Accepted(deployed')
  BY <1>1 DEF Edit, IInv, Accepted
<1>3. /\ verdict # "script" /\ verdict' = "none" /\ asked' = FALSE
      /\ deployed' = deployed /\ db' = db /\ rows' = rows
      /\ failed' = failed /\ destroyed' = destroyed
  BY DEF Edit
<1>4. (Quiet /\ Underway /\ Granted /\ NamesExist)'
  BY <1>3 DEF IInv, Quiet, Underway, Granted, NamesExist
<1> QED BY <1>2, <1>3, <1>4 DEF IInv

(* A script that is written is one the database is at the beginning of.    *)
LEMMA SqlDiffInv ==
  ASSUME IInv, NEW destruct \in BOOLEAN, SqlDiff(destruct)
  PROVE  IInv'
<1>1. /\ verdict # "script" /\ asked' = destruct
      /\ deployed' = deployed /\ edited' = edited /\ db' = db /\ rows' = rows
      /\ failed' = failed
  BY DEF SqlDiff
<1>2. /\ Settled(deployed, db, destroyed) /\ failed = NoStatement
      /\ Accepted(deployed) /\ Accepted(edited) /\ destroyed \in BOOLEAN
  BY <1>1 DEF IInv, Quiet
<1>3. failed.why # "names"
  BY <1>2 DEF NoStatement
<1>4. CASE Refused(Differences(deployed, edited), deployed, edited, destruct)
  <2>1. verdict' = "refused" /\ destroyed' = destroyed
    BY <1>4 DEF SqlDiff
  <2>2. (Quiet /\ Underway /\ Granted /\ NamesExist)'
    BY <1>1, <1>2, <1>3, <2>1 DEF Quiet, Underway, Granted, NamesExist
  <2> QED BY <1>1, <1>2, <2>1, <2>2 DEF IInv
<1>5. CASE ~Refused(Differences(deployed, edited), deployed, edited, destruct)
  <2>1. /\ verdict' = "script" /\ destroyed' = (destroyed \/ destruct)
        /\ script' = Plan(deployed, edited, destruct)
    BY <1>5 DEF SqlDiff, Plan
  <2>2. Halfway(deployed, edited, destruct, Plan(deployed, edited, destruct), db,
                destroyed \/ destruct)
    BY <1>2, <1>5, Starts
  <2>3. (Quiet /\ Underway)'
    BY <1>1, <1>2, <2>1, <2>2 DEF Quiet, Underway
  <2>4. (Granted /\ NamesExist)'
    BY <1>1, <1>2, <1>3, <1>5, <2>1 DEF Granted, NamesExist
  <2> QED BY <1>1, <1>2, <2>1, <2>3, <2>4 DEF IInv
<1> QED BY <1>4, <1>5

(* What is known when a statement is executed.                             *)
LEMMA Executing ==
  ASSUME IInv, Execute
  PROVE  \E k \in DOMAIN script : \E st \in script[k] :
           /\ \A j \in 1..(k - 1) : script[j] = {}
           /\ script' = Rest(script, k, st)
           /\ WrittenAt(deployed, edited, asked, k, st.do, st.table, st.on)
           /\ k \in 1..8 /\ st = Statement(st.do, st.table, st.on)
           /\ \/ /\ ~NamesFit(db, st)
                 /\ failed' = [st |-> st, why |-> "names"] /\ UNCHANGED <<db, rows>>
              \/ /\ NamesFit(db, st)
                 /\ failed' = [st |-> st, why |-> "data"] /\ UNCHANGED <<db, rows>>
              \/ /\ NamesFit(db, st) /\ db' = Done(db, edited, st)
                 /\ rows' = IF st.do = "drop_table" THEN rows \ {st.table} ELSE rows
                 /\ failed' = failed
<1>1. /\ Accepted(deployed) /\ Accepted(edited) /\ asked \in BOOLEAN
      /\ Remaining(deployed, edited, asked, script)
  BY DEF Execute, IInv, Underway, Halfway
<1>2. PICK k \in DOMAIN script : \E st \in script[k] :
        /\ \A j \in 1..(k - 1) : script[j] = {}
        /\ script' = Rest(script, k, st)
        /\ \/ /\ ~NamesFit(db, st)
              /\ failed' = [st |-> st, why |-> "names"] /\ UNCHANGED <<db, rows>>
           \/ /\ NamesFit(db, st)
              /\ failed' = [st |-> st, why |-> "data"] /\ UNCHANGED <<db, rows>>
           \/ /\ NamesFit(db, st) /\ db' = Done(db, edited, st)
              /\ rows' = IF st.do = "drop_table" THEN rows \ {st.table} ELSE rows
              /\ failed' = failed
  BY DEF Execute, Rest
<1>3. \A st \in script[k] :
        /\ k \in 1..8 /\ st = Statement(st.do, st.table, st.on)
        /\ WrittenAt(deployed, edited, asked, k, st.do, st.table, st.on)
  BY <1>1, Left
<1> QED BY <1>2, <1>3

(* A statement either fails, for a reason the invariant allows, or brings  *)
(* the database closer.                                                    *)
LEMMA ExecuteInv == IInv /\ Execute => IInv'
<1> SUFFICES ASSUME IInv, Execute PROVE IInv'
  OBVIOUS
<1>1. /\ verdict = "script" /\ verdict' = verdict /\ asked' = asked
      /\ deployed' = deployed /\ edited' = edited /\ destroyed' = destroyed
      /\ Accepted(deployed) /\ Accepted(edited) /\ asked \in BOOLEAN /\ destroyed \in BOOLEAN
      /\ failed = NoStatement
      /\ Halfway(deployed, edited, asked, script, db, destroyed)
  BY DEF Execute, IInv, Underway
<1>2. (Quiet /\ Granted)'
  BY <1>1 DEF IInv, Quiet, Granted
<1>3. PICK k \in DOMAIN script : \E st \in script[k] :
        /\ \A j \in 1..(k - 1) : script[j] = {}
        /\ script' = Rest(script, k, st)
        /\ WrittenAt(deployed, edited, asked, k, st.do, st.table, st.on)
        /\ k \in 1..8 /\ st = Statement(st.do, st.table, st.on)
        /\ \/ /\ ~NamesFit(db, st)
              /\ failed' = [st |-> st, why |-> "names"] /\ UNCHANGED <<db, rows>>
           \/ /\ NamesFit(db, st)
              /\ failed' = [st |-> st, why |-> "data"] /\ UNCHANGED <<db, rows>>
           \/ /\ NamesFit(db, st) /\ db' = Done(db, edited, st)
              /\ rows' = IF st.do = "drop_table" THEN rows \ {st.table} ELSE rows
              /\ failed' = failed
  BY Executing
<1>4. PICK st \in script[k] :
        /\ \A j \in 1..(k - 1) : script[j] = {}
        /\ script' = Rest(script, k, st)
        /\ WrittenAt(deployed, edited, asked, k, st.do, st.table, st.on)
        /\ k \in 1..8 /\ st = Statement(st.do, st.table, st.on)
        /\ \/ /\ ~NamesFit(db, st)
              /\ failed' = [st |-> st, why |-> "names"] /\ UNCHANGED <<db, rows>>
           \/ /\ NamesFit(db, st)
              /\ failed' = [st |-> st, why |-> "data"] /\ UNCHANGED <<db, rows>>
           \/ /\ NamesFit(db, st) /\ db' = Done(db, edited, st)
              /\ rows' = IF st.do = "drop_table" THEN rows \ {st.table} ELSE rows
              /\ failed' = failed
  BY <1>3
<1>5. CASE /\ ~NamesFit(db, st)
           /\ failed' = [st |-> st, why |-> "names"] /\ UNCHANGED <<db, rows>>
  <2>1. destroyed /\ st.do = "add_column"
    BY <1>1, <1>4, <1>5, Fits
  <2>2. NamesExist'
    BY <1>1, <1>5, <2>1 DEF NamesExist
  <2>3. Underway'
    <3>1. failed'.why = "names" /\ NoStatement.why = "none"
      BY <1>5 DEF NoStatement
    <3> QED BY <3>1 DEF Underway, NoStatement
  <2> QED BY <1>1, <1>2, <1>5, <2>2, <2>3 DEF IInv
<1>6. CASE /\ NamesFit(db, st)
           /\ failed' = [st |-> st, why |-> "data"] /\ UNCHANGED <<db, rows>>
  <2>1. failed'.why = "data" /\ NoStatement.why = "none"
    BY <1>6 DEF NoStatement
  <2>2. (Underway /\ NamesExist)'
    BY <2>1 DEF Underway, NamesExist, NoStatement
  <2> QED BY <1>1, <1>2, <1>6, <2>2 DEF IInv
<1>7. CASE /\ NamesFit(db, st) /\ db' = Done(db, edited, st)
           /\ rows' = IF st.do = "drop_table" THEN rows \ {st.table} ELSE rows
           /\ failed' = failed
  <2>1. Halfway(deployed, edited, asked, Rest(script, k, st), Done(db, edited, st), destroyed)
    BY <1>1, <1>4, <1>7, Proceeds
  <2>2. Underway'
    BY <1>1, <1>4, <1>7, <2>1 DEF Underway
  <2>3. NamesExist'
    BY <1>1, <1>7 DEF NamesExist, IInv
  <2>4. st.do \in Dos /\ Shaped(db)
    BY <1>1, <1>4 DEF WrittenAt, Dos, Halfway
  <2>5. Outcome(edited, db, st, db')
    BY <1>7, <2>4, DoneIs
  <2>6. rows' \subseteq DOMAIN db'.tables
    <3>1. rows \subseteq DOMAIN db.tables
      BY DEF IInv
    <3>2. CASE st.do = "drop_table"
      BY <1>7, <2>5, <3>1, <3>2 DEF Outcome
    <3>3. CASE st.do # "drop_table"
      <4>1. rows' = rows
        BY <1>7, <3>3
      <4>2. DOMAIN db.tables \subseteq DOMAIN db'.tables
        BY <2>4, <2>5, <3>3 DEF Outcome, Dos
      <4> QED BY <3>1, <4>1, <4>2
    <3> QED BY <3>2, <3>3
  <2> QED BY <1>1, <1>2, <2>2, <2>3, <2>6 DEF IInv
<1> QED BY <1>4, <1>5, <1>6, <1>7

(* When nothing is left to execute, the database has the schema of the     *)
(* configuration that is deployed.                                         *)
LEMMA DeployInv == IInv /\ Deploy => IInv'
<1> SUFFICES ASSUME IInv, Deploy PROVE IInv'
  OBVIOUS
<1>1. /\ verdict = "script" /\ failed = NoStatement /\ verdict' = "none" /\ asked' = FALSE
      /\ deployed' = edited /\ edited' = edited /\ destroyed' = destroyed
      /\ db' = db /\ rows' = rows /\ failed' = failed
      /\ \A k \in DOMAIN script : script[k] = {}
  BY DEF Deploy
<1>2. /\ Accepted(deployed) /\ Accepted(edited) /\ asked \in BOOLEAN /\ destroyed \in BOOLEAN
      /\ Halfway(deployed, edited, asked, script, db, destroyed)
  BY <1>1 DEF IInv, Underway
<1>3. Settled(edited, db, destroyed)
  BY <1>1, <1>2, Ends
<1>4. (Quiet /\ Underway /\ Granted)'
  BY <1>1, <1>3 DEF Quiet, Underway, Granted
<1>5. NamesExist'
  BY <1>1 DEF NamesExist, NoStatement
<1> QED BY <1>1, <1>2, <1>4, <1>5 DEF IInv

(* Rows are only inserted into tables that there are.                      *)
LEMMA FillInv == IInv /\ Fill => IInv'
<1> SUFFICES ASSUME IInv, Fill PROVE IInv'
  OBVIOUS
<1>1. /\ verdict # "script" /\ rows' = Tables(deployed)
      /\ UNCHANGED <<deployed, edited, asked, verdict, script, db, failed, destroyed>>
  BY DEF Fill
<1>2. rows' \subseteq DOMAIN db'.tables
  BY <1>1 DEF IInv, Quiet, Settled
<1>3. (Quiet /\ Underway /\ Granted /\ NamesExist)'
  BY <1>1 DEF IInv, Quiet, Underway, Granted, NamesExist
<1> QED BY <1>1, <1>2, <1>3 DEF IInv

(* The invariant is inductive.                                             *)
LEMMA Inductive == IInv /\ [Next]_vars => IInv'
<1> SUFFICES ASSUME IInv, [Next]_vars PROVE IInv'
  OBVIOUS
<1>1. CASE Edit
  BY <1>1, EditInv
<1>2. ASSUME NEW destruct \in BOOLEAN, SqlDiff(destruct)
      PROVE  IInv'
  BY <1>2, SqlDiffInv
<1>3. CASE Execute
  BY <1>3, ExecuteInv
<1>4. CASE Deploy
  BY <1>4, DeployInv
<1>5. CASE Fill
  BY <1>5, FillInv
<1>6. CASE UNCHANGED vars
  BY <1>6 DEF vars, IInv, Quiet, Underway, Granted, NamesExist
<1> QED BY <1>1, <1>2, <1>3, <1>4, <1>5, <1>6 DEF Next

(* It holds of all configurations, edits and upgrades.                     *)
LEMMA Invariant == Spec => []IInv
<1> QED BY InitInv, Inductive, PTL DEF Spec

(* No statement names what is not there, or makes what is, but for columns *)
(* that were dropped on demand and made anew; however many upgrades,       *)
(* destructive and not, were made before.                                  *)
THEOREM NamesAreThere == Spec => []NamesExist
<1>1. IInv => NamesExist
  BY DEF IInv
<1> QED BY <1>1, Invariant, PTL

(* A statement that is executed takes no table or column away, but a table *)
(* that is dropped.                                                        *)
LEMMA OutcomeStays ==
  ASSUME NEW into, NEW b, NEW st, st.do \in Dos, NEW b2, Outcome(into, b, st, b2),
         NamesFit(b, st)
  PROVE  /\ st.do = "drop_table" => DOMAIN b2.tables = DOMAIN b.tables \ {st.table}
         /\ st.do # "drop_table" => DOMAIN b.tables \subseteq DOMAIN b2.tables
         /\ \A s \in DOMAIN b.tables :
              s \in DOMAIN b2.tables => DOMAIN b.tables[s] \subseteq DOMAIN b2.tables[s]
<1>1. CASE st.do = "create_table"
  <2>1. st.table \notin DOMAIN b.tables
    BY <1>1 DEF NamesFit, HasTable
  <2> QED BY <1>1, <2>1 DEF Outcome
<1>2. CASE st.do = "drop_table"
  BY <1>2 DEF Outcome
<1>3. CASE st.do = "add_column"
  BY <1>3 DEF Outcome
<1>4. CASE st.do \in {"create_index", "drop_index"}
  BY <1>4 DEF Outcome
<1> QED BY <1>1, <1>2, <1>3, <1>4 DEF Dos

(* While anything but a table to drop is left, no table has been dropped.  *)
LEMMA TablesThere ==
  ASSUME NEW from, NEW into, Accepted(from), Accepted(into), NEW destruct \in BOOLEAN,
         ~Refused(Differences(from, into), from, into, destruct),
         NEW b, NEW lossy, NEW plan, Halfway(from, into, destruct, plan, b, lossy),
         NEW k \in 1..7, plan[k] # {}
  PROVE  Tables(from) \subseteq DOMAIN b.tables
<1>1. /\ Remaining(from, into, destruct, plan) /\ TablesFit(into, plan, b)
      /\ plan[8] = Plan(from, into, destruct)[8]
  BY DEF Halfway, Remaining
<1>2. ASSUME NEW t \in Tables(from)
      PROVE  t \in DOMAIN b.tables
  <2>1. CASE t \in Tables(into)
    <3>1. ~Planned(Plan(from, into, destruct), "create_table", t, {})
      BY <2>1, PlannedTables
    <3>2. ~Planned(plan, "create_table", t, {})
      BY <1>1, <3>1, LeftPlanned
    <3> QED BY <1>1, <2>1, <3>2 DEF TablesFit
  <2>2. CASE t \notin Tables(into)
    <3>1. destruct
      BY <2>2, ColumnsStay
    <3>2. Planned(Plan(from, into, destruct), "drop_table", t, {})
      BY <2>2, <3>1, PlannedTables
    <3>3. PICK j \in 1..8 : Statement("drop_table", t, {}) \in Plan(from, into, destruct)[j]
      BY <3>2 DEF Planned
    <3>4. WrittenAt(from, into, destruct, j, "drop_table", t, {})
      BY <3>3, WrittenIs
    <3>5. j = 8
      BY <3>4 DEF WrittenAt
    <3>6. Planned(plan, "drop_table", t, {})
      BY <1>1, <3>3, <3>5 DEF Planned
    <3> QED BY <1>1, <2>2, <3>6 DEF TablesFit
  <2> QED BY <2>1, <2>2
<1> QED BY <1>2

(* What NothingLost says of a step.                                        *)
Preserved ==
  /\ ~destroyed => /\ DOMAIN db.tables \subseteq DOMAIN db'.tables
                   /\ rows \subseteq rows'
  /\ \A s \in DOMAIN db.tables :
       s \in DOMAIN db'.tables => DOMAIN db.tables[s] \subseteq DOMAIN db'.tables[s]
  /\ \A s \in DOMAIN db.tables \ DOMAIN db'.tables : s \notin Tables(edited)
  /\ failed' # failed /\ failed'.st.do # "drop_table" =>
       DOMAIN Schema(deployed).tables \subseteq DOMAIN db.tables

(* Executing a statement loses nothing that was not asked to go.           *)
LEMMA ExecutePreserves == IInv /\ Execute => Preserved
<1> SUFFICES ASSUME IInv, Execute PROVE Preserved
  OBVIOUS
<1>1. /\ Accepted(deployed) /\ Accepted(edited) /\ asked \in BOOLEAN /\ destroyed \in BOOLEAN
      /\ asked => destroyed
      /\ ~Refused(Differences(deployed, edited), deployed, edited, asked)
      /\ Halfway(deployed, edited, asked, script, db, destroyed)
  BY DEF Execute, IInv, Underway, Granted
<1>2. PICK k \in DOMAIN script : \E st \in script[k] :
        /\ WrittenAt(deployed, edited, asked, k, st.do, st.table, st.on)
        /\ k \in 1..8
        /\ \/ /\ failed'.st = st /\ UNCHANGED <<db, rows>>
           \/ /\ NamesFit(db, st) /\ db' = Done(db, edited, st)
              /\ rows' = IF st.do = "drop_table" THEN rows \ {st.table} ELSE rows
              /\ failed' = failed
  BY Executing
<1>3. PICK st \in script[k] :
        /\ WrittenAt(deployed, edited, asked, k, st.do, st.table, st.on)
        /\ k \in 1..8
        /\ \/ /\ failed'.st = st /\ UNCHANGED <<db, rows>>
           \/ /\ NamesFit(db, st) /\ db' = Done(db, edited, st)
              /\ rows' = IF st.do = "drop_table" THEN rows \ {st.table} ELSE rows
              /\ failed' = failed
  BY <1>2
<1>4. CASE failed'.st = st /\ UNCHANGED <<db, rows>>
  <2>1. ASSUME st.do # "drop_table"
        PROVE  DOMAIN Schema(deployed).tables \subseteq DOMAIN db.tables
    <3>1. k \in 1..7
      BY <1>3, <2>1 DEF WrittenAt
    <3>2. Tables(deployed) \subseteq DOMAIN db.tables
      BY <1>1, <3>1, TablesThere
    <3> QED BY <3>2 DEF Schema
  <2> QED BY <1>4, <2>1 DEF Preserved
<1>5. CASE /\ NamesFit(db, st) /\ db' = Done(db, edited, st)
           /\ rows' = IF st.do = "drop_table" THEN rows \ {st.table} ELSE rows
           /\ failed' = failed
  <2>1. st.do \in Dos /\ Shaped(db)
    BY <1>1, <1>3 DEF WrittenAt, Dos, Halfway
  <2>2. Outcome(edited, db, st, db')
    BY <1>5, <2>1, DoneIs
  <2>3. st.do = "drop_table" => asked /\ st.table \notin Tables(edited)
    BY <1>3 DEF WrittenAt
  <2>4. /\ st.do = "drop_table" => DOMAIN db'.tables = DOMAIN db.tables \ {st.table}
        /\ st.do # "drop_table" => DOMAIN db.tables \subseteq DOMAIN db'.tables
        /\ \A s \in DOMAIN db.tables :
             s \in DOMAIN db'.tables => DOMAIN db.tables[s] \subseteq DOMAIN db'.tables[s]
    BY <1>5, <2>1, <2>2, OutcomeStays
  <2> QED BY <1>1, <1>5, <2>3, <2>4 DEF Preserved
<1> QED BY <1>3, <1>4, <1>5

(* No other step loses anything.                                           *)
LEMMA StepPreserves == IInv /\ [Next]_vars => Preserved \/ UNCHANGED vars
<1> SUFFICES ASSUME IInv, Next PROVE Preserved
  BY DEF vars
<1>1. CASE UNCHANGED <<db, failed>> /\ rows \subseteq rows'
  BY <1>1 DEF Preserved
<1>2. CASE Edit
  BY <1>1, <1>2 DEF Edit
<1>3. ASSUME NEW destruct \in BOOLEAN, SqlDiff(destruct)
      PROVE  Preserved
  BY <1>1, <1>3 DEF SqlDiff
<1>4. CASE Execute
  BY <1>4, ExecutePreserves
<1>5. CASE Deploy
  BY <1>1, <1>5 DEF Deploy
<1>6. CASE Fill
  <2>1. rows \subseteq rows'
    BY <1>6 DEF Fill, IInv, Quiet, Settled
  <2> QED BY <1>1, <1>6, <2>1 DEF Fill
<1> QED BY <1>2, <1>3, <1>4, <1>5, <1>6 DEF Next

(* Nothing is lost that was not asked to go, no column ever, and nothing   *)
(* before the statements that may fail of themselves.                      *)
THEOREM LossIsAsked == Spec => NothingLost
<1>1. IInv /\ [Next]_vars => [Preserved]_vars
  BY StepPreserves DEF vars
<1> QED BY <1>1, Invariant, PTL DEF Spec, NothingLost, Preserved

(* The schema as the abstract specification computes it.                   *)
LEMMA SchemaIs ==
  ASSUME NEW cfg
  PROVE  Promise!Schema(cfg) = Schema(cfg)
<1>1. Promise!Tables(cfg) = Tables(cfg)
  BY DEF Promise!Tables, Tables
<1>2. ASSUME NEW s
      PROVE  /\ Promise!Columns(cfg, s) = Columns(cfg, s)
             /\ Promise!Indexes(cfg, s) = Indexes(cfg, s)
  BY DEF Promise!Columns, Columns, Promise!Fields, Fields, Promise!Indexes, Indexes
<1>3. ASSUME NEW a
      PROVE  Promise!Column(a) = Column(a)
  BY DEF Promise!Column, Column, Promise!SqlType, SqlType
<1>4. \A s : [f \in Promise!Columns(cfg, s) |-> Promise!Column(cfg[<<"field", s, f>>])]
              = [f \in Columns(cfg, s) |-> Column(cfg[<<"field", s, f>>])]
  BY <1>2, <1>3
<1>5. Promise!Schema(cfg).tables = Schema(cfg).tables
  BY <1>1, <1>4 DEF Promise!Schema, Schema
<1>6. Promise!Schema(cfg).indexes = Schema(cfg).indexes
  BY <1>1, <1>2 DEF Promise!Schema, Schema
<1> QED BY <1>5, <1>6 DEF Promise!Schema, Schema

(* A database as it is compared with the schema of a configuration.        *)
Seen(b, cfg) ==
  [b EXCEPT !.tables =
     [s \in DOMAIN @ |->
        [f \in DOMAIN @[s] \cap (IF s \in Tables(cfg) THEN Columns(cfg, s) ELSE DOMAIN @[s])
           |-> @[s][f]]]]

(* The database of a deployed configuration has its schema, but for        *)
(* columns that were dropped.                                              *)
LEMMA SettledSeen ==
  ASSUME NEW cfg, NEW b, NEW lossy, Settled(cfg, b, lossy)
  PROVE  Seen(b, cfg) = Schema(cfg)
<1>1. /\ Shaped(b) /\ DOMAIN b.tables = Tables(cfg)
      /\ \A t \in Tables(cfg) : \A f \in Columns(cfg, t) :
           f \in DOMAIN b.tables[t] /\ b.tables[t][f] = Column(cfg[<<"field", t, f>>])
  BY DEF Settled
<1>2. \A ix : ix \in b.indexes <=> \E t \in Tables(cfg) : ix \in Indexes(cfg, t)
  BY DEF Settled
<1>3. b.indexes = UNION { Indexes(cfg, s) : s \in Tables(cfg) }
  BY <1>2
<1> DEFINE kept(s) == [f \in DOMAIN b.tables[s] \cap Columns(cfg, s) |-> b.tables[s][f]]
           made(s) == [f \in Columns(cfg, s) |-> Column(cfg[<<"field", s, f>>])]
           seen == [s \in DOMAIN b.tables |->
                      [f \in DOMAIN b.tables[s] \cap
                               (IF s \in Tables(cfg) THEN Columns(cfg, s)
                                ELSE DOMAIN b.tables[s]) |-> b.tables[s][f]]]
<1>4. Seen(b, cfg) = [tables |-> seen, indexes |-> b.indexes]
  <2>1. \A x : [b EXCEPT !.tables = x] = [tables |-> x, indexes |-> b.indexes]
    BY <1>1 DEF Shaped
  <2> HIDE DEF seen
  <2>2. Seen(b, cfg) = [b EXCEPT !.tables = seen]
    BY DEF Seen, seen
  <2> QED BY <2>1, <2>2
<1>5. \A s \in Tables(cfg) : kept(s) = made(s)
  BY <1>1
<1>6. seen = [s \in Tables(cfg) |-> made(s)]
  BY <1>1, <1>5
<1> QED BY <1>3, <1>4, <1>6 DEF Schema

(* The first database is what the specification starts with.               *)
LEMMA PromiseInit == Init => Promise!Init
<1> SUFFICES ASSUME Init PROVE Promise!Init
  OBVIOUS
<1>1. db = Schema(deployed) /\ Settled(deployed, db, FALSE)
  BY SchemaSettled DEF Init
<1>2. Observed = Seen(db, deployed)
  BY DEF Observed, Seen
<1>3. Seen(db, deployed) = Schema(deployed)
  BY <1>1, SettledSeen
<1> QED BY <1>2, <1>3, SchemaIs DEF Init, Promise!Init

(* Every step is one of the specification or changes nothing that it sees: *)
(* executing statements and inserting rows is not seen until the new       *)
(* program is deployed.                                                    *)
LEMMA PromiseStep == IInv /\ IInv' /\ [Next]_vars => [Promise!Next]_Promise!vars
<1> DEFINE schema == IF verdict = "script" THEN Schema(deployed) ELSE Observed
<1> SUFFICES ASSUME IInv, IInv', [Next]_vars PROVE Promise!Next \/ UNCHANGED Promise!vars
  OBVIOUS
<1>1. schema = Schema(deployed)
  BY SettledSeen DEF IInv, Quiet, Observed, Seen
<1>2. schema' = Schema(deployed')
  <2>1. ASSUME verdict' # "script"
        PROVE  Observed' = Schema(deployed')
    <3>1. Settled(deployed', db', destroyed')
      BY <2>1 DEF IInv, Quiet
    <3> QED BY <3>1, SettledSeen DEF Observed, Seen
  <2>2. Schema(deployed)' = Schema(deployed')
    BY DEF Schema, Tables, Columns, Fields, Column, Indexes
  <2> QED BY <2>1, <2>2
<1> HIDE DEF schema
<1>3. CASE Edit
  <2>1. schema' = schema
    BY <1>1, <1>2, <1>3 DEF Edit
  <2> QED BY <1>3, <2>1 DEF Edit, Promise!Next, Promise!Write, schema
<1>4. ASSUME NEW destruct \in BOOLEAN, SqlDiff(destruct)
      PROVE  Promise!Next
  <2>1. schema' = schema
    BY <1>1, <1>2, <1>4 DEF SqlDiff
  <2>2. Refused(Differences(deployed, edited), deployed, edited, destruct)
          <=> ~Promise!Compatible(deployed, edited, destruct)
    BY RefusedIs DEF IInv
  <2>3. verdict' = IF Promise!Compatible(deployed, edited, destruct) THEN "script" ELSE "refused"
    BY <1>4, <2>2 DEF SqlDiff
  <2> QED BY <1>4, <2>1, <2>3 DEF SqlDiff, Promise!Next, Promise!Ask, schema
<1>5. CASE Execute
  <2>1. schema' = schema
    BY <1>1, <1>2, <1>5 DEF Execute
  <2> QED BY <1>5, <2>1 DEF Execute, Promise!vars, schema
<1>6. CASE Deploy
  <2>1. schema' = Promise!Schema(edited)
    BY <1>2, <1>6, SchemaIs DEF Deploy
  <2> QED BY <1>6, <2>1 DEF Deploy, Promise!Next, Promise!Upgrade, schema
<1>7. CASE Fill
  <2>1. schema' = schema
    BY <1>1, <1>2, <1>7 DEF Fill
  <2> QED BY <1>7, <2>1 DEF Fill, Promise!vars, schema
<1>8. CASE UNCHANGED vars
  <2>1. schema' = schema
    BY <1>1, <1>2, <1>8 DEF vars
  <2> QED BY <1>8, <2>1 DEF vars, Promise!vars, schema
<1> QED BY <1>3, <1>4, <1>5, <1>6, <1>7, <1>8 DEF Next

(* ort-sqldiff refuses exactly the incompatible changes, and a script that *)
(* runs to its end leaves the schema that ort-sql writes for the new       *)
(* configuration.                                                          *)
THEOREM ScriptsAreRight == Spec => ImplementsSchemas
<1> QED BY PromiseInit, PromiseStep, Inductive, InitInv, PTL DEF Spec, ImplementsSchemas, Promise!Spec

(***************************************************************************)
(* What ort-diff writes.                                                   *)
(***************************************************************************)
(* The part that an entry is about, and the one around it.                 *)
LEMMA EntryParts ==
  ASSUME NEW from, NEW into, Accepted(from), Accepted(into),
         NEW d \in Differences(from, into)
  PROVE  /\ IsPart(d.part)
         /\ d.how # "same" /\ ~IsTop(d.part) =>
              Has(Differences(from, into), "mod", Parent(d.part), "part")
<1> DEFINE D == Differences(from, into)
           p == d.part
           own == { q \in DOMAIN from \cap DOMAIN into : Mods(from, into, q) # {} }
           inner == { q \in own \cup OnlyIn(from, into) \cup OnlyIn(into, from) : ~IsTop(q) }
<1>1. (\A q \in DOMAIN from : IsPart(q)) /\ (\A q \in DOMAIN into : IsPart(q))
  BY DEF Accepted, Configuration
<1>2. Modified(from, into) = own \cup { Parent(q) : q \in inner }
  BY DEF Modified
<1>3. \A q \in inner : IsTop(Parent(q)) /\ IsPart(q)
  <2>1. \A q \in inner : IsPart(q) /\ ~IsTop(q)
    BY <1>1 DEF OnlyIn
  <2> QED BY <2>1, PartParents
<1>4. \A q \in inner : Entry("mod", Parent(q), "part") \in D
  BY <1>2, Entries
<1>5. d.how # "same" => p \in own \cup OnlyIn(from, into) \cup OnlyIn(into, from)
                          \/ (p \in Modified(from, into) /\ p \notin own)
  BY EntryKinds
<1>6. p \in Modified(from, into) /\ p \notin own => IsTop(p)
  BY <1>2, <1>3
<1>7. d.how # "same" /\ ~IsTop(p) => p \in inner
  BY <1>5, <1>6
<1>8. IsPart(p)
  <2>1. \A q \in inner : Parent(q) \in DOMAIN from \cup DOMAIN into
    BY <1>1 DEF Accepted, Legal, OnlyIn
  <2>2. p \in DOMAIN from \cup DOMAIN into
    <3>1. p \in Modified(from, into) => p \in DOMAIN from \cup DOMAIN into
      BY <1>2, <2>1
    <3>2. /\ p \in OnlyIn(from, into) \cup OnlyIn(into, from) => p \in DOMAIN from \cup DOMAIN into
          /\ p \in Same(from, into) => p \in DOMAIN from
      BY DEF OnlyIn, Same
    <3> QED BY <3>1, <3>2, EntryKinds
  <2> QED BY <1>1, <2>2
<1> QED BY <1>4, <1>7, <1>8 DEF Has

(* Everything that differs is in a section that is written, within a part  *)
(* that is written as modified.                                            *)
LEMMA ReportedIs ==
  ASSUME NEW from, NEW into, Accepted(from), Accepted(into)
  PROVE  LET diff == Differences(from, into)
             Changes(lines) == { d \in lines : d.how # "same" }
         IN Changes(Written(diff)) \ {Entry("del", NoRole, "part")}
              = { d \in Changes(diff) : ~Unwritten(d) }
<1> DEFINE D == Differences(from, into)
           none == Entry("del", NoRole, "part")
           misread == { d \in D : d.how = "del" /\ d.part[1] = "eitem" }
<1>1. ASSUME NEW d \in D, NEW top \in Tops
      PROVE  d \in Section(D, top) => d.part[1] = top \/ Parent(d.part)[1] = top
  BY DEF Section
<1>2. ASSUME NEW d \in D, d.part[1] = "role"
      PROVE  Parent(d.part)[1] = "roles" /\ ~IsTop(d.part)
  BY <1>2, EntryParts, PartParents DEF Tops
<1>3. ASSUME NEW d \in Written(D), d # none
      PROVE  d \in D /\ ~Unwritten(d)
  <2>1. CASE d \in RolesSection(D)
    <3>1. d \in Section(D, "roles") /\ ~Unwritten(d)
      BY <1>3, <2>1 DEF RolesSection, Unwritten
    <3> QED BY <3>1 DEF Section
  <2>2. ASSUME NEW top \in {"enm", "bitf", "strct"}, d \in Section(D, top)
        PROVE  d \in D /\ ~Unwritten(d)
    <3>1. d \in D
      BY <2>2 DEF Section
    <3>2. d.part[1] # "role"
      BY <1>1, <1>2, <2>2, <3>1 DEF Tops
    <3> QED BY <3>1, <3>2 DEF Unwritten
  <2> QED BY <1>3, <2>1, <2>2 DEF Written
<1>4. ASSUME NEW d \in D, d.how # "same", ~Unwritten(d)
      PROVE  d \in Written(D) /\ d # none
  <2>1. PICK top \in Tops : d \in Section(D, top)
    <3>1. CASE IsTop(d.part)
      <4>1. d.part[1] \in Tops
        BY <3>1, EntryParts, PartParents
      <4>2. d \in Section(D, d.part[1])
        BY <1>4 DEF Section
      <4> QED BY <4>1, <4>2
    <3>2. CASE ~IsTop(d.part)
      <4> DEFINE top == Parent(d.part)[1]
                 e == Entry("mod", Parent(d.part), "part")
      <4>1. top \in Tops
        BY <3>2, EntryParts, PartParents
      <4>2. Has(D, "mod", Parent(d.part), "part") /\ e \in D
        BY <1>4, <3>2, EntryParts DEF Has
      <4>3. e.how = "mod" /\ e.part[1] = top
        BY DEF Entry
      <4>4. ~(\A x \in D : x.part[1] = top => x.how = "same")
        BY <4>2, <4>3
      <4>5. d \in Section(D, top)
        BY <3>2, <4>2, <4>4 DEF Section
      <4> QED BY <4>1, <4>5
    <3> QED BY <3>1, <3>2
  <2>2. d \in Written(D)
    BY <1>4, <2>1 DEF Written, RolesSection, Tops, Unwritten
  <2>3. d # none
    <3>1. none.how = "del" /\ none.part = NoRole
      BY DEF Entry
    <3>2. NoRole[1] = "role"
      BY DEF NoRole
    <3> QED BY <1>4, <3>1, <3>2 DEF Unwritten
  <2> QED BY <2>2, <2>3
<1> QED BY <1>3, <1>4

(* What ort-diff writes are the differences, all of them but for deleted   *)
(* roles.                                                                  *)
THEOREM DifferencesAreWritten == Spec => []Reported
<1>1. IInv => Reported
  BY ReportedIs DEF IInv, Reported
<1> QED BY <1>1, Invariant, PTL

(***************************************************************************)
(* The exit status of ort-diff.                                            *)
(***************************************************************************)
(* Sets that are compared by their sizes and one another's elements.       *)
LEMMA SameSetIs ==
  ASSUME NEW a, NEW b, IsFiniteSet(b)
  PROVE  SameSet(a, b) <=> a = b
<1>1. a \subseteq b /\ Cardinality(a) = Cardinality(b) => a = b
  BY FS_Subset
<1> QED BY <1>1 DEF SameSet

(* Nothing is said of a field exactly if it has not changed. What          *)
(* ort_diff() compares only sometimes (the default, the source of a struct *)
(* field) is otherwise fixed by the parser.                                *)
LEMMA SameFields ==
  ASSUME NEW a \in Attributes("field"), NEW b \in Attributes("field"),
         FieldParsed(a), FieldParsed(b), a.type = "struct" => a.ref # <<>>
  PROVE  FieldMods(a, b) = {} <=> a = b
<1>1. /\ a.rolemap \in Lists /\ b.rolemap \in Lists
      /\ a.valids \in Lists /\ b.valids \in Lists
  BY DEF Attributes
<1>2. /\ SameSet(a.rolemap, b.rolemap) <=> a.rolemap = b.rolemap
      /\ SameSet(a.valids, b.valids) <=> a.valids = b.valids
  BY <1>1, SameSetIs DEF Lists
<1>3. FieldMods(a, b) = {} <=>
        /\ a.type = b.type /\ a.flags = b.flags /\ a.comment = b.comment
        /\ a.actdel = b.actdel /\ a.actup = b.actup
        /\ ~(a.type = "bitfield" /\ b.type = "bitfield" /\ a.of # b.of)
        /\ ~(a.type = "enum" /\ b.type = "enum" /\ a.of # b.of)
        /\ SameReference(a, b) /\ SameDefault(a, b) /\ SameValids(a, b)
        /\ SameSet(a.rolemap, b.rolemap)
  BY FieldChanges
<1>4. ASSUME FieldMods(a, b) = {}
      PROVE  a.of = b.of /\ a.def = b.def /\ a.ref = b.ref /\ a.valids = b.valids
  <2>1. a.ref = b.ref /\ a.valids = b.valids
    BY <1>2, <1>3, <1>4 DEF SameReference, SameValids
  <2>2. a.def = b.def
    BY <1>3, <1>4 DEF SameDefault, FieldParsed
  <2>3. CASE a.type = "struct"
    <3>1. a.type = b.type /\ SameReference(a, b) /\ a.ref # <<>>
      BY <1>3, <1>4, <2>3
    <3>2. Source(a) = a.of /\ Source(b) = b.of
      BY <2>3, <3>1 DEF Source
    <3> QED BY <2>1, <2>2, <3>1, <3>2 DEF SameReference
  <2>4. CASE a.type # "struct"
    <3>1. /\ a.type = b.type
          /\ ~(a.type = "bitfield" /\ b.type = "bitfield" /\ a.of # b.of)
          /\ ~(a.type = "enum" /\ b.type = "enum" /\ a.of # b.of)
      BY <1>3, <1>4
    <3>2. a.type \notin {"enum", "bitfield", "struct"} => a.of = "" /\ b.of = ""
      BY <3>1 DEF FieldParsed
    <3> QED BY <2>1, <2>2, <2>4, <3>1, <3>2
  <2> QED BY <2>1, <2>2, <2>3, <2>4
<1>5. ASSUME FieldMods(a, b) = {}
      PROVE  a = b
  <2>1. /\ a.type = b.type /\ a.flags = b.flags /\ a.comment = b.comment
        /\ a.actdel = b.actdel /\ a.actup = b.actup /\ a.rolemap = b.rolemap
    BY <1>2, <1>3, <1>5
  <2> QED BY <1>4, <1>5, <2>1 DEF Attributes
<1>6. ASSUME a = b
      PROVE  FieldMods(a, b) = {}
  <2>1. SameReference(a, b) /\ SameDefault(a, b) /\ SameValids(a, b)
    BY <1>2, <1>6 DEF SameReference, SameDefault, SameValids
  <2> QED BY <1>2, <1>3, <1>6, <2>1
<1> QED BY <1>5, <1>6

(* So for the items of enumerations and of bitfields.                      *)
LEMMA SameItems ==
  ASSUME NEW a \in Attributes("eitem"), NEW b \in Attributes("eitem")
  PROVE  EitemMods(a, b) = {} <=> a = b
<1>1. a.labels \in Lists /\ b.labels \in Lists
  BY DEF Attributes
<1>2. SameSet(a.labels, b.labels) <=> a.labels = b.labels
  BY <1>1, SameSetIs DEF Lists
<1>3. EitemMods(a, b) = {} <=>
        a.value = b.value /\ a.comment = b.comment /\ SameSet(a.labels, b.labels)
  BY ItemChanges
<1> QED BY <1>2, <1>3 DEF Attributes

(* So for enumerations.                                                    *)
LEMMA SameEnms ==
  ASSUME NEW a \in Attributes("enm"), NEW b \in Attributes("enm")
  PROVE  EnmMods(a, b) = {} <=> a = b
<1>1. a.labels \in Lists /\ b.labels \in Lists
  BY DEF Attributes
<1>2. SameSet(a.labels, b.labels) <=> a.labels = b.labels
  BY <1>1, SameSetIs DEF Lists
<1>3. EnmMods(a, b) = {} <=> a.comment = b.comment /\ SameSet(a.labels, b.labels)
  <2>1. /\ "comment" \in EnmMods(a, b) <=> a.comment # b.comment
        /\ "labels" \in EnmMods(a, b) <=> ~SameSet(a.labels, b.labels)
        /\ \A what \in EnmMods(a, b) : what \in {"comment", "labels"}
    BY DEF EnmMods, True
  <2> QED BY <2>1
<1> QED BY <1>2, <1>3 DEF Attributes

(* So for bitfields.                                                       *)
LEMMA SameBitfs ==
  ASSUME NEW a \in Attributes("bitf"), NEW b \in Attributes("bitf")
  PROVE  BitfMods(a, b) = {} <=> a = b
<1>1. a.labels \in Lists /\ b.labels \in Lists /\ a.unset \in Lists /\ b.unset \in Lists
  BY DEF Attributes
<1>2. /\ SameSet(a.labels, b.labels) <=> a.labels = b.labels
      /\ SameSet(a.unset, b.unset) <=> a.unset = b.unset
  BY <1>1, SameSetIs DEF Lists
<1>3. BitfMods(a, b) = {} <=>
        a.comment = b.comment /\ SameSet(a.unset, b.unset) /\ SameSet(a.labels, b.labels)
  <2>1. /\ "comment" \in BitfMods(a, b) <=> a.comment # b.comment
        /\ "labels" \in BitfMods(a, b) <=>
             ~SameSet(a.unset, b.unset) \/ ~SameSet(a.labels, b.labels)
        /\ \A what \in BitfMods(a, b) : what \in {"comment", "labels"}
    BY DEF BitfMods, True
  <2> QED BY <2>1
<1> QED BY <1>2, <1>3 DEF Attributes

(* So for updates and deletions.                                           *)
LEMMA SameUpdates ==
  ASSUME NEW a \in Attributes("update"), NEW b \in Attributes("update")
  PROVE  UpdateMods(a, b) = {} <=> a = b
<1>1. a.rolemap \in Lists /\ b.rolemap \in Lists
  BY DEF Attributes
<1>2. SameSet(a.rolemap, b.rolemap) <=> a.rolemap = b.rolemap
  BY <1>1, SameSetIs DEF Lists
<1>3. UpdateMods(a, b) = {} <=>
        /\ a.mrq = b.mrq /\ a.crq = b.crq /\ a.comment = b.comment /\ a.flags = b.flags
        /\ SameSet(a.rolemap, b.rolemap)
  <2>1. /\ "params" \in UpdateMods(a, b) <=> a.mrq # b.mrq \/ a.crq # b.crq
        /\ "comment" \in UpdateMods(a, b) <=> a.comment # b.comment
        /\ "rolemap" \in UpdateMods(a, b) <=> ~SameSet(a.rolemap, b.rolemap)
        /\ "flags" \in UpdateMods(a, b) <=> a.flags # b.flags
        /\ \A what \in UpdateMods(a, b) : what \in {"params", "comment", "rolemap", "flags"}
    BY DEF UpdateMods, True
  <2> QED BY <2>1
<1> QED BY <1>2, <1>3 DEF Attributes

(* So for queries.                                                         *)
LEMMA SameSearches ==
  ASSUME NEW a \in Attributes("search"), NEW b \in Attributes("search")
  PROVE  SearchMods(a, b) = {} <=> a = b
<1>1. a.rolemap \in Lists /\ b.rolemap \in Lists
  BY DEF Attributes
<1>2. SameSet(a.rolemap, b.rolemap) <=> a.rolemap = b.rolemap
  BY <1>1, SameSetIs DEF Lists
<1>3. SearchMods(a, b) = {} <=>
        /\ \A what \in DOMAIN a \ {"rolemap"} : a[what] = b[what]
        /\ SameSet(a.rolemap, b.rolemap)
  <2>1. \A what : what \in SearchMods(a, b) <=>
          \/ what \in DOMAIN a \ {"rolemap"} /\ a[what] # b[what]
          \/ what = "rolemap" /\ ~SameSet(a.rolemap, b.rolemap)
    <3>1. \A what : what \in True([rolemap |-> ~SameSet(a.rolemap, b.rolemap)]) <=>
            what = "rolemap" /\ ~SameSet(a.rolemap, b.rolemap)
      <4>1. SameSet(a.rolemap, b.rolemap) \in BOOLEAN
        BY DEF SameSet
      <4>2. LET tests == [rolemap |-> ~SameSet(a.rolemap, b.rolemap)]
            IN DOMAIN tests = {"rolemap"} /\ tests["rolemap"] = ~SameSet(a.rolemap, b.rolemap)
        OBVIOUS
      <4> QED BY <4>1, <4>2 DEF True
    <3> QED BY <3>1 DEF SearchMods
  <2> QED BY <2>1
<1>4. DOMAIN a = {"params", "order", "aggr", "group", "distinct", "comment", "limit",
                  "offset", "rolemap"}
  BY DEF Attributes
<1>5. (\A what \in DOMAIN a : a[what] = b[what]) => a = b
  BY <1>4 DEF Attributes
<1> QED BY <1>2, <1>3, <1>4, <1>5

(* The number of arguments of the insert function of a structure.          *)
LEMMA FieldCount ==
  ASSUME NEW cfg, Configuration(cfg), NEW s
  PROVE  /\ Named(cfg, "field", s) = { <<"field", s, f>> : f \in Fields(cfg, s) }
         /\ Cardinality(Named(cfg, "field", s)) = Cardinality(Fields(cfg, s))
         /\ Cardinality(Fields(cfg, s)) \in Nat
<1> DEFINE named == Named(cfg, "field", s)
           fields == Fields(cfg, s)
           name == [p \in named |-> p[3]]
<1>1. \A f : f \in fields <=> <<"field", s, f>> \in DOMAIN cfg
  BY TableNames
<1>2. \A p \in named : p \in DOMAIN cfg /\ p = <<"field", s, p[3]>>
  BY FieldsParsed DEF Named
<1>3. \A f \in fields : <<"field", s, f>> \in named
  BY <1>1 DEF Named
<1>4. named = { <<"field", s, f>> : f \in fields }
  <2>1. \A p \in named : p[3] \in fields
    BY <1>1, <1>2
  <2> QED BY <1>2, <1>3, <2>1
<1>5. IsFiniteSet(named)
  <2>1. named \subseteq DOMAIN cfg
    BY DEF Named
  <2> QED BY <2>1, FS_Subset DEF Configuration
<1> HIDE DEF named, fields
<1>6. name \in [named -> fields]
  <2>1. \A p \in named : p[3] \in fields
    BY <1>4
  <2> QED BY <2>1
<1>7. name \in Bijection(named, fields)
  <2>1. \A p, q \in named : name[p] = name[q] => p = q
    BY <1>2
  <2>2. \A f \in fields : \E p \in named : name[p] = f
    <3>1. \A f \in fields : name[<<"field", s, f>>] = f
      BY <1>3
    <3> QED BY <1>3, <3>1
  <2> HIDE DEF name
  <2> QED BY <1>6, <2>1, <2>2 DEF Bijection, Injection, Surjection, IsInjective
<1>8. ExistsBijection(named, fields)
  BY <1>7 DEF ExistsBijection
<1>9. IsFiniteSet(fields) /\ Cardinality(fields) = Cardinality(named)
  BY <1>5, <1>8, FS_Bijection
<1>10. Cardinality(fields) \in Nat
  BY <1>9, FS_CardinalityType
<1> QED BY <1>4, <1>9, <1>10 DEF named, fields

(* An insert function is the same if it has the same arguments.            *)
LEMMA SameInserts ==
  ASSUME NEW from, NEW into, Accepted(from), Accepted(into), NEW s,
         DOMAIN from = DOMAIN into, <<"insert", s>> \in DOMAIN from
  PROVE  InsertMods(from, into, s) = {} <=>
           /\ from[<<"insert", s>>] = into[<<"insert", s>>]
           /\ \/ from[<<"strct", s>>].order = into[<<"strct", s>>].order
              \/ Cardinality(Fields(from, s)) < 2
<1> DEFINE p == <<"insert", s>>
           x == from[<<"strct", s>>].order
           y == into[<<"strct", s>>].order
<1>1. p[1] = "insert" /\ p[2] = s
  OBVIOUS
<1>2. /\ IsPart(p) /\ from[p] \in Attributes("insert") /\ into[p] \in Attributes("insert")
      /\ Configuration(from) /\ Configuration(into)
  BY <1>1 DEF Accepted, Configuration
<1>3. <<"strct", s>> \in DOMAIN from
  <2>1. ~IsTop(p) /\ Parent(p) = <<"strct", s>>
    BY <1>1, <1>2, PartParents DEF Tops, OfStrct
  <2> QED BY <2>1 DEF Accepted, Legal
<1>4. x \in STRING /\ y \in STRING
  <2>1. /\ from[<<"strct", s>>] \in Attributes("strct")
        /\ into[<<"strct", s>>] \in Attributes("strct")
    BY <1>2, <1>3 DEF Configuration
  <2> QED BY <2>1 DEF Attributes
<1>5. /\ from[p].rolemap \in Lists /\ into[p].rolemap \in Lists
      /\ from[p] = into[p] <=> from[p].rolemap = into[p].rolemap
  BY <1>2 DEF Attributes
<1>6. SameSet(from[p].rolemap, into[p].rolemap) <=> from[p].rolemap = into[p].rolemap
  BY <1>5, SameSetIs DEF Lists
<1>7. Arguments(from, s) = Arguments(into, s) <=> x = y \/ Cardinality(Fields(from, s)) < 2
  <2>1. Named(from, "field", s) = Named(into, "field", s)
    BY DEF Named
  <2>2. /\ Cardinality(Named(from, "field", s)) = Cardinality(Fields(from, s))
        /\ Cardinality(Fields(from, s)) \in Nat
    BY <1>2, FieldCount
  <2> QED BY <2>1, <2>2 DEF Arguments
<1>8. InsertMods(from, into, s) = {} <=>
        /\ SameSet(from[p].rolemap, into[p].rolemap)
        /\ Arguments(from, s) = Arguments(into, s)
  <2>1. /\ "rolemap" \in InsertMods(from, into, s) <=>
             ~SameSet(from[p].rolemap, into[p].rolemap)
        /\ "params" \in InsertMods(from, into, s) <=> Arguments(from, s) # Arguments(into, s)
        /\ \A what \in InsertMods(from, into, s) : what \in {"rolemap", "params"}
    BY DEF InsertMods, True
  <2> QED BY <2>1
<1> QED BY <1>5, <1>6, <1>7, <1>8

(* A role is the same if its parent, its comment and its children are; the *)
(* children are if all roles are.                                          *)
LEMMA SameRoles ==
  ASSUME NEW from, NEW into, Accepted(from), Accepted(into), NEW p \in DOMAIN from,
         DOMAIN from = DOMAIN into, p[1] = "role"
  PROVE  /\ RoleMods(from, into, p[2]) = {} => from[p] = into[p]
         /\ (\A q \in DOMAIN from : q[1] = "role" => from[q] = into[q]) =>
              RoleMods(from, into, p[2]) = {}
<1>1. /\ p = <<"role", p[2]>>
      /\ from[p] \in Attributes("role") /\ into[p] \in Attributes("role")
      /\ IsFiniteSet(DOMAIN into)
  BY PartNames DEF Accepted, Configuration
<1>2. /\ "parent" \in RoleMods(from, into, p[2]) <=> from[p].parent # into[p].parent
      /\ "comment" \in RoleMods(from, into, p[2]) <=> from[p].comment # into[p].comment
      /\ "children" \in RoleMods(from, into, p[2]) <=>
           ~SameSet(Children(from, p[2]), Children(into, p[2]))
      /\ \A what \in RoleMods(from, into, p[2]) : what \in {"parent", "comment", "children"}
  BY <1>1 DEF RoleMods, True
<1>3. ASSUME RoleMods(from, into, p[2]) = {}
      PROVE  from[p] = into[p]
  <2>1. from[p].parent = into[p].parent /\ from[p].comment = into[p].comment
    BY <1>2, <1>3
  <2> QED BY <1>1, <2>1 DEF Attributes
<1>4. ASSUME \A q \in DOMAIN from : q[1] = "role" => from[q] = into[q]
      PROVE  RoleMods(from, into, p[2]) = {}
  <2>1. Children(from, p[2]) = Children(into, p[2])
    BY <1>4 DEF Children
  <2>2. SameSet(Children(from, p[2]), Children(into, p[2]))
    BY <2>1 DEF SameSet
  <2>3. from[p] = into[p]
    BY <1>4
  <2> QED BY <1>2, <2>2, <2>3
<1> QED BY <1>3, <1>4

(* Nothing is listed but what is the same.                                 *)
LEMMA ExitZero ==
  ASSUME NEW from, NEW into, Accepted(from), Accepted(into)
  PROVE  ExitStatus(Differences(from, into)) = 0
           <=> /\ DOMAIN from = DOMAIN into
               /\ \A p \in DOMAIN from : Mods(from, into, p) = {}
<1> DEFINE D == Differences(from, into)
<1>1. ExitStatus(D) = 0 <=> \A d \in D : d.how = "same"
  BY DEF ExitStatus
<1>2. ASSUME \A d \in D : d.how = "same"
      PROVE  /\ DOMAIN from = DOMAIN into
             /\ \A p \in DOMAIN from : Mods(from, into, p) = {}
  <2>1. \A how, p, what : Entry(how, p, what).how = how
    BY DEF Entry
  <2>2. /\ \A p : p \notin OnlyIn(from, into) /\ p \notin OnlyIn(into, from)
        /\ \A p \in DOMAIN from \cap DOMAIN into : \A what : what \notin Mods(from, into, p)
    BY <1>2, <2>1, Entries
  <2>3. \A p : p \in DOMAIN from <=> p \in DOMAIN into
    BY <2>2, OnlyIs
  <2>4. DOMAIN from = DOMAIN into
    BY <2>3
  <2> QED BY <2>2, <2>4
<1>3. ASSUME DOMAIN from = DOMAIN into, \A p \in DOMAIN from : Mods(from, into, p) = {}
      PROVE  \A d \in D : d.how = "same"
  <2>1. OnlyIn(from, into) = {} /\ OnlyIn(into, from) = {}
    BY <1>3 DEF OnlyIn
  <2>2. Modified(from, into) = {}
    BY <1>3, <2>1 DEF Modified
  <2> QED BY <1>3, <2>1, <2>2, EntryKinds
<1> QED BY <1>1, <1>2, <1>3

(* Parts with the same attributes, but for the order of the fields.        *)
LEMMA SamePart ==
  ASSUME NEW from, NEW into, Accepted(from), Accepted(into),
         DOMAIN from = DOMAIN into, NEW p \in DOMAIN from,
         p[1] \notin {"strct", "insert", "role"}
  PROVE  Mods(from, into, p) = {} <=> from[p] = into[p]
<1> DEFINE a == from[p]
           b == into[p]
<1>1. /\ IsPart(p) /\ a \in Attributes(p[1]) /\ b \in Attributes(p[1])
      /\ p[1] = "field" => FieldParsed(a) /\ FieldParsed(b)
  BY DEF Accepted, Configuration
<1>2. p[1] \in Tops \cup OfStrct \cup {"eitem", "bitidx", "role"}
  BY <1>1, PartNames
<1>3. CASE p[1] = "field"
  <2>1. a.type = "struct" => a.ref # <<>>
    <3>1. p = <<"field", p[2], p[3]>> /\ <<"strct", p[2]>> \in DOMAIN from
      BY <1>3, FieldsParsed DEF Accepted
    <3>2. LegalStrct(from, p[2])
      <4>1. LET s == <<"strct", p[2]>> IN s[1] = "strct" /\ s[2] = p[2]
        OBVIOUS
      <4> QED BY <3>1, <4>1 DEF Accepted, Legal
    <3>3. p[3] \in Fields(from, p[2])
      BY <3>1, TableNames DEF Accepted
    <3> QED BY <3>1, <3>2, <3>3 DEF LegalStrct
  <2>2. Mods(from, into, p) = FieldMods(a, b)
    BY <1>3 DEF Mods, BitidxMods
  <2>3. a \in Attributes("field") /\ b \in Attributes("field")
    BY <1>1, <1>3
  <2> QED BY <1>1, <1>3, <2>1, <2>2, <2>3, SameFields
<1>4. CASE p[1] \in {"eitem", "bitidx"}
  <2>1. Mods(from, into, p) = EitemMods(a, b)
    BY <1>4 DEF Mods, BitidxMods
  <2>2. a \in Attributes("eitem") /\ b \in Attributes("eitem")
    BY <1>1, <1>4 DEF Attributes
  <2> QED BY <2>1, <2>2, SameItems
<1>5. CASE p[1] = "enm"
  <2>1. Mods(from, into, p) = EnmMods(a, b)
    BY <1>5 DEF Mods
  <2> QED BY <1>1, <1>5, <2>1, SameEnms
<1>6. CASE p[1] = "bitf"
  <2>1. Mods(from, into, p) = BitfMods(a, b)
    BY <1>6 DEF Mods
  <2> QED BY <1>1, <1>6, <2>1, SameBitfs
<1>7. CASE p[1] = "update"
  <2>1. Mods(from, into, p) = UpdateMods(a, b)
    BY <1>7 DEF Mods
  <2> QED BY <1>1, <1>7, <2>1, SameUpdates
<1>8. CASE p[1] = "search"
  <2>1. Mods(from, into, p) = SearchMods(a, b)
    BY <1>8 DEF Mods
  <2> QED BY <1>1, <1>8, <2>1, SameSearches
<1>9. CASE p[1] \in {"roles", "unique", "anonupdate", "anonsearch"}
  <2>1. Mods(from, into, p) = {}
    BY <1>9 DEF Mods
  <2>2. a = NoAttributes /\ b = NoAttributes
    BY <1>1, <1>9 DEF Attributes
  <2> QED BY <2>1, <2>2
<1> QED BY <1>2, <1>3, <1>4, <1>5, <1>6, <1>7, <1>8, <1>9 DEF Tops, OfStrct

(* Of a structure itself, only the comment is compared.                    *)
LEMMA SameStrcts ==
  ASSUME NEW from, NEW into, NEW p, p[1] = "strct"
  PROVE  Mods(from, into, p) = {} <=> from[p].comment = into[p].comment
<1> DEFINE tests == [comment |-> from[p].comment # into[p].comment]
<1>1. Mods(from, into, p) = True(tests)
  BY DEF Mods
<1>2. DOMAIN tests = {"comment"} /\ tests["comment"] = (from[p].comment # into[p].comment)
  OBVIOUS
<1> HIDE DEF tests
<1> QED BY <1>1, <1>2 DEF True

(* None is found if and only if there is none.                             *)
LEMMA ExitIs ==
  ASSUME NEW from, NEW into, Accepted(from), Accepted(into)
  PROVE  ExitStatus(Differences(from, into)) = 0 <=> Equal(from, into)
<1> SUFFICES ASSUME DOMAIN from = DOMAIN into
             PROVE  (\A p \in DOMAIN from : Mods(from, into, p) = {}) <=> Equal(from, into)
  BY ExitZero DEF Equal
<1>1. \A p \in DOMAIN from : IsPart(p)
  BY DEF Accepted, Configuration
<1>2. \A p \in DOMAIN from : p[1] \in {"insert", "strct"} => p = <<p[1], p[2]>>
  BY <1>1, PartNames
<1> DEFINE ordered(s) == \/ from[<<"strct", s>>].order = into[<<"strct", s>>].order
                         \/ Cardinality(Fields(from, s)) < 2
<1>3. ASSUME NEW s, <<"insert", s>> \in DOMAIN from
      PROVE  Mods(from, into, <<"insert", s>>) = {} <=>
               from[<<"insert", s>>] = into[<<"insert", s>>] /\ ordered(s)
  <2>1. Mods(from, into, <<"insert", s>>) = InsertMods(from, into, s)
    BY DEF Mods
  <2> QED BY <1>3, <2>1, SameInserts
<1>4. ASSUME \A p \in DOMAIN from : Mods(from, into, p) = {}
      PROVE  Equal(from, into)
  <2>1. ASSUME NEW p \in DOMAIN from, p[1] # "strct"
        PROVE  from[p] = into[p]
    <3>1. CASE p[1] = "insert"
      BY <1>2, <1>3, <1>4, <3>1
    <3>2. CASE p[1] = "role"
      <4>1. Mods(from, into, p) = RoleMods(from, into, p[2])
        BY <3>2 DEF Mods
      <4> QED BY <1>4, <3>2, <4>1, SameRoles
    <3>3. CASE p[1] \notin {"strct", "insert", "role"}
      BY <1>4, <3>3, SamePart
    <3> QED BY <2>1, <3>1, <3>2, <3>3
  <2>2. ASSUME NEW p \in DOMAIN from, p[1] = "strct"
        PROVE  /\ from[p].comment = into[p].comment
               /\ \/ from[p].order = into[p].order
                  \/ <<"insert", p[2]>> \notin DOMAIN from
                  \/ Cardinality(Fields(from, p[2])) < 2
    <3>1. from[p].comment = into[p].comment
      BY <1>4, <2>2, SameStrcts
    <3>2. ASSUME <<"insert", p[2]>> \in DOMAIN from
          PROVE  from[p].order = into[p].order \/ Cardinality(Fields(from, p[2])) < 2
      BY <1>2, <1>3, <1>4, <2>2, <3>2
    <3> QED BY <3>1, <3>2
  <2> QED BY <2>1, <2>2 DEF Equal
<1>5. ASSUME Equal(from, into), NEW p \in DOMAIN from
      PROVE  Mods(from, into, p) = {}
  <2>1. \A q \in DOMAIN from : q[1] # "strct" => from[q] = into[q]
    BY <1>5 DEF Equal
  <2>2. CASE p[1] = "insert"
    <3>1. p = <<"insert", p[2]>> /\ <<"strct", p[2]>> \in DOMAIN from
      <4>1. Parent(p) = <<"strct", p[2]>> /\ ~IsTop(p)
        BY <1>1, <2>2, PartParents DEF Tops, OfStrct
      <4> QED BY <1>2, <2>2, <4>1 DEF Accepted, Legal
    <3>2. ordered(p[2])
      <4>1. LET s == <<"strct", p[2]>> IN s[1] = "strct" /\ s[2] = p[2]
        OBVIOUS
      <4> QED BY <1>5, <3>1, <4>1 DEF Equal
    <3> QED BY <1>3, <2>1, <2>2, <3>1, <3>2
  <2>3. CASE p[1] = "role"
    <3>1. Mods(from, into, p) = RoleMods(from, into, p[2])
      BY <2>3 DEF Mods
    <3> QED BY <2>1, <2>3, <3>1, SameRoles
  <2>4. CASE p[1] = "strct"
    BY <1>5, <2>4, SameStrcts DEF Equal
  <2>5. CASE p[1] \notin {"strct", "insert", "role"}
    BY <2>1, <2>5, SamePart
  <2> QED BY <2>2, <2>3, <2>4, <2>5
<1> QED BY <1>4, <1>5

(* ort-diff exits with 0 if and only if the configurations do not differ,  *)
(* but for an order of fields that means nothing.                          *)
THEOREM ExitStatusIsExact == Spec => []ExitExact
<1>1. IInv => ExitExact
  BY ExitIs DEF IInv, ExitExact
<1> QED BY <1>1, Invariant, PTL
==============================================================================
