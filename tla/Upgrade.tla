------------------------------- MODULE Upgrade -------------------------------
(***************************************************************************)
(* A configuration and the database of the program made from it over time: *)
(* the configuration is edited, ort-sqldiff is asked for a script that     *)
(* leads from the deployed configuration to the edited one, the database   *)
(* executes it, and the new program is deployed.  The program inserts      *)
(* rows.  A statement that fails ends the upgrade.                         *)
(***************************************************************************)
EXTENDS SqlDiff, Integers

CONSTANTS Bases,     \* the first configurations
          Options,   \* what may be written: parts with their attributes
          MaxEdits   \* bound on the number of edits

VARIABLES deployed,  \* the configuration the program was made from
          edited,    \* the configuration as it is edited
          edits,     \* number of edits so far
          asked,     \* ort-sqldiff has been called with -d
          verdict,   \* what it has said
          script,    \* statements to be executed: a sequence of sets
          db, rows,  \* the schema of the database, and the tables with rows
          failed,    \* the statement that failed, and why
          destroyed  \* a script has been destructive
vars == <<deployed, edited, edits, asked, verdict, script, db, rows, failed, destroyed>>

NoStatement == [st |-> Statement("none", "none", {}), why |-> "none"]

(***************************************************************************)
(* Configurations as the parser makes them, part by part: how a part is    *)
(* named and what is said of it.  parse_field() does not let everything    *)
(* together (see Fields), and parse_struct_unique() asks for two fields.   *)
(***************************************************************************)
IsPart(p) ==
  \/ p = <<"roles">>
  \/ p[1] \in {"enm", "bitf", "strct", "insert", "role"} /\ p = <<p[1], p[2]>>
  \/ /\ p[1] \in {"eitem", "bitidx", "field", "unique", "update", "search",
                  "anonupdate", "anonsearch"}
     /\ p = <<p[1], p[2], p[3]>>

Flags == {"rowid", "unique", "null", "noexport", "hasdef"}
Lists == { list \in SUBSET STRING : IsFiniteSet(list) }
NoAttributes == [comment |-> ""]

Attributes(kind) ==
  CASE kind = "field" ->
         [type : STRING, of : STRING, flags : SUBSET Flags, def : STRING,
          ref : {<<>>} \cup (STRING \X STRING), actdel : STRING, actup : STRING,
          valids : Lists, rolemap : Lists, comment : STRING]
    [] kind \in {"eitem", "bitidx"} -> [value : Int, comment : STRING, labels : Lists]
    [] kind = "enm" -> [comment : STRING, labels : Lists]
    [] kind = "bitf" -> [comment : STRING, unset : Lists, labels : Lists]
    [] kind = "strct" -> [comment : STRING, order : STRING]
    [] kind = "insert" -> [rolemap : Lists]
    [] kind = "update" -> [mrq : Seq(STRING), crq : Seq(STRING), comment : STRING,
                           rolemap : Lists, flags : SUBSET STRING]
    [] kind = "search" -> [params : Seq(STRING), order : Seq(STRING), aggr : STRING,
                           group : STRING, distinct : STRING, comment : STRING,
                           limit : Nat, offset : Nat, rolemap : Lists]
    [] kind = "role" -> [parent : STRING, comment : STRING]
    [] OTHER -> {NoAttributes}

FieldParsed(a) ==
  /\ a.type \notin {"enum", "bitfield", "struct"} => a.of = ""
  /\ "hasdef" \notin a.flags => a.def = ""
  /\ "rowid" \in a.flags => "null" \notin a.flags
  /\ a.type = "struct" =>
       /\ a.flags \cap {"rowid", "null", "unique"} = {}
       /\ a.actdel = "none" /\ a.actup = "none"

Configuration(cfg) ==
  /\ IsFiniteSet(DOMAIN cfg)
  /\ \A p \in DOMAIN cfg :
       /\ IsPart(p) /\ cfg[p] \in Attributes(p[1])
       /\ p[1] = "field" => FieldParsed(cfg[p])
       /\ p[1] = "unique" => Cardinality(p[3]) >= 2

(***************************************************************************)
(* Configurations that parser and linker accept.                           *)
(***************************************************************************)
Roles(cfg) == { p[2] : p \in { q \in DOMAIN cfg : q[1] = "role" } }

LegalRef(cfg, a) ==
  LET target == <<"field", a.ref[1], a.ref[2]>>
  IN a.ref # <<>> =>
       /\ target \in DOMAIN cfg
       /\ a.type # "struct" =>
            /\ cfg[target].type = a.type
            /\ cfg[target].flags \cap {"rowid", "unique"} # {}

LegalField(cfg, a) ==
  /\ LegalRef(cfg, a)
  /\ a.type = "enum" => \E p \in DOMAIN cfg : p[1] = "eitem" /\ p[2] = a.of
  /\ a.type = "enum" /\ "hasdef" \in a.flags => <<"eitem", a.of, a.def>> \in DOMAIN cfg
  /\ a.type = "bitfield" => <<"bitf", a.of>> \in DOMAIN cfg
  /\ a.rolemap \subseteq Roles(cfg)

(* A struct field is about a field of its structure that refers to another.*)
LegalStrct(cfg, s) ==
  \A f \in Fields(cfg, s) :
    LET a == cfg[<<"field", s, f>>]
    IN a.type = "struct" =>
         /\ a.of \in Columns(cfg, s)
         /\ cfg[<<"field", s, a.of>>].ref = a.ref /\ a.ref # <<>>

Legal(cfg) ==
  /\ \A p \in DOMAIN cfg :
       /\ ~IsTop(p) => Parent(p) \in DOMAIN cfg
       /\ p[1] \in {"enm", "bitf"} => Within(cfg, p) # {}
       /\ p[1] = "strct" => Fields(cfg, p[2]) # {} /\ LegalStrct(cfg, p[2])
       /\ p[1] = "field" => LegalField(cfg, cfg[p])
       /\ p[1] = "unique" => p[3] \subseteq Columns(cfg, p[2])
       /\ p[1] = "role" => cfg[p].parent \in Roles(cfg) \cup {"all"}
       /\ p[1] \in {"insert", "update", "search"} => cfg[p].rolemap \subseteq Roles(cfg)
  /\ \A s \in Tables(cfg) :
       Cardinality({ f \in Fields(cfg, s) : "rowid" \in cfg[<<"field", s, f>>].flags }) < 2

With(cfg, new) ==
  [p \in DOMAIN cfg \cup DOMAIN new |-> IF p \in DOMAIN new THEN new[p] ELSE cfg[p]]
Without(cfg, p) == [q \in DOMAIN cfg \ ({p} \cup Within(cfg, p)) |-> cfg[q]]

ASSUME BasesAssumption == \A cfg \in Bases : Configuration(cfg) /\ Legal(cfg)
ASSUME OptionsAssumption == \A new \in Options : Configuration(new)

(***************************************************************************)
(* The actions.                                                            *)
(***************************************************************************)
Init ==
  /\ deployed \in Bases /\ edited = deployed /\ edits = 0
  /\ asked = FALSE /\ verdict = "none" /\ script = <<>>
  /\ db = Schema(deployed) /\ rows = {}
  /\ failed = NoStatement /\ destroyed = FALSE

Edit ==
  /\ verdict # "script" /\ edits < MaxEdits
  /\ edits' = edits + 1 /\ asked' = FALSE /\ verdict' = "none"
  /\ \/ \E new \in Options : edited' = With(edited, new)
     \/ \E p \in DOMAIN edited : edited' = Without(edited, p)
  /\ edited' # edited /\ Legal(edited')
  /\ UNCHANGED <<deployed, script, db, rows, failed, destroyed>>

SqlDiff(destruct) ==
  /\ verdict # "script" /\ edited # deployed
  /\ asked' = destruct
  /\ LET diff == Differences(deployed, edited)
     IN IF Refused(diff, deployed, edited, destruct)
        THEN verdict' = "refused" /\ UNCHANGED <<script, destroyed>>
        ELSE /\ verdict' = "script"
             /\ script' = Script(diff, deployed, edited, destruct)
             /\ destroyed' = (destroyed \/ destruct)
  /\ UNCHANGED <<deployed, edited, edits, db, rows, failed>>

Execute ==
  /\ verdict = "script" /\ failed = NoStatement
  /\ \E k \in DOMAIN script : \E st \in script[k] :
       /\ \A j \in 1..(k - 1) : script[j] = {}
       /\ script' = [script EXCEPT ![k] = @ \ {st}]
       /\ \/ /\ ~NamesFit(db, st)
             /\ failed' = [st |-> st, why |-> "names"] /\ UNCHANGED <<db, rows>>
          \/ /\ NamesFit(db, st) /\ DataMayNotFit(db, rows, edited, st)
             /\ failed' = [st |-> st, why |-> "data"] /\ UNCHANGED <<db, rows>>
          \/ /\ NamesFit(db, st) /\ DataMayFit(db, rows, edited, st)
             /\ db' = Done(db, edited, st)
             /\ rows' = IF st.do = "drop_table" THEN rows \ {st.table} ELSE rows
             /\ UNCHANGED failed
  /\ UNCHANGED <<deployed, edited, edits, asked, verdict, destroyed>>

Deploy ==
  /\ verdict = "script" /\ failed = NoStatement
  /\ \A k \in DOMAIN script : script[k] = {}
  /\ deployed' = edited /\ asked' = FALSE /\ verdict' = "none" /\ script' = <<>>
  /\ UNCHANGED <<edited, edits, db, rows, failed, destroyed>>

Fill ==
  /\ verdict # "script" /\ rows # Tables(deployed)
  /\ rows' = Tables(deployed)
  /\ UNCHANGED <<deployed, edited, edits, asked, verdict, script, db, failed, destroyed>>

Next ==
  \/ Edit
  \/ \E destruct \in BOOLEAN : SqlDiff(destruct)
  \/ Execute
  \/ Deploy
  \/ Fill

Spec == Init /\ [][Next]_vars

(***************************************************************************)
(* Properties.                                                             *)
(***************************************************************************)
(* The schema without the columns that were only noted as dropped.         *)
Observed ==
  [db EXCEPT !.tables =
     [s \in DOMAIN @ |->
        [f \in DOMAIN @[s] \cap (IF s \in Tables(deployed) THEN Columns(deployed, s)
                                 ELSE DOMAIN @[s]) |-> @[s][f]]]]

Promise ==
  INSTANCE Schemas WITH
    config <- deployed, wanted <- edited, asked <- asked, answer <- verdict,
    schema <- IF verdict = "script" THEN Schema(deployed) ELSE Observed

(* ort-sqldiff refuses exactly what loses or changes the meaning of stored *)
(* data, as ort-sqldiff(1) lists it, and a script that it does write and   *)
(* that runs to its end leaves the schema that ort-sql would have made.    *)
ImplementsSchemas == Promise!Spec

(* No statement names what is not there, or makes what is, whatever        *)
(* upgrades went before; but for a column made anew that was dropped when  *)
(* destructive changes were asked for, and has never gone.                 *)
NamesExist ==
  failed.why = "names" => destroyed /\ failed.st.do = "add_column"

(* ort-sqldiff(1): destructive changes are for -d.  With it, no table is   *)
(* dropped that is still wanted, no column ever, and only at the end: when *)
(* a statement of another kind fails, nothing has been lost.               *)
NothingLost ==
  [][ /\ ~destroyed => /\ DOMAIN db.tables \subseteq DOMAIN db'.tables
                       /\ rows \subseteq rows'
      /\ \A s \in DOMAIN db.tables :
           s \in DOMAIN db'.tables => DOMAIN db.tables[s] \subseteq DOMAIN db'.tables[s]
      /\ \A s \in DOMAIN db.tables \ DOMAIN db'.tables : s \notin Tables(edited)
      /\ failed' # failed /\ failed'.st.do # "drop_table" =>
           DOMAIN Schema(deployed).tables \subseteq DOMAIN db.tables ]_vars

(* Configurations that differ only in the order of fields of structures    *)
(* without an insert function.                                             *)
Equal(a, b) ==
  /\ DOMAIN a = DOMAIN b
  /\ \A p \in DOMAIN a :
       IF p[1] = "strct"
       THEN /\ a[p].comment = b[p].comment
            /\ \/ a[p].order = b[p].order
               \/ <<"insert", p[2]>> \notin DOMAIN a
               \/ Cardinality(Fields(a, p[2])) < 2
       ELSE a[p] = b[p]

(* ort-diff(1): the exit status is 0 if no differences were found.  None   *)
(* is found if and only if there is none.                                  *)
ExitExact ==
  verdict # "script" =>
    (ExitStatus(Differences(deployed, edited)) = 0 <=> Equal(deployed, edited))

(* What ort-diff writes are differences, and all there are, but for roles  *)
(* that were deleted and items of enumerations written in their place.     *)
Unwritten(d) == d.how = "del" /\ d.part[1] = "role"
Reported ==
  verdict # "script" =>
    LET diff == Differences(deployed, edited)
        Changes(lines) == { d \in lines : d.how # "same" }
    IN Changes(Written(diff)) \ {Entry("del", NoRole, "part")}
         = { d \in Changes(diff) : ~Unwritten(d) }

==============================================================================
